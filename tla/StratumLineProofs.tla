------------------------- MODULE StratumLineProofs -------------------------
(***************************************************************************)
(* What module StratumLine promises, for any number of lines, any lengths  *)
(* and buffer sizes and any way in which recv and send cut what they are   *)
(* given.                                                                  *)
(***************************************************************************)
EXTENDS StratumLine, SequenceTheorems, FiniteSetTheorems, TLAPS

-----------------------------------------------------------------------------
(* Numbers, and sequences put together one after the other.                *)

LEMMA LeastNumber ==
    ASSUME NEW T \in SUBSET Nat, T # {}
    PROVE  \E m \in T : \A n \in T : m <= n
<1> DEFINE Below == {1..n : n \in T}
<1>1. Below # {} /\ Below \subseteq FiniteSubsetsOf(Nat)
    <2>1. ASSUME NEW n \in T PROVE (1..n) \in FiniteSubsetsOf(Nat)
        BY FS_Interval DEF FiniteSubsetsOf
    <2>2. QED BY <2>1
<1> HIDE DEF Below
<1>2. PICK x \in Below : \A y \in Below : ~(<<y, x>> \in StrictSubsetOrdering(Nat))
    BY <1>1, FS_StrictSubsetOrderingWellFounded, WFMin
<1>3. PICK m \in T : x = 1..m
    BY DEF Below
<1>4. ASSUME NEW n \in T PROVE m <= n
    <2>1. (1..n) \in Below
        BY DEF Below
    <2>2. ~(<<1..n, 1..m>> \in StrictSubsetOrdering(Nat))
        BY <2>1, <1>2, <1>3
    <2>3. SUFFICES ASSUME n < m PROVE FALSE
        OBVIOUS
    <2>4. (1..n) \subseteq (1..m) /\ m \in 1..m /\ m \notin 1..n
        BY <2>3
    <2>5. (1..n) # (1..m)
        BY <2>4
    <2>6. (1..n) \in SUBSET Nat /\ (1..m) \in SUBSET Nat
        OBVIOUS
    <2>7. QED BY <2>2, <2>4, <2>5, <2>6 DEF StrictSubsetOrdering
<1>5. QED BY <1>4

GrowsTo(f, ss, n) == f = [i \in 1..n |-> IF i = 1 THEN ss[i] ELSE f[i - 1] \o ss[i]]

LEMMA FlattenDef ==
    ASSUME NEW ss, Len(ss) # 0
    PROVE  FlattenSeq(ss) = (CHOOSE f : GrowsTo(f, ss, Len(ss)))[Len(ss)]
BY DEF FlattenSeq, GrowsTo

LEMMA GrowthExists ==
    ASSUME NEW ss
    PROVE  \A n \in Nat : \E f : GrowsTo(f, ss, n)
<1> DEFINE T == {n \in Nat : ~\E f : GrowsTo(f, ss, n)}
<1>1. SUFFICES ASSUME T # {} PROVE FALSE
    OBVIOUS
<1>2. PICK n \in T : \A m \in T : n <= m
    <2> T \in SUBSET Nat
        OBVIOUS
    <2> HIDE DEF T
    <2> QED BY <1>1, LeastNumber
<1>3. n # 0
    <2>1. GrowsTo(<<>>, ss, 0)
        BY DEF GrowsTo
    <2>2. QED BY <2>1
<1>4. PICK g : GrowsTo(g, ss, n - 1)
    <2>1. n - 1 \in Nat /\ ~(n <= n - 1)
        BY <1>3
    <2>2. n - 1 \notin T
        BY <1>2, <2>1
    <2>3. QED BY <2>1, <2>2
<1> DEFINE f == [i \in 1..n |-> IF i < n THEN g[i] ELSE IF n = 1 THEN ss[1] ELSE g[n - 1] \o ss[n]]
           h == [i \in 1..n |-> IF i = 1 THEN ss[i] ELSE f[i - 1] \o ss[i]]
<1>5. ASSUME NEW i \in 1..n PROVE f[i] = h[i]
    <2>1. CASE i = n /\ n = 1
        <3>1. f[1] = ss[1] /\ h[1] = ss[1]
            <4> HIDE DEF T, f, h
            <4>1. 1 \in 1..n /\ ~(1 < n) /\ n = 1
                BY ONLY <2>1
            <4>2. QED BY ONLY <4>1, Zenon DEF f, h
        <3> HIDE DEF f, h
        <3>2. QED BY ONLY <2>1, <3>1
    <2>2. CASE i = n /\ n # 1
        <3>1. n - 1 \in 1..n /\ n - 1 < n
            BY <1>3, <2>2
        <3>2. f[n - 1] = g[n - 1]
            BY <3>1
        <3>3. f[n] = g[n - 1] \o ss[n]
            <4>1. n \in 1..n /\ ~(n < n) /\ n # 1
                BY <1>3, <2>2
            <4>2. QED BY <4>1
        <3>4. h[n] = f[n - 1] \o ss[n]
            BY <2>2
        <3>5. QED BY <2>2, <3>2, <3>3, <3>4
    <2>3. CASE i < n
        <3>1. i \in 1..(n - 1) /\ f[i] = g[i]
            BY <2>3
        <3>2. g[i] = IF i = 1 THEN ss[i] ELSE g[i - 1] \o ss[i]
            BY <1>4, <3>1 DEF GrowsTo
        <3>3. CASE i = 1
            BY <3>1, <3>2, <3>3
        <3>4. CASE i # 1
            <4>1. i - 1 \in 1..n /\ i - 1 < n
                BY <2>3, <3>4
            <4>2. f[i - 1] = g[i - 1]
                BY <4>1
            <4>3. h[i] = f[i - 1] \o ss[i]
                BY <3>4
            <4>4. g[i] = g[i - 1] \o ss[i]
                BY <3>2, <3>4
            <4>5. QED BY <3>1, <4>2, <4>3, <4>4
        <3>5. QED BY <3>3, <3>4
    <2>4. QED BY <2>1, <2>2, <2>3
<1>6. f = h
    BY <1>5
<1>7. GrowsTo(f, ss, n)
    BY <1>6 DEF GrowsTo
<1>8. QED BY <1>7

\* Two sequences of lines that agree at the beginning grow alike.
LEMMA GrowthUnique ==
    ASSUME NEW ss, NEW tt, NEW f, NEW g, NEW m \in Nat, NEW n \in Nat, m <= n,
           \A i \in 1..m : ss[i] = tt[i],
           GrowsTo(f, ss, m), GrowsTo(g, tt, n)
    PROVE  \A i \in 1..m : f[i] = g[i]
<1> DEFINE T == {i \in 1..m : f[i] # g[i]}
<1>1. SUFFICES ASSUME T # {} PROVE FALSE
    OBVIOUS
<1>2. PICK i \in T : \A j \in T : i <= j
    <2> T \in SUBSET Nat
        OBVIOUS
    <2> HIDE DEF T
    <2> QED BY <1>1, LeastNumber
<1>3. i \in 1..m /\ i \in 1..n /\ f[i] # g[i]
    OBVIOUS
<1>4. f[i] = (IF i = 1 THEN ss[i] ELSE f[i - 1] \o ss[i])
    BY <1>3 DEF GrowsTo
<1>5. g[i] = (IF i = 1 THEN tt[i] ELSE g[i - 1] \o tt[i])
    BY <1>3 DEF GrowsTo
<1>6. CASE i = 1
    BY <1>3, <1>4, <1>5, <1>6
<1>7. CASE i # 1
    <2>1. i - 1 \in 1..m /\ ~(i <= i - 1)
        BY <1>3, <1>7
    <2>2. i - 1 \notin T
        BY <1>2, <2>1
    <2>3. f[i - 1] = g[i - 1]
        BY <2>1, <2>2
    <2>4. f[i] = f[i - 1] \o ss[i] /\ g[i] = g[i - 1] \o tt[i]
        BY <1>4, <1>5, <1>7
    <2>5. QED BY <1>3, <2>3, <2>4
<1>8. QED BY <1>6, <1>7

LEMMA FlattenEmpty ==
    FlattenSeq(<<>>) = <<>>
BY DEF FlattenSeq

LEMMA FlattenAppend ==
    ASSUME NEW X, NEW ss \in Seq(Seq(X)), NEW s \in Seq(X)
    PROVE  FlattenSeq(Append(ss, s)) = FlattenSeq(ss) \o s
<1> DEFINE tt == Append(ss, s)
           n == Len(ss)
<1>1. /\ n \in Nat /\ tt \in Seq(Seq(X)) /\ Len(tt) = n + 1
      /\ \A i \in 1..n : ss[i] = tt[i]
      /\ tt[n + 1] = s
    OBVIOUS
<1> HIDE DEF tt, n
<1> DEFINE f == CHOOSE x : GrowsTo(x, ss, n)
           g == CHOOSE x : GrowsTo(x, tt, n + 1)
<1>2. GrowsTo(f, ss, n) /\ GrowsTo(g, tt, n + 1)
    <2>1. n + 1 \in Nat /\ n \in Nat
        BY <1>1
    <2>2. (\E x : GrowsTo(x, ss, n)) /\ (\E x : GrowsTo(x, tt, n + 1))
        BY <2>1, GrowthExists
    <2>3. QED BY <2>2
<1>3. FlattenSeq(tt) = g[n + 1]
    BY <1>1, FlattenDef
<1>4. n > 0 => FlattenSeq(ss) = f[n]
    BY <1>1, FlattenDef DEF n
<1> HIDE DEF f, g
<1>5. g[n + 1] = (IF n + 1 = 1 THEN tt[n + 1] ELSE g[(n + 1) - 1] \o tt[n + 1])
    <2>1. n + 1 \in 1..(n + 1)
        BY <1>1
    <2>2. g = [i \in 1..(n + 1) |-> IF i = 1 THEN tt[i] ELSE g[i - 1] \o tt[i]]
        BY <1>2 DEF GrowsTo
    <2>3. QED BY <2>1, <2>2
<1>6. CASE n = 0
    <2>1. ss = <<>>
        BY <1>6 DEF n
    <2>2. FlattenSeq(tt) = s /\ FlattenSeq(ss) = <<>>
        BY <1>1, <1>3, <1>5, <1>6, <2>1, FlattenEmpty
    <2>3. <<>> \o s = s
        OBVIOUS
    <2>4. QED BY <2>2, <2>3 DEF tt
<1>7. CASE n # 0
    <2>1. n \in 1..n /\ n > 0 /\ n <= n + 1 /\ n + 1 # 1 /\ (n + 1) - 1 = n /\ n + 1 \in Nat
        BY <1>1, <1>7
    <2>2. f[n] = g[n]
        <3>1. /\ n \in Nat /\ n + 1 \in Nat /\ n <= n + 1
              /\ \A i \in 1..n : ss[i] = tt[i]
              /\ GrowsTo(f, ss, n) /\ GrowsTo(g, tt, n + 1)
            BY <1>1, <1>2, <2>1
        <3>2. \A i \in 1..n : f[i] = g[i]
            BY ONLY <3>1, GrowthUnique
        <3>3. QED BY <2>1, <3>2
    <2>3. QED BY <1>1, <1>3, <1>4, <1>5, <2>1, <2>2 DEF tt
<1>8. QED BY <1>6, <1>7
LEMMA ParameterFacts ==
    /\ Pieces \in Nat \ {0} /\ RBufSize \in Nat \ {0} /\ Chunk \in Nat \ {0}
    /\ MaxSends \in Nat /\ MaxLines \in Nat /\ MaxBlanks \in Nat
    /\ RBufSize > 1 /\ Newline \notin Nat \X Nat
    /\ Nobody \notin Writers
<1>1. /\ {Pieces, RBufSize, Chunk} \subseteq Nat \ {0}
      /\ {MaxSends, MaxLines, MaxBlanks} \subseteq Nat
      /\ RBufSize > 1 /\ Newline \notin Nat \X Nat
      /\ Cardinality({Stratum, Workio, Nobody}) = 3
    BY LineAssumption
<1>2. Nobody \notin Writers
    <2>1. SUFFICES ASSUME Nobody \in {Stratum, Workio} PROVE FALSE
        BY DEF Writers
    <2>2. {Stratum, Workio, Nobody} = {Stratum} \cup {Workio}
        BY <2>1
    <2>3. IsFiniteSet({Stratum}) /\ Cardinality({Stratum}) = 1
        BY FS_Singleton
    <2>4. Cardinality({Stratum} \cup {Workio}) \in {1, 2}
        BY <2>3, FS_AddElement
    <2>5. QED BY <1>1, <2>2, <2>4
<1>3. QED BY <1>1, <1>2

\* A sequence cut in two and put together again.
LEMMA TwoParts ==
    ASSUME NEW S, NEW s \in Seq(S), NEW n \in 0..Len(s)
    PROVE  LET a == SubSeq(s, 1, n)  b == SubSeq(s, n + 1, Len(s)) IN
           /\ a \in Seq(S) /\ Len(a) = n /\ \A i \in 1..n : a[i] = s[i]
           /\ b \in Seq(S) /\ Len(b) = Len(s) - n
           /\ \A i \in 1..(Len(s) - n) : b[i] = s[n + i]
           /\ a \o b = s
<1> DEFINE a == SubSeq(s, 1, n)
           b == SubSeq(s, n + 1, Len(s))
<1>1. /\ Len(s) \in Nat /\ n \in Int /\ n + 1 \in Int /\ Len(s) \in Int /\ 1 \in Int
      /\ \A i \in 1..Len(s) : s[i] \in S
    OBVIOUS
<1>2. a \in Seq(S) /\ Len(a) = n /\ \A i \in 1..n : a[i] = s[i]
    <2>1. \A i \in 1..n : s[i] \in S
        BY <1>1
    <2>2. /\ a \in Seq(S) /\ Len(a) = IF 1 <= n THEN n - 1 + 1 ELSE 0
          /\ \A i \in 1..(n - 1 + 1) : a[i] = s[1 + i - 1]
        BY <1>1, <2>1, SubSeqProperties
    <2>3. QED BY <2>2
<1>3. b \in Seq(S) /\ Len(b) = Len(s) - n /\ \A i \in 1..(Len(s) - n) : b[i] = s[n + i]
    <2>1. \A i \in (n + 1)..Len(s) : s[i] \in S
        BY <1>1
    <2>2. /\ b \in Seq(S) /\ Len(b) = IF n + 1 <= Len(s) THEN Len(s) - (n + 1) + 1 ELSE 0
          /\ \A i \in 1..(Len(s) - (n + 1) + 1) : b[i] = s[(n + 1) + i - 1]
        BY <1>1, <2>1, SubSeqProperties
    <2>3. \A i \in 1..(Len(s) - n) : i \in 1..(Len(s) - (n + 1) + 1) /\ (n + 1) + i - 1 = n + i
        BY <1>1
    <2>4. QED BY <1>1, <2>2, <2>3
<1> HIDE DEF a, b
<1>4. a \o b = s
    <2>1. a \o b \in Seq(S) /\ Len(a \o b) = Len(s)
        <3>1. a \in Seq(S) /\ b \in Seq(S) /\ Len(a) + Len(b) = Len(s)
            BY <1>1, <1>2, <1>3
        <3>2. a \o b \in Seq(S) /\ Len(a \o b) = Len(a) + Len(b)
            BY <3>1
        <3>3. QED BY <3>1, <3>2
    <2>2. ASSUME NEW i \in 1..Len(s) PROVE (a \o b)[i] = s[i]
        <3> a \in Seq(S) /\ b \in Seq(S) /\ Len(a) = n /\ Len(b) = Len(s) - n /\ Len(s) \in Nat
            BY <1>1, <1>2, <1>3
        <3>0. n \in Nat /\ i \in Nat
            BY <1>1
        <3>1. CASE i <= n
            <4>1. (a \o b)[i] = a[i]
                BY <3>1
            <4>2. QED BY <1>2, <3>1, <4>1
        <3>2. CASE i > n
            <4>1. i - n \in 1..(Len(s) - n) /\ n + (i - n) = i
                BY <1>1, <3>2
            <4>2. (a \o b)[i] = b[i - n]
                BY <3>2
            <4>3. b[i - n] = s[n + (i - n)]
                BY <1>3, <4>1
            <4>4. QED BY <4>1, <4>2, <4>3
        <3>3. QED BY <3>0, <3>1, <3>2
    <2> DEFINE c == a \o b
    <2>3. c \in Seq(S) /\ Len(c) = Len(s) /\ \A i \in 1..Len(s) : c[i] = s[i]
        BY <2>1, <2>2
    <2> HIDE DEF c
    <2>4. c = s
        BY <2>3
    <2>5. QED BY <2>4 DEF c
<1>5. QED BY <1>2, <1>3, <1>4 DEF a, b

\* A number is brought to the next multiple, and is always below it.
LEMMA NextMultiple ==
    ASSUME NEW x \in Nat, NEW n \in Nat \ {0}
    PROVE  LET y == x + (n - (x % n)) IN y \in Nat /\ y > x /\ (y % n) = 0
<1> DEFINE q == x \div n
           r == x % n
           y == x + (n - r)
<1>1. q \in Nat /\ r \in 0..(n - 1) /\ x = n * q + r
    OBVIOUS
<1> HIDE DEF q, r
<1>2. y = n * q + n
    BY <1>1
<1>3. n * q + n = n * (q + 1) /\ n * q \in Nat /\ q + 1 \in Nat
    BY <1>1
<1>4. ((n * (q + 1)) % n) = 0
    <2> DEFINE p == q + 1
    <2>1. p \in Nat
        BY <1>1
    <2> HIDE DEF p
    <2>2. ((n * p) % n) = 0
        BY <2>1
    <2>3. QED BY <2>2 DEF p
<1>5. y \in Nat /\ y > x
    BY <1>1
<1>6. QED BY <1>2, <1>3, <1>4, <1>5 DEF r

LEMMA Joined ==
    ASSUME NEW S, NEW s \in Seq(S), NEW t \in Seq(S)
    PROVE  /\ s \o t \in Seq(S) /\ Len(s \o t) = Len(s) + Len(t)
           /\ \A i \in 1..Len(s) : (s \o t)[i] = s[i]
           /\ \A k \in 1..Len(t) : (s \o t)[Len(s) + k] = t[k]
<1>1. Len(s) \in Nat /\ Len(t) \in Nat
    OBVIOUS
<1>2. s \o t \in Seq(S) /\ Len(s \o t) = Len(s) + Len(t) /\ \A i \in 1..Len(s) : (s \o t)[i] = s[i]
    OBVIOUS
<1>3. ASSUME NEW k \in 1..Len(t) PROVE (s \o t)[Len(s) + k] = t[k]
    <2> DEFINE i == Len(s) + k
    <2>1. i \in 1..(Len(s) + Len(t)) /\ i > Len(s) /\ i - Len(s) = k
        BY <1>1
    <2> HIDE DEF i
    <2>2. (s \o t)[i] = t[i - Len(s)]
        BY <1>1, <2>1
    <2>3. QED BY <2>1, <2>2 DEF i
<1>4. QED BY <1>2, <1>3

-----------------------------------------------------------------------------
(* Types, and the room in the buffer.                                      *)

LEMMA ByteFacts ==
    /\ \A n \in 1..(MaxSends + MaxLines) :
          /\ Line(n) \in Seq(Byte) /\ Len(Line(n)) = Pieces + 1
          /\ \A k \in 1..Pieces : Line(n)[k] = <<n, k>>
          /\ Line(n)[Pieces + 1] = Newline
    /\ \A c \in Byte : c # Newline => c \in (1..(MaxSends + MaxLines)) \X (1..Pieces)
    /\ \A n, k \in Nat : <<n, k>> # Newline
    /\ Newline \in Byte
<1>1. ASSUME NEW n \in 1..(MaxSends + MaxLines)
      PROVE  /\ Line(n) \in Seq(Byte) /\ Len(Line(n)) = Pieces + 1
             /\ \A k \in 1..Pieces : Line(n)[k] = <<n, k>>
             /\ Line(n)[Pieces + 1] = Newline
    <2>1. Pieces \in Nat
        BY ParameterFacts
    <2>2. ASSUME NEW k \in 1..Pieces PROVE <<n, k>> \in Byte
        BY DEF Byte
    <2>3. Text(n) \in [1..Pieces -> Byte]
        BY <2>2 DEF Text
    <2>4. /\ Text(n) \in Seq(Byte) /\ Len(Text(n)) = Pieces
          /\ \A k \in 1..Pieces : Text(n)[k] = <<n, k>>
        BY <2>1, <2>3 DEF Text
    <2>5. Newline \in Byte
        BY DEF Byte
    <2> DEFINE t == Text(n)
    <2> HIDE DEF t
    <2>6. /\ Append(t, Newline) \in Seq(Byte) /\ Len(Append(t, Newline)) = Pieces + 1
          /\ \A k \in 1..Pieces : Append(t, Newline)[k] = <<n, k>>
          /\ Append(t, Newline)[Pieces + 1] = Newline
        <3>1. /\ t \in Seq(Byte) /\ Len(t) = Pieces
              /\ \A k \in 1..Pieces : t[k] = <<n, k>>
            BY ONLY <2>4 DEF t
        <3>2. /\ Append(t, Newline) \in Seq(Byte) /\ Len(Append(t, Newline)) = Len(t) + 1
              /\ \A k \in 1..Len(t) : Append(t, Newline)[k] = t[k]
              /\ Append(t, Newline)[Len(t) + 1] = Newline
            BY ONLY <2>5, <3>1
        <3>3. QED BY ONLY <2>1, <3>1, <3>2
    <2>7. QED BY ONLY <2>6 DEF t, Line
<1>2. \A n, k \in Nat : <<n, k>> # Newline
    BY ParameterFacts
<1>3. QED BY <1>1, <1>2 DEF Byte

\* What strtok finds, and what is left in the buffer.
LEMMA TokenFacts ==
    ASSUME sockbuf \in Seq(Byte)
    PROVE  /\ Leading \in 0..Len(sockbuf)
           /\ \A i \in 1..Leading : sockbuf[i] = Newline
           /\ Leading < Len(sockbuf) => sockbuf[Leading + 1] # Newline
           /\ Token \in Seq(Byte) /\ Leading + Len(Token) <= Len(sockbuf)
           /\ \A i \in 1..Len(Token) : Token[i] = sockbuf[Leading + i] /\ Token[i] # Newline
           /\ Leading + Len(Token) < Len(sockbuf) =>
                 sockbuf[Leading + Len(Token) + 1] = Newline
<1> DEFINE n == Len(sockbuf)
           Begins == {i \in 1..(n + 1) : i = n + 1 \/ sockbuf[i] # Newline}
<1>1. n \in Nat /\ DOMAIN sockbuf = 1..n /\ \A i \in 1..n : sockbuf[i] \in Byte
    OBVIOUS
<1>2. PICK b \in Begins : \A i \in Begins : b <= i
    <2>1. Begins \in SUBSET Nat /\ n + 1 \in Begins
        BY <1>1
    <2> HIDE DEF Begins
    <2>2. QED BY <2>1, LeastNumber
<1>3. /\ b \in 1..(n + 1) /\ (b = n + 1 \/ sockbuf[b] # Newline)
      /\ \A i \in 1..(b - 1) : sockbuf[i] = Newline
    <2>1. ASSUME NEW i \in 1..(b - 1), sockbuf[i] # Newline PROVE FALSE
        <3>1. i \in Begins /\ ~(b <= i)
            BY <1>1, <2>1
        <3>2. QED BY <1>2, <3>1
    <2>2. QED BY <2>1
<1> HIDE DEF n, Begins
<1>4. Leading = b - 1
    <2>1. {i \in DOMAIN sockbuf : \A j \in 1..i : sockbuf[j] = Newline} = 1..(b - 1)
        <3>1. ASSUME NEW i \in 1..n, \A j \in 1..i : sockbuf[j] = Newline PROVE i \in 1..(b - 1)
            <4>1. SUFFICES ASSUME b <= i PROVE FALSE
                BY <1>1, <1>3
            <4>2. b \in 1..i
                BY <1>1, <1>3, <4>1
            <4>3. QED BY <1>1, <1>3, <3>1, <4>2
        <3>2. ASSUME NEW i \in 1..(b - 1) PROVE i \in 1..n /\ \A j \in 1..i : sockbuf[j] = Newline
            BY <1>1, <1>3
        <3>3. QED BY <1>1, <3>1, <3>2
    <2>2. Cardinality(1..(b - 1)) = b - 1
        <3> DEFINE c == b - 1
        <3>1. c \in Nat
            BY <1>1, <1>3
        <3> HIDE DEF c
        <3>2. Cardinality(1..c) = IF 1 > c THEN 0 ELSE c - 1 + 1
            BY <3>1, FS_Interval
        <3>3. Cardinality(1..c) = c
            BY <3>1, <3>2
        <3>4. QED BY <3>3 DEF c
    <2>3. QED BY <2>1, <2>2 DEF Leading
<1>5. /\ Leading \in 0..n
      /\ \A i \in 1..Leading : sockbuf[i] = Newline
      /\ Leading < n => sockbuf[Leading + 1] # Newline
    BY <1>1, <1>3, <1>4
<1> DEFINE m == Leading
           behind == SubSeq(sockbuf, m + 1, Len(sockbuf))
<1> HIDE DEF m
<1>6. /\ m \in 0..n /\ m \in Nat
      /\ behind \in Seq(Byte) /\ Len(behind) = n - m
      /\ \A i \in 1..(n - m) : behind[i] = sockbuf[m + i]
    <2>1. m \in 0..Len(sockbuf)
        BY <1>5 DEF m, n
    <2>2. /\ behind \in Seq(Byte) /\ Len(behind) = Len(sockbuf) - m
          /\ \A i \in 1..(Len(sockbuf) - m) : behind[i] = sockbuf[m + i]
        BY <2>1, TwoParts
    <2> HIDE DEF behind
    <2>3. QED BY <1>1, <2>1, <2>2 DEF n
<1>7. Token = IF Whole(behind) THEN SubSeq(behind, 1, SelectInSeq(behind, LAMBDA c : c = Newline) - 1)
              ELSE behind
    BY DEF Token, m
<1> HIDE DEF behind
<1>8. CASE ~Whole(behind)
    <2>1. Token = behind
        BY <1>7, <1>8
    <2>2. \A i \in 1..(n - m) : behind[i] # Newline
        BY <1>6, <1>8 DEF Whole, ToSet
    <2>3. n - m \in Nat /\ m + Len(Token) = n
        BY <1>1, <1>6, <2>1
    <2>4. Token \in Seq(Byte) /\ Len(Token) = n - m
        BY ONLY <1>6, <2>1
    <2>5. \A i \in 1..Len(Token) : Token[i] = sockbuf[m + i] /\ Token[i] # Newline
        BY ONLY <1>6, <2>1, <2>2, <2>4
    <2>6. m + Len(Token) <= n /\ ~(m + Len(Token) < n)
        BY ONLY <1>1, <1>6, <2>3
    <2>7. QED BY ONLY <1>5, <2>4, <2>5, <2>6, Zenon DEF m, n
<1>9. CASE Whole(behind)
    <2> DEFINE Ends == {i \in 1..Len(behind) : behind[i] = Newline}
    <2>1. Ends \in SUBSET Nat /\ Ends # {}
        BY <1>6, <1>9 DEF Whole, ToSet
    <2>2. SelectInSeq(behind, LAMBDA c : c = Newline) = Min(Ends)
        BY <2>1 DEF SelectInSeq
    <2> DEFINE f == Min(Ends)
    <2>3. f \in Ends /\ \A i \in Ends : f <= i
        <3> HIDE DEF Ends
        <3>1. \E x \in Ends : \A y \in Ends : x <= y
            BY <2>1, LeastNumber
        <3>2. QED BY <3>1 DEF Min
    <2> HIDE DEF f
    <2>4. f \in 1..(n - m) /\ behind[f] = Newline
        BY <1>6, <2>3
    <2>5. ASSUME NEW i \in 1..(f - 1) PROVE behind[i] # Newline
        <3>1. i \in 1..Len(behind) /\ ~(f <= i)
            BY <1>1, <1>6, <2>4
        <3>2. QED BY <2>3, <3>1
    <2>6. Token = SubSeq(behind, 1, f - 1)
        BY <1>7, <1>9, <2>2 DEF f
    <2>7. Token \in Seq(Byte) /\ Len(Token) = f - 1 /\ \A i \in 1..(f - 1) : Token[i] = behind[i]
        <3>1. f - 1 \in 0..Len(behind)
            BY <1>1, <1>6, <2>4
        <3>2. QED BY <1>6, <2>6, <3>1, TwoParts
    <2>8. \A i \in 1..(f - 1) : i \in 1..(n - m) /\ Token[i] = sockbuf[m + i] /\ Token[i] # Newline
        <3>1. ASSUME NEW i \in 1..(f - 1)
              PROVE  i \in 1..(n - m) /\ Token[i] = sockbuf[m + i] /\ Token[i] # Newline
            <4>1. i \in 1..(n - m)
                BY <1>1, <1>6, <2>4
            <4>2. Token[i] = behind[i] /\ behind[i] = sockbuf[m + i]
                BY <1>6, <2>7, <4>1
            <4>3. QED BY <2>5, <4>1, <4>2
        <3>2. QED BY <3>1
    <2>9. /\ m + Len(Token) <= n /\ m + Len(Token) + 1 = m + f
          /\ sockbuf[m + f] = Newline
        BY <1>1, <1>6, <2>4, <2>7
    <2>10. QED BY <1>1, <1>5, <2>7, <2>8, <2>9 DEF m, n
<1>10. QED BY <1>8, <1>9

LEMMA BehindFacts ==
    ASSUME sockbuf \in Seq(Byte)
    PROVE  Behind \in Seq(Byte) /\ Len(Behind) <= Len(sockbuf)
<1> DEFINE from == Len(Token) + 2
           to == IF Leading = 0 THEN Len(sockbuf) ELSE Leading + Len(Token)
<1>1. /\ from \in Nat /\ to \in Nat /\ from >= 1 /\ to <= Len(sockbuf) /\ Len(sockbuf) \in Nat
      /\ \A i \in 1..Len(sockbuf) : sockbuf[i] \in Byte
    BY TokenFacts
<1>2. Behind = IF Len(sockbuf) <= Len(Token) + 1 THEN <<>> ELSE SubSeq(sockbuf, from, to)
    BY DEF Behind
<1> HIDE DEF from, to
<1>3. /\ SubSeq(sockbuf, from, to) \in Seq(Byte)
      /\ Len(SubSeq(sockbuf, from, to)) = IF from <= to THEN to - from + 1 ELSE 0
    <2>1. \A i \in from..to : sockbuf[i] \in Byte
        BY <1>1
    <2>2. from \in Int /\ to \in Int
        BY <1>1
    <2>3. QED BY <2>1, <2>2, SubSeqProperties
<1>4. QED BY <1>1, <1>2, <1>3

-----------------------------------------------------------------------------
(* The writing half.  A thread with a line to send has the lock; of this   *)
(* line so much is at the end of the stream.  A line reported that is not  *)
(* in the stream is paid for by a call that broke off, and so will the one *)
(* be that follows a torn end.                                             *)

\* How much of the line in hand has been sent, and where it began.
Sent == IF lock = Nobody THEN 0 ELSE Pieces + 1 - Len(rest[lock].text)
Start == Len(stream) - Sent

\* The line n stands in s, after the end of another or at the beginning.
Has(s, n) ==
    \E i \in 0..Len(s) : /\ i = 0 \/ s[i] = Newline
                         /\ i + Pieces + 1 <= Len(s)
                         /\ \A k \in 1..Pieces : s[i + k] = <<n, k>>
                         /\ s[i + Pieces + 1] = Newline

Missing == {n \in reported : ~Has(stream, n)}
Torn == Start > 0 /\ stream[Start] # Newline

HolderInv ==
    /\ \A t \in Writers : lock # t => rest[t] = Nothing
    /\ lock = Nobody => broken <= calls
    /\ lock # Nobody =>
          /\ broken < calls
          /\ rest[lock].no = calls /\ calls \notin reported
          /\ Len(rest[lock].text) \in 1..(Pieces + 1)
          /\ Sent <= Len(stream)
          /\ \A k \in 1..Len(rest[lock].text) : rest[lock].text[k] = Line(calls)[Sent + k]
          /\ \A k \in 1..Sent : stream[Start + k] = Line(calls)[k]
MissingInv ==
    /\ Cardinality(Missing) <= broken
    /\ Torn => Cardinality(Missing) + 1 <= broken

SendTypes ==
    /\ lock \in Writers \cup {Nobody}
    /\ rest \in [Writers -> [no : 0..MaxSends, text : Seq(Byte)]]
    /\ stream \in Seq(Byte)
    /\ calls \in 0..MaxSends
    /\ reported \subseteq 1..calls
    /\ broken \in Nat
SendInv == SendTypes /\ HolderInv /\ MissingInv

LEMMA HasGrows ==
    ASSUME NEW s \in Seq(Byte), NEW t \in Seq(Byte), NEW n, Has(s, n)
    PROVE  Has(s \o t, n)
<1>1. PICK i \in 0..Len(s) : /\ i = 0 \/ s[i] = Newline
                             /\ i + Pieces + 1 <= Len(s)
                             /\ \A k \in 1..Pieces : s[i + k] = <<n, k>>
                             /\ s[i + Pieces + 1] = Newline
    BY DEF Has
<1>2. /\ Len(s \o t) = Len(s) + Len(t) /\ Len(s) \in Nat /\ Len(t) \in Nat
      /\ \A j \in 1..Len(s) : (s \o t)[j] = s[j]
    OBVIOUS
<1>3. Pieces \in Nat \ {0}
    BY ParameterFacts
<1>4. i \in 0..Len(s \o t) /\ i + Pieces + 1 <= Len(s \o t) /\ i + Pieces + 1 \in 1..Len(s)
    BY <1>1, <1>2, <1>3
<1>5. i = 0 \/ (s \o t)[i] = Newline
    BY <1>1, <1>2
<1>6. ASSUME NEW k \in 1..Pieces PROVE (s \o t)[i + k] = <<n, k>>
    <2>1. i + k \in 1..Len(s)
        BY <1>1, <1>2, <1>3
    <2>2. QED BY <1>1, <1>2, <2>1
<1>7. (s \o t)[i + Pieces + 1] = Newline
    BY <1>1, <1>2, <1>4
<1> HIDE DEF Has
<1>8. QED BY <1>4, <1>5, <1>6, <1>7 DEF Has

\* A line that stands in the stream is one of the lines the pool splits it into.
LEMMA HasIsSplit ==
    ASSUME NEW s \in Seq(Byte), NEW n \in Nat, Has(s, n)
    PROVE  Text(n) \in Split(s)
<1>1. PICK i \in 0..Len(s) : /\ i = 0 \/ s[i] = Newline
                             /\ i + Pieces + 1 <= Len(s)
                             /\ \A k \in 1..Pieces : s[i + k] = <<n, k>>
                             /\ s[i + Pieces + 1] = Newline
    BY DEF Has
<1>2. Pieces \in Nat \ {0} /\ Len(s) \in Nat /\ i \in Nat /\ DOMAIN s = 1..Len(s)
    BY ParameterFacts
<1> DEFINE ends == {0} \cup {e \in DOMAIN s : s[e] = Newline}
           later == {j \in ends : j > i}
           stop == i + Pieces + 1
<1>3. i \in ends /\ stop \in later
    BY <1>1, <1>2
<1>4. ASSUME NEW j \in later PROVE stop <= j
    <2>1. SUFFICES ASSUME j < stop PROVE FALSE
        BY <1>2
    <2>2. j \in Nat /\ j > i /\ s[j] = Newline
        BY <1>2
    <2>3. j - i \in 1..Pieces /\ i + (j - i) = j
        BY <1>2, <2>1, <2>2
    <2>4. s[j] = <<n, j - i>>
        BY <1>1, <2>3
    <2>5. <<n, j - i>> # Newline
        BY <2>3, ByteFacts
    <2>6. QED BY <2>2, <2>4, <2>5
<1>5. Min(later) = stop
    <2>1. \A j \in later : j \in Nat
        BY <1>2
    <2> HIDE DEF later
    <2>2. stop \in Nat
        BY <1>2
    <2> HIDE DEF stop
    <2>3. \A x \in later : (\A y \in later : x <= y) => x = stop
        BY <1>3, <1>4, <2>1, <2>2
    <2>4. QED BY <1>3, <1>4, <2>3 DEF Min
<1>6. SubSeq(s, i + 1, stop - 1) = Text(n)
    <2>1. stop - 1 = i + Pieces /\ i + 1 \in Int /\ i + Pieces \in Int
        BY <1>2
    <2>2. \A j \in (i + 1)..(i + Pieces) : s[j] \in Byte
        BY <1>1, <1>2
    <2>3. /\ SubSeq(s, i + 1, i + Pieces) \in Seq(Byte)
          /\ Len(SubSeq(s, i + 1, i + Pieces)) = IF i + 1 <= i + Pieces THEN (i + Pieces) - (i + 1) + 1 ELSE 0
          /\ \A j \in 1..((i + Pieces) - (i + 1) + 1) : SubSeq(s, i + 1, i + Pieces)[j] = s[(i + 1) + j - 1]
        BY <2>1, <2>2, SubSeqProperties
    <2> DEFINE t == SubSeq(s, i + 1, i + Pieces)
    <2> HIDE DEF t
    <2>4. t \in Seq(Byte) /\ Len(t) = Pieces
        BY <1>2, <2>3 DEF t
    <2>5. ASSUME NEW k \in 1..Pieces PROVE t[k] = <<n, k>>
        <3>1. k \in 1..((i + Pieces) - (i + 1) + 1) /\ (i + 1) + k - 1 = i + k
            BY <1>2
        <3>2. t[k] = s[i + k]
            BY <2>3, <3>1 DEF t
        <3>3. QED BY <1>1, <3>2
    <2>6. t = [k \in 1..Pieces |-> t[k]]
        BY <2>4
    <2>7. t = Text(n)
        BY <2>5, <2>6 DEF Text
    <2>8. QED BY <2>1, <2>7 DEF t
<1>7. i \in {e \in ends : \E j \in ends : j > e}
    BY <1>3
<1>8. SubSeq(s, i + 1, Min({j \in ends : j > i}) - 1) = Text(n)
    BY <1>5, <1>6
<1> HIDE DEF ends
<1>9. Text(n) \in {SubSeq(s, e + 1, Min({j \in ends : j > e}) - 1) :
                      e \in {x \in ends : \E j \in ends : j > x}}
    BY <1>7, <1>8
<1>10. QED BY <1>9 DEF Split, ends

\* What is missing can be counted, and a line more makes one more at most.
LEMMA MissingFacts ==
    ASSUME NEW R, NEW c \in Nat, R \subseteq 1..c, NEW M \in SUBSET R
    PROVE  /\ IsFiniteSet(M) /\ Cardinality(M) \in Nat
           /\ \A L \in SUBSET M : IsFiniteSet(L) /\ Cardinality(L) <= Cardinality(M)
                                  /\ Cardinality(L) \in Nat
           /\ \A x, L : L \subseteq M \cup {x} =>
                 Cardinality(L) \in Nat /\ Cardinality(L) <= Cardinality(M) + 1
<1>1. IsFiniteSet(1..c)
    BY FS_Interval
<1>2. IsFiniteSet(M) /\ Cardinality(M) \in Nat
    <2>1. M \in SUBSET (1..c)
        OBVIOUS
    <2>2. IsFiniteSet(M)
        BY <1>1, <2>1, FS_Subset
    <2>3. QED BY <2>2, FS_CardinalityType
<1>3. ASSUME NEW L \in SUBSET M
      PROVE  IsFiniteSet(L) /\ Cardinality(L) <= Cardinality(M) /\ Cardinality(L) \in Nat
    BY <1>2, FS_Subset, FS_CardinalityType
<1>4. ASSUME NEW x, NEW L, L \subseteq M \cup {x}
      PROVE  Cardinality(L) \in Nat /\ Cardinality(L) <= Cardinality(M) + 1
    <2>1. IsFiniteSet(M \cup {x}) /\ Cardinality(M \cup {x}) <= Cardinality(M) + 1
          /\ Cardinality(M \cup {x}) \in Nat
        <3>1. /\ IsFiniteSet(M \cup {x})
              /\ Cardinality(M \cup {x}) = IF x \in M THEN Cardinality(M) ELSE Cardinality(M) + 1
            BY <1>2, FS_AddElement
        <3>2. QED BY <1>2, <3>1
    <2>2. IsFiniteSet(L) /\ Cardinality(L) <= Cardinality(M \cup {x}) /\ Cardinality(L) \in Nat
        <3>1. L \in SUBSET (M \cup {x})
            BY <1>4
        <3>2. QED BY <2>1, <3>1, FS_Subset, FS_CardinalityType
    <2>3. QED BY <1>2, <2>1, <2>2
<1>5. QED BY <1>2, <1>3, <1>4

LEMMA InitSendInv ==
    Init => SendInv
<1> SUFFICES ASSUME Init PROVE SendInv
    OBVIOUS
<1>1. SendTypes
    BY ParameterFacts DEF Init, SendTypes, Nothing
<1>2. HolderInv
    BY DEF Init, HolderInv
<1>3. Cardinality(Missing) = 0 /\ ~Torn
    <2>1. Missing = {}
        BY DEF Init, Missing
    <2>2. ~Torn
        BY DEF Init, Torn, Start, Sent
    <2>3. QED BY <2>1, <2>2, FS_EmptySet
<1>4. MissingInv
    BY <1>3 DEF Init, MissingInv
<1>5. QED BY <1>1, <1>2, <1>4 DEF SendInv

LEMMA BeginSendStep ==
    ASSUME SendInv, NEW t \in Writers, BeginSend(t)
    PROVE  SendInv'
<1>1. /\ lock = Nobody /\ lock' = t /\ calls < MaxSends /\ calls' = calls + 1
      /\ rest' = [rest EXCEPT ![t] = [no |-> calls + 1, text |-> Line(calls + 1)]]
      /\ stream' = stream /\ reported' = reported /\ broken' = broken
    BY DEF BeginSend, LockSocket
<1>2. SendTypes /\ HolderInv /\ MissingInv
    BY DEF SendInv
<1>3. /\ MaxSends \in Nat /\ MaxLines \in Nat /\ Pieces \in Nat \ {0} /\ Nobody \notin Writers
      /\ calls \in Nat /\ Len(stream) \in Nat
    BY <1>2, ParameterFacts DEF SendTypes
<1>4. Line(calls + 1) \in Seq(Byte) /\ Len(Line(calls + 1)) = Pieces + 1
    <2>1. calls + 1 \in 1..(MaxSends + MaxLines)
        BY <1>1, <1>3
    <2>2. QED BY <2>1, ByteFacts
<1>5. rest'[t] = [no |-> calls + 1, text |-> Line(calls + 1)]
    BY <1>1, <1>2 DEF SendTypes
<1>6. SendTypes'
    <2>1. [no |-> calls + 1, text |-> Line(calls + 1)] \in [no : 0..MaxSends, text : Seq(Byte)]
        BY <1>1, <1>3, <1>4
    <2>2. rest' \in [Writers -> [no : 0..MaxSends, text : Seq(Byte)]]
        BY <1>1, <1>2, <2>1 DEF SendTypes
    <2>3. calls' \in 0..MaxSends /\ reported' \subseteq 1..calls'
        BY <1>1, <1>2, <1>3 DEF SendTypes
    <2>4. QED BY <1>1, <1>2, <2>2, <2>3 DEF SendTypes
<1>7. Sent = 0 /\ Sent' = 0 /\ Start' = Start
    BY <1>1, <1>3, <1>4, <1>5 DEF Sent, Start
<1>8. HolderInv'
    <2>1. ASSUME NEW u \in Writers, lock' # u PROVE rest'[u] = Nothing
        BY <1>1, <1>2, <1>3, <2>1 DEF HolderInv, SendTypes
    <2>2. broken' < calls' /\ calls' \notin reported'
        BY <1>1, <1>2, <1>3 DEF HolderInv, SendTypes
    <2>3. rest'[lock'].no = calls' /\ rest'[lock'].text = Line(calls')
        BY <1>1, <1>5
    <2>4. Len(rest'[lock'].text) \in 1..(Pieces + 1)
        BY <1>1, <1>3, <1>4, <1>5
    <2>5. Sent' <= Len(stream')
        BY <1>1, <1>3, <1>7
    <2>6. \A k \in 1..Len(rest'[lock'].text) : rest'[lock'].text[k] = Line(calls')[Sent' + k]
        BY <1>7, <2>3, <2>4
    <2>7. \A k \in 1..Sent' : stream'[Start' + k] = Line(calls')[k]
        BY <1>7
    <2>8. lock' # Nobody
        BY <1>1, <1>3
    <2>9. QED BY <2>1, <2>2, <2>3, <2>4, <2>5, <2>6, <2>7, <2>8 DEF HolderInv
<1>9. MissingInv'
    BY <1>1, <1>2, <1>7 DEF MissingInv, Missing, Torn
<1>10. QED BY <1>6, <1>8, <1>9 DEF SendInv

\* send takes a part of the line.
LEMMA SendPart ==
    ASSUME SendInv, NEW t \in Writers, rest[t] # Nothing,
           NEW n \in 1..Len(rest[t].text), n < Len(rest[t].text),
           stream' = stream \o SubSeq(rest[t].text, 1, n),
           rest' = [rest EXCEPT ![t].text = SubSeq(rest[t].text, n + 1, Len(rest[t].text))],
           UNCHANGED <<lock, reported, calls, broken>>
    PROVE  SendInv'
<1>1. SendTypes /\ HolderInv /\ MissingInv
    BY DEF SendInv
<1>2. lock = t /\ lock # Nobody
    BY <1>1, ParameterFacts DEF HolderInv
<1> DEFINE text == rest[t].text
           put == SubSeq(text, 1, n)
           left == SubSeq(text, n + 1, Len(text))
<1>3. /\ text \in Seq(Byte) /\ Len(text) \in 1..(Pieces + 1) /\ n \in Nat /\ n >= 1 /\ n < Len(text)
      /\ Pieces \in Nat /\ Sent = Pieces + 1 - Len(text) /\ Sent <= Len(stream)
      /\ stream \in Seq(Byte) /\ Start = Len(stream) - Sent
    <2>1. text \in Seq(Byte) /\ stream \in Seq(Byte)
        BY <1>1 DEF SendTypes
    <2>2. Len(text) \in 1..(Pieces + 1) /\ Sent <= Len(stream)
        BY <1>1, <1>2 DEF HolderInv
    <2>3. Sent = Pieces + 1 - Len(text)
        BY <1>2 DEF Sent
    <2>4. n \in Nat /\ n >= 1 /\ n < Len(text)
        BY <2>1
    <2>5. QED BY <2>1, <2>2, <2>3, <2>4, ParameterFacts DEF Start
<1>31. /\ \A k \in 1..Len(text) : text[k] = Line(calls)[Sent + k]
       /\ \A k \in 1..Sent : stream[Start + k] = Line(calls)[k]
    BY <1>1, <1>2 DEF HolderInv
<1>4. /\ put \in Seq(Byte) /\ Len(put) = n /\ \A k \in 1..n : put[k] = text[k]
      /\ left \in Seq(Byte) /\ Len(left) = Len(text) - n
      /\ \A k \in 1..(Len(text) - n) : left[k] = text[n + k]
    <2>1. n \in 0..Len(text)
        BY <1>3
    <2> HIDE DEF text
    <2>2. QED BY <1>3, <2>1, TwoParts
<1>5. stream' = stream \o put /\ lock' = lock /\ calls' = calls /\ reported' = reported /\ broken' = broken
    OBVIOUS
<1>6. rest'[t].text = left /\ rest'[t].no = rest[t].no /\ \A u \in Writers : u # t => rest'[u] = rest[u]
    BY <1>1 DEF SendTypes
<1>7. rest' \in [Writers -> [no : 0..MaxSends, text : Seq(Byte)]]
    BY <1>1, <1>4 DEF SendTypes
<1> HIDE DEF text, put, left
<1>32. /\ Len(text) \in Nat /\ Len(stream) \in Nat /\ Sent \in Nat /\ Start \in Nat
       /\ Len(left) \in Nat /\ Len(left) >= 1 /\ Len(left) <= Pieces + 1
    BY ONLY <1>3, <1>4
<1>8. /\ stream' \in Seq(Byte) /\ Len(stream') = Len(stream) + n
      /\ \A i \in 1..Len(stream) : stream'[i] = stream[i]
      /\ \A k \in 1..n : stream'[Len(stream) + k] = put[k]
    <2>1. stream \in Seq(Byte) /\ put \in Seq(Byte) /\ Len(put) = n
        BY ONLY <1>3, <1>4
    <2>2. /\ stream \o put \in Seq(Byte) /\ Len(stream \o put) = Len(stream) + Len(put)
          /\ \A i \in 1..Len(stream) : (stream \o put)[i] = stream[i]
          /\ \A k \in 1..Len(put) : (stream \o put)[Len(stream) + k] = put[k]
        <3>1. /\ stream \o put \in Seq(Byte) /\ Len(stream \o put) = Len(stream) + Len(put)
              /\ \A i \in 1..Len(stream) : (stream \o put)[i] = stream[i]
            BY ONLY <2>1
        <3>2. \A k \in 1..Len(put) : (stream \o put)[Len(stream) + k] = put[k]
            BY ONLY <2>1, Joined
        <3>3. QED BY ONLY <3>1, <3>2
    <2>3. QED BY ONLY <1>5, <2>1, <2>2
<1>9. SendTypes'
    BY ONLY <1>1, <1>5, <1>7, <1>8 DEF SendTypes
<1>10. Sent' = Sent + n /\ Start' = Start /\ Start \in Nat
    <2>1. Sent' = Pieces + 1 - Len(left)
        BY ONLY <1>2, <1>5, <1>6 DEF Sent
    <2>2. Len(left) = Len(text) - n /\ Len(stream') = Len(stream) + n
        BY ONLY <1>4, <1>8
    <2>3. Start' = Len(stream') - Sent'
        BY DEF Start
    <2>4. Sent' = Sent + n
        BY ONLY <1>3, <1>32, <2>1, <2>2
    <2>5. QED BY ONLY <1>3, <1>32, <2>2, <2>3, <2>4
<1>11. HolderInv'
    <2>1. \A u \in Writers : lock' # u => rest'[u] = Nothing
        BY ONLY <1>1, <1>2, <1>5, <1>6 DEF HolderInv
    <2>2. broken' < calls' /\ rest'[lock'].no = calls' /\ calls' \notin reported'
        BY ONLY <1>1, <1>2, <1>5, <1>6 DEF HolderInv
    <2>3. rest'[lock'].text = left /\ Len(left) \in 1..(Pieces + 1) /\ Sent' <= Len(stream')
        <3>1. rest'[lock'].text = left
            BY ONLY <1>2, <1>5, <1>6
        <3>2. Sent' <= Len(stream')
            <4>1. Len(stream') = Len(stream) + n
                BY ONLY <1>8
            <4>2. QED BY ONLY <1>3, <1>10, <1>32, <4>1
        <3>3. QED BY ONLY <1>3, <1>32, <3>1, <3>2
    <2>4. ASSUME NEW k \in 1..Len(left) PROVE left[k] = Line(calls)[Sent' + k]
        <3>1. n + k \in 1..Len(text) /\ Sent + (n + k) = Sent' + k
            <4>1. Len(left) = Len(text) - n
                BY ONLY <1>4
            <4>2. QED BY ONLY <1>3, <1>10, <1>32, <4>1
        <3>2. left[k] = text[n + k]
            BY ONLY <1>4
        <3>21. k \in 1..(Len(text) - n)
            BY ONLY <1>4
        <3>3. QED BY ONLY <1>31, <1>4, <3>1, <3>21
    <2>5. ASSUME NEW k \in 1..Sent' PROVE stream'[Start + k] = Line(calls)[k]
        <3>1. CASE k <= Sent
            <4>1. k \in 1..Sent /\ Start + k \in 1..Len(stream)
                BY ONLY <1>3, <1>32, <1>10, <3>1
            <4>2. stream'[Start + k] = stream[Start + k]
                BY ONLY <1>8, <4>1
            <4>3. QED BY ONLY <1>31, <4>1, <4>2
        <3>2. CASE k > Sent
            <4>1. k - Sent \in 1..n /\ Len(stream) + (k - Sent) = Start + k /\ Sent + (k - Sent) = k
                BY ONLY <1>3, <1>32, <1>10, <3>2
            <4>2. stream'[Start + k] = put[k - Sent] /\ put[k - Sent] = text[k - Sent]
                BY ONLY <1>4, <1>8, <4>1
            <4>3. k - Sent \in 1..Len(text)
                BY ONLY <1>3, <4>1
            <4>4. text[k - Sent] = Line(calls)[Sent + (k - Sent)]
                BY ONLY <1>31, <4>3
            <4>5. QED BY ONLY <4>1, <4>2, <4>4
        <3>0. k \in Nat
            BY <1>32, <1>3, <1>10
        <3>4. k <= Sent \/ k > Sent
            BY ONLY <1>32, <3>0
        <3>3. QED BY <3>4, <3>1, <3>2
    <2>6. \A k \in 1..Len(rest'[lock'].text) : rest'[lock'].text[k] = Line(calls')[Sent' + k]
        BY ONLY <1>5, <2>3, <2>4
    <2>7. \A k \in 1..Sent' : stream'[Start' + k] = Line(calls')[k]
        BY ONLY <1>5, <1>10, <2>5
    <2>8. lock' # Nobody /\ Len(rest'[lock'].text) \in 1..(Pieces + 1) /\ Sent' <= Len(stream')
        BY ONLY <1>2, <1>5, <2>3
    <2>9. QED BY ONLY <2>1, <2>2, <2>6, <2>7, <2>8 DEF HolderInv
<1>12. MissingInv'
    <2>1. \A x \in reported : Has(stream, x) => Has(stream', x)
        BY ONLY <1>3, <1>4, <1>5, HasGrows
    <2>2. Missing' \subseteq Missing
        BY ONLY <1>5, <2>1 DEF Missing
    <2>3. Cardinality(Missing') \in Nat /\ Cardinality(Missing') <= Cardinality(Missing)
          /\ Cardinality(Missing) \in Nat
        <3>1. Missing \in SUBSET reported /\ calls \in Nat /\ reported \subseteq 1..calls
            BY ONLY <1>1 DEF Missing, SendTypes
        <3>2. QED BY ONLY <2>2, <3>1, MissingFacts
    <2>4. Torn' => Torn
        <3>1. Start <= Len(stream)
            BY ONLY <1>3, <1>32
        <3>2. Start > 0 => stream'[Start] = stream[Start]
            BY ONLY <1>8, <1>32, <3>1
        <3>3. QED BY ONLY <1>10, <3>2 DEF Torn
    <2>5. QED BY ONLY <1>1, <1>5, <2>3, <2>4 DEF MissingInv, SendTypes
<1>13. QED BY ONLY <1>9, <1>11, <1>12 DEF SendInv

\* send takes the rest of the line, and it is reported.
LEMMA SendWhole ==
    ASSUME SendInv, NEW t \in Writers, rest[t] # Nothing,
           stream' = stream \o rest[t].text,
           lock' = Nobody, rest' = [rest EXCEPT ![t] = Nothing],
           reported' = reported \cup {rest[t].no},
           UNCHANGED <<calls, broken>>
    PROVE  SendInv'
<1>1. SendTypes /\ HolderInv /\ MissingInv
    BY DEF SendInv
<1>2. lock = t /\ lock # Nobody
    BY <1>1, ParameterFacts DEF HolderInv
<1> DEFINE text == rest[t].text
<1>3. /\ text \in Seq(Byte) /\ Len(text) \in 1..(Pieces + 1)
      /\ Pieces \in Nat \ {0} /\ Sent = Pieces + 1 - Len(text) /\ Sent <= Len(stream)
      /\ stream \in Seq(Byte) /\ Start = Len(stream) - Sent
      /\ calls \in 1..MaxSends /\ broken < calls /\ broken \in Nat /\ calls \notin reported
      /\ rest[t].no = calls /\ reported \subseteq 1..calls
    <2>1. text \in Seq(Byte) /\ stream \in Seq(Byte) /\ broken \in Nat /\ calls \in 0..MaxSends
          /\ reported \subseteq 1..calls
        BY <1>1 DEF SendTypes
    <2>2. Len(text) \in 1..(Pieces + 1) /\ Sent <= Len(stream) /\ broken < calls
          /\ rest[t].no = calls /\ calls \notin reported
        BY <1>1, <1>2 DEF HolderInv
    <2>3. Sent = Pieces + 1 - Len(text)
        BY <1>2 DEF Sent
    <2>4. calls \in 1..MaxSends
        BY ONLY <2>1, <2>2
    <2>5. QED BY <2>1, <2>2, <2>3, <2>4, ParameterFacts DEF Start
<1>4. /\ \A k \in 1..Len(text) : text[k] = Line(calls)[Sent + k]
      /\ \A k \in 1..Sent : stream[Start + k] = Line(calls)[k]
    BY <1>1, <1>2 DEF HolderInv
<1>5. /\ stream' = stream \o text /\ lock' = Nobody /\ reported' = reported \cup {calls}
      /\ calls' = calls /\ broken' = broken
    BY <1>3
<1>6. /\ rest' \in [Writers -> [no : 0..MaxSends, text : Seq(Byte)]]
      /\ \A u \in Writers : rest'[u] = Nothing
    <2>1. Nothing \in [no : 0..MaxSends, text : Seq(Byte)]
        BY ParameterFacts DEF Nothing
    <2>2. \A u \in Writers : u # t => rest[u] = Nothing
        BY <1>1, <1>2 DEF HolderInv
    <2>3. QED BY <1>1, <2>1, <2>2 DEF SendTypes
<1> HIDE DEF text
<1>7. /\ Len(text) \in Nat /\ Len(stream) \in Nat /\ Sent \in Nat /\ Start \in Nat
    BY ONLY <1>3
<1>8. /\ stream' \in Seq(Byte) /\ Len(stream') = Len(stream) + Len(text)
      /\ \A i \in 1..Len(stream) : stream'[i] = stream[i]
      /\ \A k \in 1..Len(text) : stream'[Len(stream) + k] = text[k]
    BY ONLY <1>3, <1>5, Joined
<1>9. SendTypes'
    <2>1. reported' \subseteq 1..calls'
        BY ONLY <1>3, <1>5
    <2>2. QED BY <1>1, <1>5, <1>6, <1>8, <2>1 DEF SendTypes
<1>10. Sent' = 0 /\ Start' = Len(stream')
    <2>1. Sent' = 0
        BY <1>5 DEF Sent
    <2>2. Start' = Len(stream') - Sent'
        BY DEF Start
    <2>3. Len(stream') \in Nat
        BY ONLY <1>7, <1>8
    <2>4. QED BY ONLY <2>1, <2>2, <2>3
<1>11. HolderInv'
    BY <1>3, <1>5, <1>6 DEF HolderInv
<1>12. ASSUME NEW k \in 1..(Pieces + 1) PROVE stream'[Start + k] = Line(calls)[k]
    <2>0. k \in Nat /\ k >= 1 /\ k <= Pieces + 1
        BY <1>3
    <2>1. CASE k <= Sent
        <3>1. k \in 1..Sent /\ Start + k \in 1..Len(stream)
            BY ONLY <1>3, <1>7, <2>0, <2>1
        <3>2. QED BY ONLY <1>4, <1>8, <3>1
    <2>2. CASE k > Sent
        <3>1. k - Sent \in 1..Len(text) /\ Len(stream) + (k - Sent) = Start + k /\ Sent + (k - Sent) = k
            BY ONLY <1>3, <1>7, <2>0, <2>2
        <3>2. stream'[Start + k] = text[k - Sent]
            BY ONLY <1>8, <3>1
        <3>3. text[k - Sent] = Line(calls)[Sent + (k - Sent)]
            BY ONLY <1>4, <3>1
        <3>4. QED BY ONLY <3>1, <3>2, <3>3
    <2>3. QED BY ONLY <1>7, <2>0, <2>1, <2>2
<1>13. Start + (Pieces + 1) = Len(stream')
    BY ONLY <1>3, <1>7, <1>8
<1>14. /\ \A k \in 1..Pieces : stream'[Start + k] = <<calls, k>>
       /\ stream'[Len(stream')] = Newline
    <2>1. calls \in 1..(MaxSends + MaxLines)
        BY <1>3, ParameterFacts
    <2>2. \A k \in 1..Pieces : k \in 1..(Pieces + 1) /\ Line(calls)[k] = <<calls, k>>
        BY <1>3, <2>1, ByteFacts
    <2>3. Pieces + 1 \in 1..(Pieces + 1) /\ Line(calls)[Pieces + 1] = Newline
        BY <1>3, <2>1, ByteFacts
    <2>4. \A k \in 1..Pieces : stream'[Start + k] = <<calls, k>>
        BY ONLY <1>12, <2>2
    <2>5. stream'[Len(stream')] = Newline
        BY ONLY <1>12, <1>13, <2>3
    <2>6. QED BY <2>4, <2>5
<1>15. ~Torn'
    BY <1>10, <1>14 DEF Torn
<1>16. ~Torn => Has(stream', calls)
    <2>1. SUFFICES ASSUME ~Torn PROVE Has(stream', calls)
        OBVIOUS
    <2>2. Start = 0 \/ stream'[Start] = Newline
        <3>1. Start <= Len(stream)
            BY ONLY <1>3, <1>7
        <3>2. Start > 0 => stream'[Start] = stream[Start]
            BY ONLY <1>7, <1>8, <3>1
        <3>3. Start > 0 => stream[Start] = Newline
            BY <2>1 DEF Torn
        <3>4. QED BY ONLY <1>7, <3>2, <3>3
    <2>3. Start \in 0..Len(stream') /\ Start + Pieces + 1 = Len(stream')
        <3>1. Start \in Nat /\ Pieces \in Nat
            BY ONLY <1>3, <1>7
        <3> DEFINE l == Len(stream')
        <3>2. Start + (Pieces + 1) = l
            BY ONLY <1>13
        <3> HIDE DEF l
        <3>3. Start \in 0..l /\ Start + Pieces + 1 = l
            BY ONLY <3>1, <3>2
        <3>4. QED BY ONLY <3>3 DEF l
    <2>4. Start + Pieces + 1 <= Len(stream')
        BY ONLY <1>3, <1>7, <2>3
    <2>5. \A k \in 1..Pieces : stream'[Start + k] = <<calls, k>>
        BY ONLY <1>14
    <2>6. stream'[Start + Pieces + 1] = Newline
        BY ONLY <1>14, <2>3
    <2>7. QED BY ONLY <2>2, <2>3, <2>4, <2>5, <2>6, Zenon DEF Has
<1>17. MissingInv'
    <2>1. \A x \in reported : Has(stream, x) => Has(stream', x)
        BY <1>3, <1>5, HasGrows
    <2>2. Missing' \subseteq Missing \cup {calls} /\ (~Torn => Missing' \subseteq Missing)
        BY <1>5, <1>16, <2>1 DEF Missing
    <2>3. Missing \in SUBSET reported /\ calls \in Nat /\ reported \subseteq 1..calls
        BY <1>3 DEF Missing
    <2>4. /\ Cardinality(Missing') \in Nat /\ Cardinality(Missing) \in Nat
          /\ Cardinality(Missing') <= Cardinality(Missing) + 1
        BY ONLY <2>2, <2>3, MissingFacts
    <2>5. ~Torn => Cardinality(Missing') <= Cardinality(Missing)
        BY ONLY <2>2, <2>3, MissingFacts
    <2>6. Cardinality(Missing') <= broken
        <3>1. CASE Torn
            <4>1. Cardinality(Missing) + 1 <= broken
                BY <1>1, <3>1 DEF MissingInv
            <4>2. QED BY ONLY <1>3, <2>4, <4>1
        <3>2. CASE ~Torn
            <4>1. Cardinality(Missing) <= broken
                BY <1>1 DEF MissingInv
            <4>2. QED BY ONLY <1>3, <2>4, <2>5, <3>2, <4>1
        <3>3. QED BY <3>1, <3>2
    <2>7. QED BY ONLY <1>5, <1>15, <2>6 DEF MissingInv
<1>18. QED BY <1>9, <1>11, <1>17 DEF SendInv

LEMMA SendStep ==
    ASSUME SendInv, NEW t \in Writers, Send(t)
    PROVE  SendInv'
<1>1. /\ rest[t] # Nothing /\ UNCHANGED <<calls, broken>>
      /\ rest[t].text \in Seq(Byte) /\ Len(rest[t].text) \in Nat
    BY DEF Send, SendInv, SendTypes
<1>2. PICK n \in 1..Len(rest[t].text) :
          /\ stream' = stream \o SubSeq(rest[t].text, 1, n)
          /\ IF n < Len(rest[t].text)
             THEN /\ rest' = [rest EXCEPT ![t].text = SubSeq(rest[t].text, n + 1, Len(rest[t].text))]
                  /\ UNCHANGED <<pc, lock, reported>>
             ELSE EndSend(t) /\ reported' = reported \cup {rest[t].no}
    BY DEF Send
<1>3. CASE n < Len(rest[t].text)
    <2>1. /\ stream' = stream \o SubSeq(rest[t].text, 1, n)
          /\ rest' = [rest EXCEPT ![t].text = SubSeq(rest[t].text, n + 1, Len(rest[t].text))]
          /\ UNCHANGED <<lock, reported, calls, broken>>
        BY <1>1, <1>2, <1>3
    <2>2. QED BY <1>1, <1>3, <2>1, SendPart
<1>4. CASE ~(n < Len(rest[t].text))
    <2>1. n = Len(rest[t].text)
        BY ONLY <1>1, <1>2, <1>4
    <2>2. SubSeq(rest[t].text, 1, n) = rest[t].text
        BY ONLY <1>1, <2>1, SubSeqFull
    <2>3. stream' = stream \o rest[t].text /\ lock' = Nobody
          /\ rest' = [rest EXCEPT ![t] = Nothing] /\ reported' = reported \cup {rest[t].no}
        BY <1>2, <1>4, <2>2 DEF EndSend
    <2>4. QED BY <1>1, <2>3, SendWhole
<1>5. QED BY <1>3, <1>4

\* The line breaks off, and its beginning stays on the connection.
LEMMA SendFailsStep ==
    ASSUME SendInv, NEW t \in Writers, SendFails(t)
    PROVE  SendInv'
<1>1. SendTypes /\ HolderInv /\ MissingInv
    BY DEF SendInv
<1>2. /\ rest[t] # Nothing /\ lock' = Nobody /\ rest' = [rest EXCEPT ![t] = Nothing]
      /\ broken' = IF Len(rest[t].text) <= Pieces THEN broken + 1 ELSE broken
      /\ stream' = stream /\ calls' = calls /\ reported' = reported
    BY DEF SendFails, EndSend
<1>3. lock = t /\ lock # Nobody
    BY <1>1, <1>2, ParameterFacts DEF HolderInv
<1>4. /\ Len(rest[t].text) \in 1..(Pieces + 1) /\ Pieces \in Nat /\ Sent = Pieces + 1 - Len(rest[t].text)
      /\ Start = Len(stream) - Sent /\ Len(stream) \in Nat /\ broken \in Nat /\ broken < calls
      /\ calls \in Nat
    BY <1>1, <1>3, ParameterFacts DEF HolderInv, SendTypes, Sent, Start
<1>5. /\ rest' \in [Writers -> [no : 0..MaxSends, text : Seq(Byte)]]
      /\ \A u \in Writers : rest'[u] = Nothing
    <2>1. Nothing \in [no : 0..MaxSends, text : Seq(Byte)]
        BY ParameterFacts DEF Nothing
    <2>2. \A u \in Writers : u # t => rest[u] = Nothing
        BY <1>1, <1>3 DEF HolderInv
    <2>3. QED BY <1>1, <1>2, <2>1, <2>2 DEF SendTypes
<1>6. broken' \in Nat /\ broken' <= calls
    BY ONLY <1>2, <1>4
<1>7. SendTypes'
    BY <1>1, <1>2, <1>5, <1>6 DEF SendTypes
<1>8. HolderInv'
    BY <1>2, <1>5, <1>6 DEF HolderInv
<1>9. Sent' = 0 /\ Start' = Len(stream)
    BY <1>2, <1>4 DEF Sent, Start
<1>10. Missing' = Missing
    BY <1>2 DEF Missing
<1>11. Cardinality(Missing) \in Nat
    <2>1. Missing \in SUBSET reported /\ reported \subseteq 1..calls
        BY <1>1 DEF Missing, SendTypes
    <2>2. QED BY ONLY <1>4, <2>1, MissingFacts
<1>12. MissingInv'
    <2>1. CASE Len(rest[t].text) <= Pieces
        <3>1. Cardinality(Missing) <= broken /\ broken' = broken + 1
            BY <1>1, <1>2, <2>1 DEF MissingInv
        <3>2. Cardinality(Missing) <= broken' /\ Cardinality(Missing) + 1 <= broken'
            BY ONLY <1>4, <1>11, <3>1
        <3>3. QED BY ONLY <1>10, <3>2 DEF MissingInv
    <2>2. CASE ~(Len(rest[t].text) <= Pieces)
        <3>1. Sent = 0 /\ broken' = broken /\ Start' = Start
            BY ONLY <1>2, <1>4, <1>9, <2>2
        <3>2. Torn' = Torn
            BY <1>2, <3>1 DEF Torn
        <3>3. QED BY <1>1, <1>10, <3>1, <3>2 DEF MissingInv
    <2>3. QED BY <2>1, <2>2
<1>13. QED BY <1>7, <1>8, <1>12 DEF SendInv

LEMMA SendUnchanged ==
    ASSUME SendInv, UNCHANGED sendVars
    PROVE  SendInv'
BY DEF SendInv, SendTypes, HolderInv, MissingInv, Missing, Torn, Start, Sent, sendVars

LEMMA ReconnectSendStep ==
    ASSUME SendInv, Reconnect
    PROVE  SendInv'
<1>1. /\ lock = Nobody /\ lock' = Nobody /\ rest' = rest
      /\ stream' = <<>> /\ calls' = 0 /\ reported' = {} /\ broken' = 0
    BY DEF Reconnect
<1>2. SendTypes'
    BY <1>1, ParameterFacts DEF SendInv, SendTypes
<1>3. HolderInv'
    BY <1>1 DEF SendInv, HolderInv
<1>4. Missing' = {} /\ ~Torn'
    BY <1>1 DEF Missing, Torn, Start, Sent
<1>5. MissingInv'
    BY <1>1, <1>4, FS_EmptySet DEF MissingInv
<1>6. QED BY <1>2, <1>3, <1>5 DEF SendInv

LEMMA NextSendInv ==
    ASSUME SendInv, [Next]_vars
    PROVE  SendInv'
<1>1. ASSUME NEW t \in Writers, BeginSend(t) PROVE SendInv'
    BY <1>1, BeginSendStep
<1>2. ASSUME NEW t \in Writers, Send(t) PROVE SendInv'
    BY <1>2, SendStep
<1>3. ASSUME NEW t \in Writers, SendFails(t) PROVE SendInv'
    BY <1>3, SendFailsStep
<1>4. CASE Reconnect
    BY <1>4, ReconnectSendStep
<1>5. CASE BeginReceive \/ Recv \/ RecvFails \/ Cut \/ PoolWrites \/ PoolWritesBlank \/ UNCHANGED vars
    <2>1. UNCHANGED sendVars
        BY <1>5 DEF BeginReceive, Recv, RecvFails, Cut, PoolWrites, PoolWritesBlank, vars
    <2>2. QED BY <2>1, SendUnchanged
<1>6. QED BY <1>1, <1>2, <1>3, <1>4, <1>5 DEF Next

-----------------------------------------------------------------------------
(* The reading half: types, and the room in the buffer.                    *)

ReadTypes ==
    /\ pc \in {"idle", "recv", "cut", "send", "close"}
    /\ wire \in Seq(Byte)
    /\ sockbuf \in Seq(Byte)
    /\ size \in Nat /\ (size % RBufSize) = 0
    /\ lines \in 0..MaxLines
    /\ blanks \in 0..MaxBlanks
    /\ stalled \in BOOLEAN
    /\ returned \in Seq(Seq(Byte))
BufferInv == ReadTypes /\ MoveStaysInside

LEMMA InitBufferInv ==
    Init => BufferInv
<1> SUFFICES ASSUME Init PROVE BufferInv
    OBVIOUS
<1>1. RBufSize \in Nat \ {0} /\ RBufSize > 1
    BY ParameterFacts
<1>2. (RBufSize % RBufSize) = 0
    BY <1>1
<1>3. ReadTypes
    <2>1. <<>> \in Seq(Byte) /\ <<>> \in Seq(Seq(Byte))
        OBVIOUS
    <2>2. MaxLines \in Nat /\ MaxBlanks \in Nat /\ 0 \in 0..MaxLines /\ 0 \in 0..MaxBlanks
        BY ParameterFacts
    <2>3. QED BY <1>1, <1>2, <2>1, <2>2 DEF Init, ReadTypes
<1>4. MoveStaysInside
    BY <1>1 DEF Init, MoveStaysInside
<1>5. QED BY <1>3, <1>4 DEF BufferInv

\* stratum_buffer_append keeps more room than it needs.
LEMMA AppendsStep ==
    ASSUME BufferInv, NEW text \in Seq(Byte), Appends(text)
    PROVE  /\ sockbuf' = sockbuf \o text /\ sockbuf' \in Seq(Byte)
           /\ size' \in Nat /\ (size' % RBufSize) = 0
           /\ MoveStaysInside'
<1> DEFINE snew == Len(sockbuf) + Len(text) + 1
<1>1. /\ sockbuf \in Seq(Byte) /\ size \in Nat /\ (size % RBufSize) = 0
      /\ RBufSize \in Nat \ {0} /\ Len(sockbuf) \in Nat /\ Len(text) \in Nat
    BY ParameterFacts DEF BufferInv, ReadTypes
<1>2. /\ sockbuf' = sockbuf \o text
      /\ size' = IF snew >= size THEN snew + (RBufSize - (snew % RBufSize)) ELSE size
    BY DEF Appends
<1>3. sockbuf' \in Seq(Byte) /\ Len(sockbuf') + 1 = snew /\ snew \in Nat
    <2>1. Len(sockbuf \o text) = Len(sockbuf) + Len(text) /\ sockbuf \o text \in Seq(Byte)
        BY ONLY <1>1, Joined
    <2>2. QED BY ONLY <1>1, <1>2, <2>1
<1> HIDE DEF snew
<1>4. CASE snew >= size
    <2>1. size' \in Nat /\ size' > snew /\ (size' % RBufSize) = 0
        <3>1. size' = snew + (RBufSize - (snew % RBufSize))
            BY ONLY <1>2, <1>4
        <3>2. /\ snew + (RBufSize - (snew % RBufSize)) \in Nat
              /\ snew + (RBufSize - (snew % RBufSize)) > snew
              /\ ((snew + (RBufSize - (snew % RBufSize))) % RBufSize) = 0
            BY ONLY <1>1, <1>3, NextMultiple
        <3>3. QED BY ONLY <3>1, <3>2
    <2>2. Len(sockbuf') \in Nat
        BY ONLY <1>3
    <2>3. Len(sockbuf') + 2 <= size'
        BY ONLY <1>3, <2>1, <2>2
    <2>4. QED BY <1>2, <1>3, <2>1, <2>3 DEF MoveStaysInside
<1>5. CASE ~(snew >= size)
    <2>1. size' = size
        BY ONLY <1>2, <1>5
    <2>2. Len(sockbuf') \in Nat
        BY ONLY <1>3
    <2>3. Len(sockbuf') + 2 <= size'
        BY ONLY <1>1, <1>3, <1>5, <2>1, <2>2
    <2>4. QED BY <1>1, <1>2, <1>3, <2>1, <2>3 DEF MoveStaysInside
<1>6. QED BY <1>4, <1>5

\* What recv takes is moved from the wire to the buffer.
LEMMA RecvMoves ==
    ASSUME BufferInv, Recv
    PROVE  /\ sockbuf' \in Seq(Byte) /\ wire' \in Seq(Byte)
           /\ sockbuf' \o wire' = sockbuf \o wire
           /\ size' \in Nat /\ (size' % RBufSize) = 0
           /\ MoveStaysInside'
<1>1. sockbuf \in Seq(Byte) /\ wire \in Seq(Byte) /\ Len(wire) \in Nat /\ wire # <<>> /\ Chunk \in Nat \ {0}
    BY ParameterFacts DEF BufferInv, ReadTypes, Recv
<1>2. PICK n \in 1..Min({Chunk, Len(wire)}) :
          /\ Appends(SubSeq(wire, 1, n))
          /\ wire' = SubSeq(wire, n + 1, Len(wire))
    BY DEF Recv
<1>3. n \in 0..Len(wire)
    <2>1. Min({Chunk, Len(wire)}) \in {Chunk, Len(wire)} /\ Min({Chunk, Len(wire)}) <= Len(wire)
        <3>1. \E x \in {Chunk, Len(wire)} : \A y \in {Chunk, Len(wire)} : x <= y
            <4>1. CASE Chunk <= Len(wire)
                BY <1>1, <4>1
            <4>2. CASE Len(wire) <= Chunk
                BY <1>1, <4>2
            <4>3. QED BY <1>1, <4>1, <4>2
        <3>2. QED BY <3>1 DEF Min
    <2>2. QED BY <1>1, <2>1
<1> DEFINE a == SubSeq(wire, 1, n)
           b == SubSeq(wire, n + 1, Len(wire))
<1>4. a \in Seq(Byte) /\ b \in Seq(Byte) /\ a \o b = wire
    BY ONLY <1>1, <1>3, TwoParts
<1> HIDE DEF a, b
<1>5. Appends(a) /\ wire' = b
    BY <1>2 DEF a, b
<1>6. /\ sockbuf' = sockbuf \o a /\ sockbuf' \in Seq(Byte)
      /\ size' \in Nat /\ (size' % RBufSize) = 0 /\ MoveStaysInside'
    BY <1>4, <1>5, AppendsStep
<1>7. (sockbuf \o a) \o b = sockbuf \o (a \o b)
    <2>1. sockbuf \in Seq(Byte) /\ a \in Seq(Byte) /\ b \in Seq(Byte)
        BY <1>1, <1>4
    <2>2. \A x, y, z \in Seq(Byte) : (x \o y) \o z = x \o (y \o z)
        BY ONLY ConcatAssociative
    <2>3. QED BY ONLY <2>1, <2>2
<1>8. QED BY <1>4, <1>5, <1>6, <1>7

LEMMA NextBufferInv ==
    ASSUME BufferInv, [Next]_vars
    PROVE  BufferInv'
<1>0. /\ ReadTypes /\ MoveStaysInside
      /\ MaxSends \in Nat /\ MaxLines \in Nat /\ MaxBlanks \in Nat
    BY ParameterFacts DEF BufferInv
<1>1. ASSUME NEW t \in Writers, BeginSend(t) \/ Send(t) \/ SendFails(t) PROVE BufferInv'
    <2>1. UNCHANGED <<readVars, poolVars>>
        BY <1>1 DEF BeginSend, Send, SendFails
    <2>2. pc' \in {pc, "idle", "send"}
        BY <1>1 DEF BeginSend, Send, SendFails, EndSend
    <2>3. QED BY <1>0, <2>1, <2>2 DEF BufferInv, ReadTypes, MoveStaysInside, readVars, poolVars
<1>2. CASE BeginReceive \/ RecvFails \/ UNCHANGED vars
    <2>1. UNCHANGED <<readVars, poolVars>> /\ pc' \in {pc, "cut", "recv", "close"}
        BY <1>2 DEF BeginReceive, RecvFails, vars
    <2>2. QED BY <1>0, <2>1 DEF BufferInv, ReadTypes, MoveStaysInside, readVars, poolVars
<1>3. CASE Recv
    <2>1. /\ pc' \in {pc, "cut"} /\ stalled' \in {stalled, TRUE}
          /\ UNCHANGED <<returned, lines, blanks>>
        BY <1>3 DEF Recv
    <2>2. QED BY <1>0, <1>3, <2>1, RecvMoves DEF BufferInv, ReadTypes
<1>4. CASE Cut
    <2>1. UNCHANGED <<size, stalled, poolVars>> /\ pc' \in {"close", "idle"}
        BY <1>4 DEF Cut
    <2>2. \/ UNCHANGED <<sockbuf, returned>>
          \/ sockbuf' = Behind /\ returned' = Append(returned, Token)
        BY <1>4 DEF Cut
    <2>3. Token \in Seq(Byte) /\ Behind \in Seq(Byte) /\ Len(Behind) <= Len(sockbuf)
        BY <1>0, TokenFacts, BehindFacts DEF ReadTypes
    <2>4. sockbuf' \in Seq(Byte) /\ Len(sockbuf') <= Len(sockbuf) /\ returned' \in Seq(Seq(Byte))
        <3>1. sockbuf \in Seq(Byte) /\ returned \in Seq(Seq(Byte)) /\ Len(sockbuf) \in Nat
            BY <1>0 DEF ReadTypes
        <3>2. Append(returned, Token) \in Seq(Seq(Byte))
            BY ONLY <2>3, <3>1
        <3>3. CASE UNCHANGED <<sockbuf, returned>>
            BY <3>1, <3>3
        <3>4. CASE sockbuf' = Behind /\ returned' = Append(returned, Token)
            BY <2>3, <3>2, <3>4
        <3>5. QED BY <2>2, <3>3, <3>4
    <2>5. MoveStaysInside'
        <3>1. Len(sockbuf') \in Nat /\ Len(sockbuf) \in Nat /\ size \in Nat
            BY <1>0, <2>4 DEF ReadTypes
        <3>2. Len(sockbuf) + 2 <= size /\ size' = size
            BY <1>0, <2>1 DEF MoveStaysInside
        <3>3. Len(sockbuf') + 2 <= size'
            BY ONLY <2>4, <3>1, <3>2
        <3>4. QED BY <3>3 DEF MoveStaysInside
    <2>6. QED BY <1>0, <2>1, <2>4, <2>5 DEF BufferInv, ReadTypes, poolVars
<1>5. CASE Reconnect
    <2>1. /\ pc' = "idle" /\ wire' = <<>> /\ lines' = 0 /\ blanks' = 0 /\ sockbuf' = <<>>
          /\ stalled' = FALSE /\ returned' = <<>> /\ size' = size
        BY <1>5 DEF Reconnect
    <2>2. Len(sockbuf) \in Nat /\ Len(sockbuf) + 2 <= size /\ size \in Nat
        BY <1>0 DEF ReadTypes, MoveStaysInside
    <2>3. 0 + 2 <= size'
        BY ONLY <2>1, <2>2
    <2>4. MoveStaysInside'
        BY <2>1, <2>3 DEF MoveStaysInside
    <2>5. <<>> \in Seq(Byte) /\ <<>> \in Seq(Seq(Byte)) /\ 0 \in 0..MaxLines /\ 0 \in 0..MaxBlanks
        BY <1>0
    <2>6. QED BY <1>0, <2>1, <2>4, <2>5 DEF BufferInv, ReadTypes
<1>6. CASE PoolWrites
    <2>1. /\ lines < MaxLines /\ lines' = lines + 1 /\ wire' = wire \o Line(MaxSends + lines + 1)
          /\ UNCHANGED <<pc, readVars, blanks>>
        BY <1>6 DEF PoolWrites
    <2>2. lines \in Nat /\ MaxSends + lines + 1 \in 1..(MaxSends + MaxLines)
        BY <1>0, <2>1 DEF ReadTypes
    <2>3. Line(MaxSends + lines + 1) \in Seq(Byte)
        BY <2>2, ByteFacts
    <2>4. wire' \in Seq(Byte) /\ lines' \in 0..MaxLines
        BY <1>0, <2>1, <2>3 DEF ReadTypes
    <2>5. QED BY <1>0, <2>1, <2>4 DEF BufferInv, ReadTypes, MoveStaysInside, readVars
<1>7. CASE PoolWritesBlank
    <2>1. /\ blanks < MaxBlanks /\ blanks' = blanks + 1 /\ wire' = Append(wire, Newline)
          /\ UNCHANGED <<pc, readVars, lines>>
        BY <1>7 DEF PoolWritesBlank
    <2>2. wire' \in Seq(Byte) /\ blanks' \in 0..MaxBlanks
        BY <1>0, <2>1, ByteFacts DEF ReadTypes
    <2>3. QED BY <1>0, <2>1, <2>2 DEF BufferInv, ReadTypes, MoveStaysInside, readVars
<1>8. QED BY <1>1, <1>2, <1>3, <1>4, <1>5, <1>6, <1>7 DEF Next

-----------------------------------------------------------------------------
(* The line buffer and both halves of the connection keep their types, for *)
(* every way in which send and recv cut the lines.                         *)
THEOREM TypeCorrect == Spec => []TypeOK
<1>1. Init => SendInv /\ BufferInv
    BY InitSendInv, InitBufferInv
<1>2. (SendInv /\ BufferInv) /\ [Next]_vars => (SendInv /\ BufferInv)'
    BY NextSendInv, NextBufferInv
<1>3. SendInv /\ BufferInv => TypeOK
    <2> SUFFICES ASSUME SendInv, BufferInv PROVE TypeOK
        OBVIOUS
    <2>1. broken \in 0..calls
        BY DEF SendInv, SendTypes, HolderInv
    <2>2. QED BY <2>1 DEF SendInv, SendTypes, BufferInv, ReadTypes, TypeOK
<1>4. QED BY <1>1, <1>2, <1>3, PTL DEF Spec

\* stratum_recv_line: the memmove that takes a line out of the buffer, which moves a
\* byte more than the string has, never leaves the buffer, whatever lines came before.
THEOREM BufferSuffices == Spec => []MoveStaysInside
<1>1. Init => BufferInv
    BY InitBufferInv
<1>2. BufferInv /\ [Next]_vars => BufferInv'
    BY NextBufferInv
<1>3. BufferInv => MoveStaysInside
    BY DEF BufferInv
<1>4. QED BY <1>1, <1>2, <1>3, PTL DEF Spec

\* send_line: a line for which true was returned is among those the pool reads, but
\* for at most one after every line that broke off.
THEOREM LinesArrive == Spec => []SentLinesArrive
<1>1. Init => SendInv
    BY InitSendInv
<1>2. SendInv /\ [Next]_vars => SendInv'
    BY NextSendInv
<1>3. SendInv => SentLinesArrive
    <2> SUFFICES ASSUME SendInv PROVE SentLinesArrive
        OBVIOUS
    <2> DEFINE L == {n \in reported : Text(n) \notin Split(stream)}
    <2>1. stream \in Seq(Byte) /\ calls \in Nat /\ reported \subseteq 1..calls /\ broken \in Nat
        BY ParameterFacts DEF SendInv, SendTypes
    <2>2. L \subseteq Missing
        <3>1. ASSUME NEW n \in reported, Has(stream, n) PROVE Text(n) \in Split(stream)
            <4>1. n \in Nat
                BY <2>1
            <4>2. QED BY <2>1, <3>1, <4>1, HasIsSplit
        <3>2. QED BY <3>1 DEF Missing
    <2>3. Missing \in SUBSET reported
        BY DEF Missing
    <2> HIDE DEF L
    <2>4. Cardinality(L) \in Nat /\ Cardinality(Missing) \in Nat /\ Cardinality(L) <= Cardinality(Missing)
        BY ONLY <2>1, <2>2, <2>3, MissingFacts
    <2>5. Cardinality(Missing) <= broken
        BY DEF SendInv, MissingInv
    <2>6. Cardinality(L) <= broken
        BY ONLY <2>1, <2>4, <2>5
    <2>7. QED BY <2>6 DEF SentLinesArrive, L
<1>4. QED BY <1>1, <1>2, <1>3, PTL DEF Spec

-----------------------------------------------------------------------------
(* What the pool has written and the miner not returned is whole lines,    *)
(* each but the first right behind the end of the one before it; an empty  *)
(* line makes two ends that are neighbours.                                *)

Incoming == sockbuf \o wire
Taken == FlattenSeq(returned)

Twin(s, i) == i \in 1..(Len(s) - 1) /\ s[i] = Newline /\ s[i + 1] = Newline

\* With b empty lines, none or one.
Spaced(s, b) ==
    /\ s # <<>> => s[Len(s)] = Newline
    /\ \A i, j \in Nat : Twin(s, i) /\ Twin(s, j) => i = j
    /\ \A i \in Nat : Twin(s, i) => s[1] # Newline
    /\ b = 0 => (\A i \in Nat : ~Twin(s, i)) /\ (s # <<>> => s[1] # Newline)

Before(c, d) == c[1] < d[1] \/ (c[1] = d[1] /\ c[2] < d[2])

\* What was taken and what comes are the pieces of lines up to m, in order.
Ordered(t, s, m) ==
    /\ \A i \in 1..Len(t) : t[i] # Newline /\ t[i][1] <= m
    /\ \A i \in 1..Len(s) : s[i] # Newline => s[i][1] <= m
    /\ \A i, j \in 1..Len(t) : i < j => Before(t[i], t[j])
    /\ \A i \in 1..Len(t), j \in 1..Len(s) : s[j] # Newline => Before(t[i], s[j])
    /\ \A i, j \in 1..Len(s) : i < j /\ s[i] # Newline /\ s[j] # Newline => Before(s[i], s[j])

\* The end of s behind its first d bytes.
Ending(u, s, d) ==
    /\ Len(u) = Len(s) - d
    /\ \A i \in 1..(Len(s) - d) : u[i] = s[d + i]

LEMMA TwinOfEnding ==
    ASSUME NEW s \in Seq(Byte), NEW u \in Seq(Byte), NEW d \in 0..Len(s), Ending(u, s, d),
           NEW i \in Nat, Twin(u, i)
    PROVE  i >= 1 /\ Twin(s, d + i)
<1>1. Len(s) \in Nat /\ d \in Nat /\ Len(u) = Len(s) - d
    BY DEF Ending
<1>2. i \in 1..(Len(u) - 1) /\ u[i] = Newline /\ u[i + 1] = Newline
    BY DEF Twin
<1>3. i \in 1..(Len(s) - d) /\ i + 1 \in 1..(Len(s) - d) /\ d + i \in 1..(Len(s) - 1) /\ i >= 1
    BY ONLY <1>1, <1>2
<1>4. u[i] = s[d + i] /\ u[i + 1] = s[d + (i + 1)]
    BY <1>3 DEF Ending
<1>5. d + (i + 1) = (d + i) + 1
    BY ONLY <1>1, <1>3
<1>6. QED BY <1>2, <1>3, <1>4, <1>5 DEF Twin

LEMMA LastOfEnding ==
    ASSUME NEW s \in Seq(Byte), NEW u \in Seq(Byte), NEW d \in 0..Len(s), Ending(u, s, d),
           s # <<>> => s[Len(s)] = Newline
    PROVE  u # <<>> => u[Len(u)] = Newline
<1>1. SUFFICES ASSUME u # <<>> PROVE u[Len(u)] = Newline
    OBVIOUS
<1>2. Len(s) \in Nat /\ d \in Nat /\ Len(u) = Len(s) - d /\ Len(u) \in Nat /\ Len(u) # 0
    BY <1>1 DEF Ending
<1>3. Len(u) \in 1..(Len(s) - d) /\ d + Len(u) = Len(s) /\ Len(s) # 0
    BY ONLY <1>2
<1>4. u[Len(u)] = s[d + Len(u)]
    BY <1>3 DEF Ending
<1>5. s # <<>>
    BY <1>3
<1>6. QED BY <1>3, <1>4, <1>5

\* Lines are cut off where one ends.
LEMMA SpacedBehind ==
    ASSUME NEW s \in Seq(Byte), NEW u \in Seq(Byte), NEW d \in 1..Len(s), Ending(u, s, d),
           NEW b, Spaced(s, b), s[1] # Newline, s[d] = Newline
    PROVE  Spaced(u, b)
<1>1. /\ Len(s) \in Nat /\ d \in Nat /\ d >= 1 /\ d <= Len(s) /\ d \in 0..Len(s)
      /\ Len(u) = Len(s) - d /\ Len(u) \in Nat
    BY DEF Ending
<1>2. u # <<>> => u[Len(u)] = Newline
    BY <1>1, LastOfEnding DEF Spaced
<1>3. ASSUME NEW i \in Nat, Twin(u, i) PROVE i >= 1 /\ d + i \in Nat /\ Twin(s, d + i)
    BY <1>1, <1>3, TwinOfEnding
<1>4. ASSUME NEW i \in Nat, NEW j \in Nat, Twin(u, i), Twin(u, j) PROVE i = j
    <2>1. d + i = d + j
        BY <1>3, <1>4 DEF Spaced
    <2>2. QED BY ONLY <1>1, <2>1, i \in Nat, j \in Nat
<1>5. u # <<>> /\ u[1] = Newline => Twin(s, d)
    <2>1. SUFFICES ASSUME u # <<>>, u[1] = Newline PROVE Twin(s, d)
        OBVIOUS
    <2>2. Len(u) # 0
        BY <2>1
    <2>3. 1 \in 1..(Len(s) - d) /\ d \in 1..(Len(s) - 1)
        BY ONLY <1>1, <2>2
    <2>4. s[d + 1] = Newline
        BY <2>1, <2>3 DEF Ending
    <2>5. QED BY <2>3, <2>4 DEF Twin
<1>6. ASSUME NEW i \in Nat, Twin(u, i) PROVE u[1] # Newline
    <2>1. SUFFICES ASSUME u[1] = Newline PROVE FALSE
        OBVIOUS
    <2>2. u # <<>>
        BY <1>6 DEF Twin
    <2>3. Twin(s, d) /\ Twin(s, d + i) /\ d + i \in Nat /\ i >= 1
        BY <1>3, <1>5, <1>6, <2>1, <2>2
    <2>4. d = d + i
        BY <1>1, <2>3 DEF Spaced
    <2>5. QED BY ONLY <1>1, <2>3, <2>4, i \in Nat
<1>7. ASSUME b = 0 PROVE (\A i \in Nat : ~Twin(u, i)) /\ (u # <<>> => u[1] # Newline)
    <2>1. \A i \in Nat : ~Twin(s, i)
        BY <1>7 DEF Spaced
    <2>2. QED BY <1>1, <1>3, <1>5, <2>1
<1>8. QED BY <1>2, <1>4, <1>6, <1>7 DEF Spaced

\* The empty line comes first and goes, with more or less behind it.
LEMMA SpacedAfterBlank ==
    ASSUME NEW s \in Seq(Byte), NEW u \in Seq(Byte), NEW d \in 0..Len(s), Ending(u, s, d),
           NEW b, Spaced(s, b), s # <<>>, s[1] = Newline
    PROVE  Spaced(u, b)
<1>1. b # 0 /\ \A i \in Nat : ~Twin(s, i)
    BY DEF Spaced
<1>2. u # <<>> => u[Len(u)] = Newline
    BY LastOfEnding DEF Spaced
<1>3. ASSUME NEW i \in Nat, Twin(u, i) PROVE FALSE
    <2>1. Twin(s, d + i) /\ d + i \in Nat
        BY <1>3, TwinOfEnding
    <2>2. QED BY <1>1, <2>1
<1>4. QED BY <1>1, <1>2, <1>3 DEF Spaced

LEMMA SpacedWithLine ==
    ASSUME NEW s \in Seq(Byte), NEW b, Spaced(s, b), NEW n \in 1..(MaxSends + MaxLines)
    PROVE  Spaced(s \o Line(n), b)
<1> DEFINE t == Line(n)
           u == s \o t
<1>1. /\ t \in Seq(Byte) /\ Len(t) = Pieces + 1 /\ t[Pieces + 1] = Newline
      /\ \A k \in 1..Pieces : t[k] # Newline
      /\ Pieces \in Nat \ {0} /\ Len(s) \in Nat
    <2>1. n \in Nat
        BY ParameterFacts
    <2>2. /\ Line(n) \in Seq(Byte) /\ Len(Line(n)) = Pieces + 1 /\ Line(n)[Pieces + 1] = Newline
          /\ \A k \in 1..Pieces : Line(n)[k] = <<n, k>>
        BY ByteFacts
    <2>3. Pieces \in Nat \ {0} /\ \A k \in 1..Pieces : k \in Nat
        BY ParameterFacts
    <2>4. \A k \in 1..Pieces : <<n, k>> # Newline
        BY <2>1, <2>3, ByteFacts
    <2>5. Len(s) \in Nat
        OBVIOUS
    <2>6. QED BY <2>2, <2>3, <2>4, <2>5
<1> HIDE DEF t
<1>2. /\ u \in Seq(Byte) /\ Len(u) = Len(s) + Pieces + 1
      /\ \A i \in 1..Len(s) : u[i] = s[i]
      /\ \A k \in 1..(Pieces + 1) : u[Len(s) + k] = t[k]
    <2>1. /\ u \in Seq(Byte) /\ Len(u) = Len(s) + Len(t)
          /\ \A i \in 1..Len(s) : u[i] = s[i]
          /\ \A k \in 1..Len(t) : u[Len(s) + k] = t[k]
        <3>1. s \in Seq(Byte) /\ t \in Seq(Byte)
            BY <1>1
        <3>2. QED BY ONLY <3>1, Joined
    <2> HIDE DEF u
    <2>2. Len(u) = Len(s) + Pieces + 1
        BY ONLY <1>1, <2>1
    <2>3. QED BY <1>1, <2>1, <2>2
<1> HIDE DEF u
<1>3. u[Len(u)] = Newline
    <2>1. Len(u) = Len(s) + (Pieces + 1) /\ Pieces + 1 \in 1..(Pieces + 1)
        BY ONLY <1>1, <1>2
    <2>2. QED BY <1>1, <1>2, <2>1
<1>4. ASSUME NEW i \in Nat, Twin(u, i) PROVE Twin(s, i)
    <2>1. i \in 1..(Len(u) - 1) /\ u[i] = Newline /\ u[i + 1] = Newline
        BY <1>4 DEF Twin
    <2>2. i >= 1 /\ i <= Len(s) + Pieces
        BY ONLY <1>1, <1>2, <2>1
    <2>3. CASE i < Len(s)
        <3>1. i \in 1..(Len(s) - 1) /\ i \in 1..Len(s) /\ i + 1 \in 1..Len(s)
            BY ONLY <1>1, <2>2, <2>3, i \in Nat
        <3>2. QED BY <1>2, <2>1, <3>1 DEF Twin
    <2>4. CASE i >= Len(s)
        <3>0. CASE i = Len(s)
            <4>1. 1 \in 1..Pieces /\ 1 \in 1..(Pieces + 1) /\ i + 1 = Len(s) + 1
                BY ONLY <1>1, <3>0
            <4>2. QED BY <1>1, <1>2, <2>1, <4>1
        <3>1. CASE i > Len(s)
            <4>1. i - Len(s) \in 1..Pieces /\ i - Len(s) \in 1..(Pieces + 1) /\ i = Len(s) + (i - Len(s))
                BY ONLY <1>1, <2>2, <3>1, i \in Nat
            <4>2. u[i] = t[i - Len(s)]
                BY ONLY <1>2, <4>1
            <4>3. QED BY <1>1, <2>1, <4>1, <4>2
        <3>2. QED BY <1>1, <2>4, <3>0, <3>1
    <2>5. QED BY <1>1, <2>3, <2>4
<1>5. s = <<>> => u[1] # Newline
    <2>1. SUFFICES ASSUME s = <<>> PROVE u[1] # Newline
        OBVIOUS
    <2>2. Len(s) = 0 /\ 1 \in 1..Pieces /\ 1 \in 1..(Pieces + 1) /\ Len(s) + 1 = 1
        BY <1>1, <2>1
    <2>3. QED BY <1>1, <1>2, <2>2
<1>6. s # <<>> => u[1] = s[1]
    BY <1>1, <1>2
<1>7. \A i \in Nat : Twin(u, i) => u[1] # Newline
    BY <1>4, <1>5, <1>6 DEF Spaced
<1>8. Spaced(u, b)
    BY <1>3, <1>4, <1>5, <1>6, <1>7 DEF Spaced
<1>9. QED BY <1>8 DEF u, t

LEMMA SpacedWithBlank ==
    ASSUME NEW s \in Seq(Byte), Spaced(s, 0)
    PROVE  Spaced(Append(s, Newline), 1)
<1> DEFINE u == Append(s, Newline)
<1>1. /\ Len(s) \in Nat /\ Len(u) = Len(s) + 1 /\ u[Len(s) + 1] = Newline
      /\ \A i \in 1..Len(s) : u[i] = s[i]
      /\ u # <<>>
    OBVIOUS
<1> HIDE DEF u
<1>2. ASSUME NEW i \in Nat, Twin(u, i) PROVE i = Len(s) /\ s # <<>>
    <2>1. i \in 1..(Len(u) - 1) /\ u[i] = Newline /\ u[i + 1] = Newline
        BY <1>2 DEF Twin
    <2>2. i >= 1 /\ i <= Len(s)
        BY ONLY <1>1, <2>1
    <2>3. s # <<>>
        BY <1>1, <2>2
    <2>4. SUFFICES ASSUME i # Len(s) PROVE FALSE
        BY <2>3
    <2>5. i \in 1..(Len(s) - 1) /\ i \in 1..Len(s) /\ i + 1 \in 1..Len(s)
        BY ONLY <1>1, <2>2, <2>4, i \in Nat
    <2>6. Twin(s, i)
        BY <1>1, <2>1, <2>5 DEF Twin
    <2>7. QED BY <2>6 DEF Spaced
<1>3. s # <<>> => u[1] # Newline
    <2>1. SUFFICES ASSUME s # <<>> PROVE u[1] # Newline
        OBVIOUS
    <2>2. 1 \in 1..Len(s)
        BY <1>1, <2>1
    <2>3. QED BY <1>1, <2>1, <2>2 DEF Spaced
<1>4. u[Len(u)] = Newline
    BY <1>1
<1>5. Spaced(u, 1)
    BY <1>2, <1>3, <1>4 DEF Spaced
<1>6. QED BY <1>5 DEF u

\* A piece of a line goes from what comes to what was taken.
LEMMA OrderedBehind ==
    ASSUME NEW t \in Seq(Byte), NEW k \in Seq(Byte), NEW s \in Seq(Byte), NEW u \in Seq(Byte),
           NEW m, Ordered(t, s, m), NEW l \in Nat, NEW d \in 0..Len(s),
           l + Len(k) <= d, Ending(u, s, d),
           \A i \in 1..Len(k) : k[i] = s[l + i] /\ k[i] # Newline
    PROVE  Ordered(t \o k, u, m)
<1> DEFINE w == t \o k
<1>1. /\ Len(s) \in Nat /\ d \in Nat /\ d <= Len(s) /\ Len(t) \in Nat /\ Len(k) \in Nat
      /\ Len(u) = Len(s) - d
    BY DEF Ending
<1>2. /\ w \in Seq(Byte) /\ Len(w) = Len(t) + Len(k)
      /\ \A i \in 1..Len(t) : w[i] = t[i]
      /\ \A i \in 1..Len(k) : w[Len(t) + i] = k[i]
    BY Joined
<1> HIDE DEF w
\* Each byte taken was taken before, or is one of s.
<1>3. ASSUME NEW i \in 1..Len(w), i > Len(t)
      PROVE  /\ l + (i - Len(t)) \in 1..Len(s) /\ l + (i - Len(t)) <= d
             /\ w[i] = s[l + (i - Len(t))] /\ w[i] # Newline
    <2>1. i \in Nat /\ i <= Len(t) + Len(k) /\ i - Len(t) \in 1..Len(k) /\ Len(t) + (i - Len(t)) = i
        BY <1>1, <1>2, <1>3
    <2>2. w[i] = k[i - Len(t)]
        BY <1>2, <2>1
    <2>3. l + (i - Len(t)) \in 1..Len(s) /\ l + (i - Len(t)) <= d
        <3> DEFINE e == i - Len(t)
        <3>1. e \in 1..Len(k)
            BY ONLY <2>1
        <3>2. l \in Nat /\ l + Len(k) <= d
            OBVIOUS
        <3> HIDE DEF e
        <3>3. l + e \in 1..Len(s) /\ l + e <= d
            BY ONLY <1>1, <3>1, <3>2
        <3>4. QED BY ONLY <3>3 DEF e
    <2>4. QED BY <2>1, <2>2, <2>3
<1>4. ASSUME NEW i \in 1..Len(w), ~(i > Len(t)) PROVE i \in 1..Len(t) /\ w[i] = t[i]
    <2>1. i \in 1..Len(t)
        BY <1>1, <1>2, <1>4
    <2>2. QED BY <1>2, <2>1
<1>5. ASSUME NEW j \in 1..Len(u) PROVE d + j \in 1..Len(s) /\ u[j] = s[d + j]
    <2>1. j \in 1..(Len(s) - d) /\ d + j \in 1..Len(s)
        BY <1>1
    <2>2. QED BY <2>1 DEF Ending
<1>6. ASSUME NEW i \in 1..Len(w) PROVE w[i] # Newline /\ w[i][1] <= m
    <2>1. CASE i > Len(t)
        BY <1>3, <2>1 DEF Ordered
    <2>2. CASE ~(i > Len(t))
        BY <1>4, <2>2 DEF Ordered
    <2>3. QED BY <2>1, <2>2
<1>7. \A j \in 1..Len(u) : u[j] # Newline => u[j][1] <= m
    BY <1>5 DEF Ordered
<1>8. ASSUME NEW i \in 1..Len(w), NEW j \in 1..Len(w), i < j PROVE Before(w[i], w[j])
    <2>0. i \in Nat /\ j \in Nat
        BY <1>1
    <2>1. CASE ~(j > Len(t))
        <3>1. ~(i > Len(t))
            BY ONLY <1>1, <1>8, <2>0, <2>1
        <3>2. i \in 1..Len(t) /\ j \in 1..Len(t) /\ w[i] = t[i] /\ w[j] = t[j]
            BY <1>4, <2>1, <3>1
        <3>3. QED BY <1>8, <3>2 DEF Ordered
    <2>2. CASE j > Len(t) /\ ~(i > Len(t))
        <3>1. i \in 1..Len(t) /\ w[i] = t[i]
            BY <1>4, <2>2
        <3>2. l + (j - Len(t)) \in 1..Len(s) /\ w[j] = s[l + (j - Len(t))] /\ w[j] # Newline
            BY <1>3, <2>2
        <3>3. QED BY <3>1, <3>2 DEF Ordered
    <2>3. CASE j > Len(t) /\ i > Len(t)
        <3>1. l + (i - Len(t)) \in 1..Len(s) /\ w[i] = s[l + (i - Len(t))] /\ w[i] # Newline
            BY <1>3, <2>3
        <3>2. l + (j - Len(t)) \in 1..Len(s) /\ w[j] = s[l + (j - Len(t))] /\ w[j] # Newline
            BY <1>3, <2>3
        <3>3. l + (i - Len(t)) < l + (j - Len(t))
            BY ONLY <1>1, <1>8, <2>0, l \in Nat
        <3>4. QED BY <3>1, <3>2, <3>3 DEF Ordered
    <2>4. QED BY <2>1, <2>2, <2>3
<1>9. ASSUME NEW i \in 1..Len(w), NEW j \in 1..Len(u), u[j] # Newline PROVE Before(w[i], u[j])
    <2>0. i \in Nat /\ j \in Nat /\ j >= 1
        BY <1>1
    <2>1. d + j \in 1..Len(s) /\ u[j] = s[d + j]
        BY <1>5
    <2>2. CASE ~(i > Len(t))
        <3>1. i \in 1..Len(t) /\ w[i] = t[i]
            BY <1>4, <2>2
        <3>2. QED BY <1>9, <2>1, <3>1 DEF Ordered
    <2>3. CASE i > Len(t)
        <3>1. /\ l + (i - Len(t)) \in 1..Len(s) /\ l + (i - Len(t)) <= d
              /\ w[i] = s[l + (i - Len(t))] /\ w[i] # Newline
            BY <1>3, <2>3
        <3>2. l + (i - Len(t)) < d + j
            BY ONLY <1>1, <2>0, <3>1, l \in Nat
        <3>3. QED BY <1>9, <2>1, <3>1, <3>2 DEF Ordered
    <2>4. QED BY <2>2, <2>3
<1>10. ASSUME NEW i \in 1..Len(u), NEW j \in 1..Len(u), i < j, u[i] # Newline, u[j] # Newline
       PROVE  Before(u[i], u[j])
    <2>1. d + i \in 1..Len(s) /\ u[i] = s[d + i] /\ d + j \in 1..Len(s) /\ u[j] = s[d + j]
        BY <1>5
    <2>2. d + i < d + j
        BY <1>1, <1>10
    <2>3. QED BY <1>10, <2>1, <2>2 DEF Ordered
<1>11. Ordered(w, u, m)
    BY <1>6, <1>7, <1>8, <1>9, <1>10 DEF Ordered
<1>12. QED BY <1>11 DEF w

\* The next line comes behind everything.
LEMMA OrderedWithLine ==
    ASSUME NEW t \in Seq(Byte), NEW s \in Seq(Byte), NEW n \in 1..(MaxSends + MaxLines),
           Ordered(t, s, n - 1)
    PROVE  Ordered(t, s \o Line(n), n)
<1> DEFINE x == Line(n)
           u == s \o x
<1>1. /\ x \in Seq(Byte) /\ Len(x) = Pieces + 1 /\ x[Pieces + 1] = Newline
      /\ \A k \in 1..Pieces : x[k] = <<n, k>>
      /\ Pieces \in Nat \ {0} /\ Len(s) \in Nat /\ n \in Nat /\ Len(t) \in Nat
    <2>1. n \in Nat /\ Len(s) \in Nat /\ Len(t) \in Nat /\ Pieces \in Nat \ {0}
        BY ParameterFacts
    <2>2. QED BY <2>1, ByteFacts
<1> HIDE DEF x
<1>2. /\ u \in Seq(Byte) /\ Len(u) = Len(s) + Pieces + 1
      /\ \A i \in 1..Len(s) : u[i] = s[i]
      /\ \A k \in 1..(Pieces + 1) : u[Len(s) + k] = x[k]
    <2>1. /\ u \in Seq(Byte) /\ Len(u) = Len(s) + Len(x)
          /\ \A i \in 1..Len(s) : u[i] = s[i]
          /\ \A k \in 1..Len(x) : u[Len(s) + k] = x[k]
        <3>1. s \in Seq(Byte) /\ x \in Seq(Byte)
            BY <1>1
        <3>2. QED BY ONLY <3>1, Joined
    <2> HIDE DEF u
    <2>2. Len(u) = Len(s) + Pieces + 1
        BY ONLY <1>1, <2>1
    <2>3. QED BY <1>1, <2>1, <2>2
<1> HIDE DEF u
<1>3. /\ \A i \in 1..Len(t) : t[i] \in Byte /\ t[i] # Newline /\ t[i][1] <= n - 1
      /\ \A i \in 1..Len(s) : s[i] \in Byte /\ (s[i] # Newline => s[i][1] <= n - 1)
    BY DEF Ordered
<1>4. \A c \in Byte : c # Newline => c[1] \in Nat /\ c[2] \in Nat
    <2>1. MaxSends + MaxLines \in Nat /\ Pieces \in Nat
        BY ParameterFacts
    <2>2. \A c \in Byte : c # Newline => c \in Nat \X Nat
        BY <2>1, ByteFacts
    <2>3. QED BY <2>2
<1>5. ASSUME NEW c \in Byte, c # Newline, c[1] <= n - 1
      PROVE  c[1] <= n /\ \A k \in 1..Pieces : Before(c, <<n, k>>)
    <2>1. c[1] \in Nat
        BY <1>4, <1>5
    <2>2. c[1] < n /\ c[1] <= n
        BY ONLY <1>1, <1>5, <2>1
    <2>3. \A k \in 1..Pieces : <<n, k>>[1] = n
        OBVIOUS
    <2>4. QED BY <2>2, <2>3 DEF Before
\* A byte of u that is no newline is one of s or a piece of the line.
<1>6. ASSUME NEW i \in 1..Len(u), u[i] # Newline
      PROVE  \/ i \in 1..Len(s) /\ u[i] = s[i]
             \/ i > Len(s) /\ i - Len(s) \in 1..Pieces /\ u[i] = <<n, i - Len(s)>>
    <2>0. i \in Nat /\ i >= 1 /\ i <= Len(s) + Pieces + 1
        BY <1>1, <1>2
    <2>1. CASE i <= Len(s)
        <3>1. i \in 1..Len(s)
            BY ONLY <1>1, <2>0, <2>1
        <3>2. QED BY <1>2, <3>1
    <2>2. CASE i > Len(s)
        <3>1. i - Len(s) \in 1..(Pieces + 1) /\ i = Len(s) + (i - Len(s))
            BY ONLY <1>1, <2>0, <2>2
        <3>2. u[i] = x[i - Len(s)]
            BY ONLY <1>2, <3>1
        <3>3. i - Len(s) # Pieces + 1
            BY <1>1, <1>6, <3>2
        <3>4. i - Len(s) \in 1..Pieces
            <4>1. Pieces \in Nat
                BY <1>1
            <4>2. QED BY ONLY <4>1, <3>1, <3>3
        <3>5. QED BY <1>1, <2>2, <3>2, <3>4
    <2>3. QED BY <1>1, <2>0, <2>1, <2>2
<1>7. \A i \in 1..Len(t) : t[i] # Newline /\ t[i][1] <= n
    BY <1>3, <1>5
<1>8. ASSUME NEW i \in 1..Len(u), u[i] # Newline PROVE u[i][1] <= n
    <2>1. CASE i \in 1..Len(s) /\ u[i] = s[i]
        BY <1>3, <1>5, <1>8, <2>1
    <2>2. CASE u[i] = <<n, i - Len(s)>>
        BY <1>1, <2>2
    <2>3. QED BY <1>6, <1>8, <2>1, <2>2
<1>9. ASSUME NEW i \in 1..Len(t), NEW j \in 1..Len(u), u[j] # Newline PROVE Before(t[i], u[j])
    <2>1. CASE j \in 1..Len(s) /\ u[j] = s[j]
        BY <1>9, <2>1 DEF Ordered
    <2>2. CASE j - Len(s) \in 1..Pieces /\ u[j] = <<n, j - Len(s)>>
        <3>1. Before(t[i], <<n, j - Len(s)>>)
            BY <1>3, <1>5, <2>2
        <3>2. QED BY <2>2, <3>1
    <2>3. QED BY <1>6, <1>9, <2>1, <2>2
<1>10. ASSUME NEW i \in 1..Len(u), NEW j \in 1..Len(u), i < j, u[i] # Newline, u[j] # Newline
       PROVE  Before(u[i], u[j])
    <2>0. i \in Nat /\ j \in Nat
        BY <1>1, <1>2
    <2>1. CASE j \in 1..Len(s) /\ u[j] = s[j]
        <3>1. i \in 1..Len(s) /\ u[i] = s[i]
            <4>1. i \in 1..Len(s)
                BY <1>1, <1>10, <2>0, <2>1
            <4>2. QED BY <1>2, <4>1
        <3>2. QED BY <1>10, <2>1, <3>1 DEF Ordered
    <2>2. CASE j - Len(s) \in 1..Pieces /\ u[j] = <<n, j - Len(s)>>
        <3>1. CASE i \in 1..Len(s) /\ u[i] = s[i]
            <4>1. Before(s[i], <<n, j - Len(s)>>)
                BY <1>3, <1>5, <1>10, <2>2, <3>1
            <4>2. QED BY <2>2, <3>1, <4>1
        <3>2. CASE u[i] = <<n, i - Len(s)>>
            <4>1. i - Len(s) < j - Len(s)
                BY ONLY <1>1, <1>10, <2>0
            <4>2. u[i][1] = u[j][1] /\ u[i][2] < u[j][2]
                BY <2>2, <3>2, <4>1
            <4>3. QED BY <4>2 DEF Before
        <3>3. QED BY <1>6, <1>10, <3>1, <3>2
    <2>3. QED BY <1>6, <1>10, <2>1, <2>2
<1>11. Ordered(t, u, n)
    BY <1>7, <1>8, <1>9, <1>10, Ordered(t, s, n - 1) DEF Ordered
<1>12. QED BY <1>11 DEF u, x

LEMMA OrderedWithBlank ==
    ASSUME NEW t \in Seq(Byte), NEW s \in Seq(Byte), NEW m, Ordered(t, s, m)
    PROVE  Ordered(t, Append(s, Newline), m)
<1> DEFINE u == Append(s, Newline)
<1>1. ASSUME NEW i \in 1..Len(u), u[i] # Newline PROVE i \in 1..Len(s) /\ u[i] = s[i]
    <2>1. Len(s) \in Nat /\ Len(u) = Len(s) + 1 /\ u[Len(s) + 1] = Newline
          /\ \A j \in 1..Len(s) : u[j] = s[j]
        OBVIOUS
    <2> HIDE DEF u
    <2>2. i # Len(s) + 1
        BY <1>1, <2>1
    <2>3. i \in 1..Len(s)
        BY <2>1, <2>2
    <2>4. QED BY <2>1, <2>3
<1> HIDE DEF u
<1>2. Ordered(t, u, m)
    BY <1>1 DEF Ordered
<1>3. QED BY <1>2 DEF u

ReadKept ==
    /\ pc = "cut" => Whole(sockbuf)
    /\ Taken \in Seq(Byte)
    /\ Spaced(Incoming, blanks)
    /\ Ordered(Taken, Incoming, MaxSends + lines)
    /\ blanks = 0 => Got \in Seq(Byte) /\ Got \o Incoming = Written
ReadInv == ~stalled /\ blanks <= 1 => ReadKept

Fresh ==
    /\ sockbuf = <<>> /\ wire = <<>> /\ lines = 0 /\ blanks = 0 /\ returned = <<>>
    /\ pc = "idle"

LEMMA InitReadKept ==
    Fresh => ReadKept
<1>0. SUFFICES ASSUME Fresh PROVE ReadKept
    OBVIOUS
<1>1. /\ sockbuf = <<>> /\ wire = <<>> /\ lines = 0 /\ blanks = 0 /\ returned = <<>>
      /\ pc = "idle"
    BY <1>0 DEF Fresh
<1>2. <<>> \in Seq(Byte) /\ Len(<<>>) = 0 /\ <<>> \o <<>> = <<>> /\ DOMAIN <<>> = 1..0
    OBVIOUS
<1>3. Incoming = <<>>
    BY <1>1, <1>2 DEF Incoming
<1>4. Taken = <<>>
    BY <1>1, FlattenEmpty DEF Taken
<1>5. Got = <<>>
    <2>1. [i \in 1..0 |-> Append(<<>>[i], Newline)] = <<>>
        OBVIOUS
    <2>2. [i \in DOMAIN returned |-> Append(returned[i], Newline)] = <<>>
        BY <1>1, <1>2, <2>1
    <2>3. QED BY <2>2, FlattenEmpty DEF Got
<1>6. Written = <<>>
    <2>1. [i \in 1..0 |-> Line(MaxSends + i)] = <<>>
        OBVIOUS
    <2>2. [i \in 1..lines |-> Line(MaxSends + i)] = <<>>
        BY <1>1, <2>1
    <2>3. QED BY <2>2, FlattenEmpty DEF Written
<1>7. Spaced(<<>>, 0)
    <2>1. \A i \in Nat : ~Twin(<<>>, i)
        BY <1>2 DEF Twin
    <2>2. QED BY <2>1 DEF Spaced
<1>8. Ordered(<<>>, <<>>, MaxSends + lines)
    BY <1>2 DEF Ordered
<1>9. QED BY <1>1, <1>2, <1>3, <1>4, <1>5, <1>6, <1>7, <1>8 DEF ReadKept

LEMMA NewReadKept ==
    Fresh' => ReadKept'
BY InitReadKept, PTL

\* Nothing but the place of the stratum thread changes, or what recv takes is moved.
LEMMA ReadKeptStep ==
    ASSUME BufferInv, ReadInv, Incoming' = Incoming, UNCHANGED <<returned, lines, blanks>>,
           ~stalled' => ~stalled,
           ~stalled' /\ pc' = "cut" => Whole(sockbuf')
    PROVE  ReadInv'
<1>1. Taken' = Taken /\ Got' = Got /\ Written' = Written
    BY DEF Taken, Got, Written
<1>2. QED BY <1>1 DEF ReadInv, ReadKept

\* strtok has found a line, and nothing was in front of it.
LEMMA CutLine ==
    ASSUME BufferInv, ReadKept, blanks \in {0, 1}, Whole(sockbuf), Token # <<>>, Leading = 0
    PROVE  /\ Behind \in Seq(Byte) /\ Behind \o wire \in Seq(Byte)
           /\ Len(Token) + 1 \in 1..Len(Incoming) /\ Incoming[1] # Newline
           /\ Incoming[Len(Token) + 1] = Newline
           /\ Ending(Behind \o wire, Incoming, Len(Token) + 1)
           /\ \A i \in 1..Len(Token) : Token[i] = Incoming[i] /\ Token[i] # Newline
<1>1. /\ sockbuf \in Seq(Byte) /\ wire \in Seq(Byte) /\ Len(sockbuf) \in Nat /\ Len(wire) \in Nat
    BY DEF BufferInv, ReadTypes
<1>2. /\ Token \in Seq(Byte) /\ Len(Token) <= Len(sockbuf) /\ Len(Token) \in Nat
      /\ \A i \in 1..Len(Token) : Token[i] = sockbuf[i] /\ Token[i] # Newline
      /\ Len(Token) < Len(sockbuf) => sockbuf[Len(Token) + 1] = Newline
      /\ Len(sockbuf) > 0 => sockbuf[1] # Newline
    <2> DEFINE n == Len(Token)
    <2>1. /\ Token \in Seq(Byte) /\ 0 + n <= Len(sockbuf)
          /\ \A i \in 1..n : Token[i] = sockbuf[0 + i] /\ Token[i] # Newline
          /\ 0 + n < Len(sockbuf) => sockbuf[0 + n + 1] = Newline
          /\ 0 < Len(sockbuf) => sockbuf[0 + 1] # Newline
        BY <1>1, TokenFacts
    <2>2. n \in Nat
        BY <2>1
    <2> HIDE DEF n
    <2>3. 0 + n = n /\ \A i \in 1..n : 0 + i = i
        BY <2>2
    <2>4. n <= Len(sockbuf) /\ (n < Len(sockbuf) => sockbuf[n + 1] = Newline)
          /\ (0 < Len(sockbuf) => sockbuf[1] # Newline)
        BY <2>1, <2>3
    <2>5. \A i \in 1..n : Token[i] = sockbuf[i] /\ Token[i] # Newline
        BY <2>1, <2>3
    <2>6. QED BY <1>1, <2>1, <2>2, <2>4, <2>5 DEF n
<1> DEFINE f == Len(Token) + 1
<1>3. f \in 1..Len(sockbuf) /\ sockbuf[f] = Newline
    <2>1. PICK w \in 1..Len(sockbuf) : sockbuf[w] = Newline
        BY <1>1 DEF Whole, ToSet
    <2>2. Len(Token) # Len(sockbuf)
        BY <1>2, <2>1
    <2>3. QED BY <1>1, <1>2, <2>2
<1> HIDE DEF f
<1>4. Behind = SubSeq(sockbuf, f + 1, Len(sockbuf))
    <2>1. CASE Len(sockbuf) <= f
        <3>1. Behind = <<>>
            BY <2>1 DEF Behind, f
        <3>2. f + 1 \in Int /\ Len(sockbuf) \in Int /\ Len(sockbuf) < f + 1
            BY ONLY <1>1, <1>3, <2>1
        <3>3. SubSeq(sockbuf, f + 1, Len(sockbuf)) = <<>>
            BY <3>2, SubSeqEmpty
        <3>4. QED BY <3>1, <3>3
    <2>2. CASE ~(Len(sockbuf) <= f)
        <3>1. Len(Token) + 2 = f + 1
            BY <1>2 DEF f
        <3>2. QED BY <2>2, <3>1 DEF Behind, f
    <2>3. QED BY <2>1, <2>2
<1>5. /\ Behind \in Seq(Byte) /\ Len(Behind) = Len(sockbuf) - f
      /\ \A i \in 1..(Len(sockbuf) - f) : Behind[i] = sockbuf[f + i]
    <2>1. f \in 0..Len(sockbuf)
        BY ONLY <1>1, <1>3
    <2>2. QED BY ONLY <1>1, <1>4, <2>1, TwoParts
<1>6. /\ Incoming \in Seq(Byte) /\ Len(Incoming) = Len(sockbuf) + Len(wire)
      /\ \A i \in 1..Len(sockbuf) : Incoming[i] = sockbuf[i]
      /\ \A i \in 1..Len(wire) : Incoming[Len(sockbuf) + i] = wire[i]
    BY <1>1, Joined DEF Incoming
<1> DEFINE u == Behind \o wire
<1>7. /\ u \in Seq(Byte) /\ Len(u) = Len(Behind) + Len(wire)
      /\ \A i \in 1..Len(Behind) : u[i] = Behind[i]
      /\ \A i \in 1..Len(wire) : u[Len(Behind) + i] = wire[i]
    <2>1. Behind \in Seq(Byte) /\ wire \in Seq(Byte)
        BY <1>1, <1>5
    <2>2. QED BY ONLY <2>1, Joined
<1> HIDE DEF u
<1>8. Len(u) = Len(Incoming) - f
    BY ONLY <1>1, <1>3, <1>5, <1>6, <1>7
<1>9. ASSUME NEW i \in 1..(Len(Incoming) - f) PROVE u[i] = Incoming[f + i]
    <2>0. i \in Nat /\ i >= 1 /\ i <= Len(Behind) + Len(wire) /\ f \in Nat
        BY <1>1, <1>3, <1>5, <1>6
    <2>1. CASE i <= Len(Behind)
        <3>1. i \in 1..(Len(sockbuf) - f) /\ i \in 1..Len(Behind) /\ f + i \in 1..Len(sockbuf)
            BY ONLY <1>1, <1>3, <1>5, <2>0, <2>1
        <3>2. QED BY ONLY <1>5, <1>6, <1>7, <3>1
    <2>2. CASE i > Len(Behind)
        <3>1. /\ i - Len(Behind) \in 1..Len(wire) /\ i = Len(Behind) + (i - Len(Behind))
              /\ f + i = Len(sockbuf) + (i - Len(Behind))
            BY ONLY <1>1, <1>3, <1>5, <2>0, <2>2
        <3>2. u[i] = wire[i - Len(Behind)]
            BY ONLY <1>7, <3>1
        <3>3. Incoming[f + i] = wire[i - Len(Behind)]
            BY ONLY <1>6, <3>1
        <3>4. QED BY <3>2, <3>3
    <2>3. QED BY <1>1, <1>5, <2>0, <2>1, <2>2
<1>10. Ending(u, Incoming, f)
    BY <1>8, <1>9 DEF Ending
<1>11. f \in 1..Len(Incoming) /\ Incoming[f] = Newline /\ Incoming[1] # Newline
    <2>1. f \in 1..Len(Incoming) /\ 1 \in 1..Len(sockbuf) /\ Len(sockbuf) > 0
        BY ONLY <1>1, <1>3, <1>6
    <2>2. QED BY <1>2, <1>3, <1>6, <2>1
<1>12. ASSUME NEW i \in 1..Len(Token) PROVE Token[i] = Incoming[i] /\ Token[i] # Newline
    <2>1. i \in 1..Len(sockbuf)
        BY <1>1, <1>2
    <2>2. QED BY <1>2, <1>6, <2>1
<1>13. QED BY <1>5, <1>7, <1>10, <1>11, <1>12 DEF u, f

\* An empty line was in front of it: whatever else is in the buffer is lost.
LEMMA CutBlank ==
    ASSUME BufferInv, ReadKept, blanks \in {0, 1}, Token # <<>>, Leading # 0
    PROVE  /\ Behind = <<>> /\ Behind \o wire = wire /\ Leading = 1 /\ wire \in Seq(Byte)
           /\ Incoming # <<>> /\ Incoming[1] = Newline /\ blanks = 1
           /\ 1 + Len(Token) <= Len(sockbuf) /\ Len(sockbuf) \in 0..Len(Incoming)
           /\ Ending(wire, Incoming, Len(sockbuf))
           /\ \A i \in 1..Len(Token) : Token[i] = Incoming[1 + i] /\ Token[i] # Newline
<1>1. /\ sockbuf \in Seq(Byte) /\ wire \in Seq(Byte) /\ Len(sockbuf) \in Nat /\ Len(wire) \in Nat
    BY DEF BufferInv, ReadTypes
<1>2. /\ Incoming \in Seq(Byte) /\ Len(Incoming) = Len(sockbuf) + Len(wire)
      /\ \A i \in 1..Len(sockbuf) : Incoming[i] = sockbuf[i]
      /\ \A i \in 1..Len(wire) : Incoming[Len(sockbuf) + i] = wire[i]
    BY <1>1, Joined DEF Incoming
<1>3. /\ Leading \in 1..Len(sockbuf)
      /\ \A i \in 1..Leading : sockbuf[i] = Newline
      /\ Token \in Seq(Byte) /\ Len(Token) \in Nat /\ Leading + Len(Token) <= Len(sockbuf)
      /\ \A i \in 1..Len(Token) : Token[i] = sockbuf[Leading + i] /\ Token[i] # Newline
    <2>1. /\ Leading \in 0..Len(sockbuf)
          /\ \A i \in 1..Leading : sockbuf[i] = Newline
          /\ Token \in Seq(Byte) /\ Leading + Len(Token) <= Len(sockbuf)
          /\ \A i \in 1..Len(Token) : Token[i] = sockbuf[Leading + i] /\ Token[i] # Newline
        BY <1>1, TokenFacts
    <2>2. Leading \in 1..Len(sockbuf)
        BY <1>1, <2>1
    <2>3. QED BY <2>1, <2>2
<1>4. 1 \in 1..Leading /\ 1 \in 1..Len(sockbuf) /\ Leading \in Nat
    BY ONLY <1>1, <1>3
<1>5. Incoming # <<>> /\ Incoming[1] = Newline
    <2>1. Incoming[1] = Newline
        BY <1>2, <1>3, <1>4
    <2>2. Len(Incoming) # 0
        BY ONLY <1>1, <1>2, <1>4
    <2>3. QED BY <2>1, <2>2
<1>6. Leading = 1
    <2>1. SUFFICES ASSUME Leading # 1 PROVE FALSE
        OBVIOUS
    <2>2. 2 \in 1..Leading /\ 2 \in 1..Len(sockbuf) /\ 1 \in 1..(Len(Incoming) - 1)
        BY ONLY <1>1, <1>2, <1>3, <1>4, <2>1
    <2>3. Incoming[2] = Newline /\ 1 + 1 = 2
        BY <1>2, <1>3, <2>2
    <2>4. Twin(Incoming, 1)
        BY <1>5, <2>2, <2>3 DEF Twin
    <2>5. QED BY <1>5, <2>4 DEF ReadKept, Spaced
<1>7. blanks = 1
    BY <1>5 DEF ReadKept, Spaced
<1>8. Behind = <<>>
    <2>1. CASE Len(sockbuf) <= Len(Token) + 1
        BY <2>1 DEF Behind
    <2>2. CASE ~(Len(sockbuf) <= Len(Token) + 1)
        <3>1. Behind = SubSeq(sockbuf, Len(Token) + 2, Leading + Len(Token))
            BY <1>6, <2>2 DEF Behind
        <3>2. /\ Len(Token) + 2 \in Int /\ Leading + Len(Token) \in Int
              /\ Leading + Len(Token) < Len(Token) + 2
            BY <1>3, <1>6
        <3>3. QED BY <3>1, <3>2, SubSeqEmpty
    <2>3. QED BY <2>1, <2>2
<1>9. Behind \o wire = wire
    BY <1>1, <1>8
<1>10. Ending(wire, Incoming, Len(sockbuf)) /\ Len(sockbuf) \in 0..Len(Incoming)
    <2>1. Len(Incoming) - Len(sockbuf) = Len(wire) /\ Len(sockbuf) \in 0..Len(Incoming)
        BY ONLY <1>1, <1>2
    <2>2. QED BY <1>2, <2>1 DEF Ending
<1>11. ASSUME NEW i \in 1..Len(Token) PROVE Token[i] = Incoming[1 + i] /\ Token[i] # Newline
    <2>1. 1 + i \in 1..Len(sockbuf)
        BY <1>1, <1>3, <1>6
    <2>2. Token[i] = sockbuf[1 + i] /\ Token[i] # Newline
        BY <1>3, <1>6
    <2>3. QED BY <1>2, <2>1, <2>2
<1>12. QED BY <1>1, <1>3, <1>5, <1>6, <1>7, <1>8, <1>9, <1>10, <1>11

LEMMA TakenGrows ==
    ASSUME returned \in Seq(Seq(Byte)), NEW k \in Seq(Byte), returned' = Append(returned, k)
    PROVE  /\ Taken' = Taken \o k
           /\ Got' = Got \o Append(k, Newline)
<1>1. Taken' = Taken \o k
    BY FlattenAppend DEF Taken
<1> DEFINE ss == [i \in DOMAIN returned |-> Append(returned[i], Newline)]
           tt == [i \in DOMAIN returned' |-> Append(returned'[i], Newline)]
           s == Append(k, Newline)
           n == Len(returned)
<1>2. n \in Nat /\ DOMAIN returned = 1..n /\ DOMAIN returned' = 1..(n + 1) /\ Newline \in Byte
    BY ByteFacts
<1>3. s \in Seq(Byte)
    BY <1>2
<1>4. ss \in Seq(Seq(Byte)) /\ Len(ss) = n
    <2>1. \A i \in 1..n : Append(returned[i], Newline) \in Seq(Byte)
        BY <1>2
    <2>2. ss \in [1..n -> Seq(Byte)]
        BY <1>2, <2>1
    <2> HIDE DEF ss, n
    <2>3. QED BY ONLY <1>2, <2>2
<1>5. \A i \in 1..n : tt[i] = ss[i]
    <2>1. \A i \in 1..n : i \in 1..(n + 1) /\ returned'[i] = returned[i]
        BY <1>2
    <2>2. QED BY <1>2, <2>1
<1>6. tt[n + 1] = s
    <2>1. n + 1 \in 1..(n + 1) /\ returned'[n + 1] = k
        BY <1>2
    <2>2. QED BY <1>2, <2>1
<1>7. tt = [i \in 1..(n + 1) |-> tt[i]]
    BY <1>2
<1> HIDE DEF ss, tt, s, n
<1>8. tt = Append(ss, s)
    <2> DEFINE vv == Append(ss, s)
    <2>1. /\ vv \in Seq(Seq(Byte)) /\ Len(vv) = n + 1 /\ vv[n + 1] = s
          /\ \A i \in 1..n : vv[i] = ss[i]
        BY <1>3, <1>4
    <2> HIDE DEF vv
    <2>2. \A i \in 1..(n + 1) : tt[i] = vv[i]
        BY <1>2, <1>5, <1>6, <2>1
    <2>3. vv = [i \in 1..(n + 1) |-> vv[i]]
        BY <2>1
    <2>4. tt = vv
        BY ONLY <1>7, <2>2, <2>3
    <2>5. QED BY <2>4 DEF vv
<1>9. FlattenSeq(tt) = FlattenSeq(ss) \o s
    BY <1>3, <1>4, <1>8, FlattenAppend
<1>10. Got = FlattenSeq(ss) /\ Got' = FlattenSeq(tt)
    BY DEF Got, ss, tt
<1>11. QED BY <1>1, <1>9, <1>10 DEF s

LEMMA WrittenGrows ==
    ASSUME lines \in Nat, lines < MaxLines, lines' = lines + 1
    PROVE  Written' = Written \o Line(MaxSends + lines + 1)
<1> DEFINE n == lines
           ss == [i \in 1..n |-> Line(MaxSends + i)]
           tt == [i \in 1..(n + 1) |-> Line(MaxSends + i)]
           s == Line(MaxSends + n + 1)
<1>1. n \in Nat /\ n < MaxLines /\ MaxSends \in Nat /\ MaxLines \in Nat
    BY ParameterFacts
<1>2. Written = FlattenSeq(ss) /\ Written' = FlattenSeq(tt)
    BY DEF Written
<1> HIDE DEF n
<1>3. \A i \in 1..(n + 1) : Line(MaxSends + i) \in Seq(Byte)
    <2>1. ASSUME NEW i \in 1..(n + 1) PROVE MaxSends + i \in 1..(MaxSends + MaxLines)
        BY <1>1
    <2>2. QED BY <2>1, ByteFacts
<1>4. s \in Seq(Byte) /\ s = Line(MaxSends + (n + 1))
    <2>1. MaxSends + n + 1 = MaxSends + (n + 1) /\ n + 1 \in 1..(n + 1)
        BY <1>1
    <2>2. QED BY <1>3, <2>1
<1>5. ss \in Seq(Seq(Byte)) /\ Len(ss) = n
    <2>1. ss \in [1..n -> Seq(Byte)]
        <3>1. \A i \in 1..n : Line(MaxSends + i) \in Seq(Byte)
            BY <1>1, <1>3
        <3>2. QED BY <3>1
    <2> HIDE DEF ss
    <2>2. QED BY <1>1, <2>1
<1>6. /\ \A i \in 1..n : tt[i] = ss[i]
      /\ tt[n + 1] = s
      /\ tt = [i \in 1..(n + 1) |-> tt[i]]
    BY <1>1, <1>4
<1> HIDE DEF ss, tt, s
<1>7. tt = Append(ss, s)
    <2> DEFINE vv == Append(ss, s)
    <2>1. /\ vv \in Seq(Seq(Byte)) /\ Len(vv) = n + 1 /\ vv[n + 1] = s
          /\ \A i \in 1..n : vv[i] = ss[i]
        BY <1>4, <1>5
    <2> HIDE DEF vv
    <2>2. \A i \in 1..(n + 1) : tt[i] = vv[i]
        <3>1. ASSUME NEW i \in 1..(n + 1), i # n + 1 PROVE i \in 1..n
            BY <1>1, <3>1
        <3>2. QED BY <1>6, <2>1, <3>1
    <2>3. vv = [i \in 1..(n + 1) |-> vv[i]]
        BY <2>1
    <2>4. tt = vv
        BY ONLY <1>6, <2>2, <2>3
    <2>5. QED BY <2>4 DEF vv
<1>8. FlattenSeq(tt) = FlattenSeq(ss) \o s
    BY <1>4, <1>5, <1>7, FlattenAppend
<1>9. QED BY <1>2, <1>8 DEF s, n

\* A line cut off where it ends is put together with what is behind it.
LEMMA LineAndEnding ==
    ASSUME NEW s \in Seq(Byte), NEW k \in Seq(Byte), NEW u \in Seq(Byte),
           Len(k) + 1 \in 1..Len(s), s[Len(k) + 1] = Newline,
           \A i \in 1..Len(k) : k[i] = s[i],
           Ending(u, s, Len(k) + 1)
    PROVE  Append(k, Newline) \o u = s
<1> DEFINE a == Append(k, Newline)
           f == Len(k) + 1
           v == a \o u
<1>1. Len(k) \in Nat /\ Len(s) \in Nat /\ Len(u) = Len(s) - f /\ Newline \in Byte
    BY ByteFacts DEF Ending
<1>2. a \in Seq(Byte) /\ Len(a) = f /\ a[f] = Newline /\ \A i \in 1..Len(k) : a[i] = k[i]
    BY <1>1
<1> HIDE DEF a
<1>3. /\ v \in Seq(Byte) /\ Len(v) = Len(a) + Len(u)
      /\ \A i \in 1..Len(a) : v[i] = a[i]
      /\ \A i \in 1..Len(u) : v[Len(a) + i] = u[i]
    <2>1. a \in Seq(Byte)
        BY <1>2
    <2>2. QED BY <2>1, Joined
<1> HIDE DEF v
<1>4. Len(v) = Len(s)
    BY ONLY <1>1, <1>2, <1>3
<1>5. ASSUME NEW i \in 1..Len(s) PROVE v[i] = s[i]
    <2>0. i \in Nat /\ i >= 1 /\ i <= Len(s) /\ f \in Nat
        BY <1>1
    <2>1. CASE i < f
        <3>1. i \in 1..Len(k) /\ i \in 1..Len(a)
            BY <1>1, <1>2, <2>0, <2>1
        <3>2. QED BY <1>2, <1>3, <3>1
    <2>2. CASE i = f
        <3>1. f \in 1..Len(a)
            BY <1>1, <1>2
        <3>2. QED BY <1>2, <1>3, <2>2, <3>1
    <2>3. CASE i > f
        <3>1. i - f \in 1..(Len(s) - f) /\ i - f \in 1..Len(u) /\ f + (i - f) = i
            BY <1>1, <2>0, <2>3
        <3>2. v[f + (i - f)] = u[i - f]
            BY <1>2, <1>3, <3>1
        <3>3. u[i - f] = s[f + (i - f)]
            BY <3>1 DEF Ending
        <3>4. QED BY <3>1, <3>2, <3>3
    <2>4. QED BY <2>0, <2>1, <2>2, <2>3
<1>6. v = s
    BY <1>3, <1>4, <1>5, SeqEqual
<1>7. QED BY <1>6 DEF v, a

LEMMA CutReadStep ==
    ASSUME BufferInv, ReadInv, Cut
    PROVE  ReadInv'
<1>0. pc = "cut" /\ UNCHANGED <<stalled, wire, lines, blanks>> /\ pc' # "cut" /\ blanks \in Nat
      /\ sockbuf \in Seq(Byte) /\ wire \in Seq(Byte) /\ returned \in Seq(Seq(Byte))
    BY ParameterFacts DEF Cut, poolVars, BufferInv, ReadTypes
<1>1. CASE Token = <<>>
    <2>1. Incoming' = Incoming /\ UNCHANGED returned
        BY <1>0, <1>1 DEF Cut, Incoming
    <2>2. QED BY <1>0, <2>1, ReadKeptStep
<1>2. CASE Token # <<>>
    <2>1. returned' = Append(returned, Token) /\ sockbuf' = Behind
        BY <1>2 DEF Cut
    <2>2. SUFFICES ASSUME ~stalled, blanks <= 1 PROVE ReadKept'
        BY <1>0 DEF ReadInv
    <2>3. ReadKept /\ blanks \in {0, 1} /\ Whole(sockbuf)
        BY <1>0, <2>2 DEF ReadInv, ReadKept
    <2>4. /\ Incoming' = Behind \o wire /\ Incoming \in Seq(Byte) /\ Token \in Seq(Byte)
          /\ Written' = Written
        <3>1. Incoming' = Behind \o wire /\ Written' = Written
            BY <1>0, <2>1 DEF Incoming, Written
        <3>2. Incoming \in Seq(Byte)
            BY <1>0 DEF Incoming
        <3>3. Token \in Seq(Byte)
            BY <1>0, TokenFacts
        <3>4. QED BY <3>1, <3>2, <3>3
    <2>5. Taken' = Taken \o Token /\ Got' = Got \o Append(Token, Newline)
        BY <1>0, <2>1, <2>4, TakenGrows
    <2>6. /\ Taken \in Seq(Byte) /\ Spaced(Incoming, blanks)
          /\ Ordered(Taken, Incoming, MaxSends + lines)
          /\ blanks = 0 => Got \in Seq(Byte) /\ Got \o Incoming = Written
        BY <2>3 DEF ReadKept
    <2>7. Taken' \in Seq(Byte)
        BY <2>4, <2>5, <2>6
    <2>8. CASE Leading = 0
        <3> DEFINE u == Behind \o wire
                   d == Len(Token) + 1
        <3>1. /\ u \in Seq(Byte) /\ d \in 1..Len(Incoming) /\ Incoming[1] # Newline
              /\ Incoming[d] = Newline /\ Ending(u, Incoming, d)
              /\ \A i \in 1..Len(Token) : Token[i] = Incoming[i] /\ Token[i] # Newline
            BY <1>2, <2>3, <2>8, CutLine
        <3> HIDE DEF u
        <3>2. Spaced(u, blanks)
            BY <2>4, <2>6, <3>1, SpacedBehind
        <3>3. Ordered(Taken \o Token, u, MaxSends + lines)
            <4>1. Len(Token) \in Nat /\ 0 + Len(Token) <= d /\ d \in 0..Len(Incoming) /\ 0 \in Nat
                BY <2>4, <3>1
            <4>2. \A i \in 1..Len(Token) : Token[i] = Incoming[0 + i] /\ Token[i] # Newline
                <5>1. \A i \in 1..Len(Token) : 0 + i = i
                    BY <4>1
                <5>2. QED BY <3>1, <5>1
            <4>3. QED BY <2>4, <2>6, <3>1, <4>1, <4>2, OrderedBehind
        <3>4. ASSUME blanks = 0
              PROVE  Got' \in Seq(Byte) /\ Got' \o u = Written
            <4>1. Append(Token, Newline) \in Seq(Byte)
                BY <2>4, ByteFacts
            <4>2. Append(Token, Newline) \o u = Incoming
                BY <2>4, <3>1, LineAndEnding
            <4>3. Got \in Seq(Byte) /\ Got \o Incoming = Written
                BY <2>6, <3>4
            <4>4. \A x, y, z \in Seq(Byte) : (x \o y) \o z = x \o (y \o z)
                BY ONLY ConcatAssociative
            <4>5. (Got \o Append(Token, Newline)) \o u = Got \o (Append(Token, Newline) \o u)
                BY ONLY <3>1, <4>1, <4>3, <4>4
            <4>6. QED BY <2>5, <4>1, <4>2, <4>3, <4>5
        <3>5. Incoming' = u
            BY <2>4 DEF u
        <3>6. QED BY <1>0, <2>4, <2>5, <2>7, <3>2, <3>3, <3>4, <3>5 DEF ReadKept
    <2>9. CASE Leading # 0
        <3> DEFINE d == Len(sockbuf)
        <3>1. /\ Behind \o wire = wire /\ Incoming # <<>> /\ Incoming[1] = Newline /\ blanks = 1
              /\ 1 + Len(Token) <= d /\ d \in 0..Len(Incoming) /\ Ending(wire, Incoming, d)
              /\ \A i \in 1..Len(Token) : Token[i] = Incoming[1 + i] /\ Token[i] # Newline
            BY <1>2, <2>3, <2>9, CutBlank
        <3> HIDE DEF d
        <3>2. Spaced(wire, blanks)
            BY <1>0, <2>4, <2>6, <3>1, SpacedAfterBlank
        <3>3. Ordered(Taken \o Token, wire, MaxSends + lines)
            BY <1>0, <2>4, <2>6, <3>1, OrderedBehind
        <3>4. QED BY <1>0, <2>4, <2>5, <2>7, <3>1, <3>2, <3>3 DEF ReadKept
    <2>10. QED BY <2>8, <2>9
<1>3. QED BY <1>1, <1>2

LEMMA PoolWritesReadStep ==
    ASSUME BufferInv, ReadInv, PoolWrites
    PROVE  ReadInv'
<1> DEFINE n == MaxSends + lines + 1
           x == Line(n)
<1>0. /\ lines \in Nat /\ lines < MaxLines /\ lines' = lines + 1 /\ wire' = wire \o x
      /\ UNCHANGED <<pc, sockbuf, stalled, returned, blanks>>
      /\ sockbuf \in Seq(Byte) /\ wire \in Seq(Byte)
    BY DEF PoolWrites, readVars, BufferInv, ReadTypes
<1>1. n \in 1..(MaxSends + MaxLines) /\ n - 1 = MaxSends + lines /\ MaxSends + lines' = n
    BY <1>0, ParameterFacts
<1>2. x \in Seq(Byte)
    BY <1>1, ByteFacts
<1>3. Written' = Written \o x
    BY <1>0, WrittenGrows
<1> HIDE DEF n, x
<1>4. \A a, b, c \in Seq(Byte) : (a \o b) \o c = a \o (b \o c)
    BY ONLY ConcatAssociative
<1>5. Incoming' = Incoming \o x /\ Incoming \in Seq(Byte)
    <2>1. Incoming' = sockbuf \o (wire \o x)
        BY <1>0 DEF Incoming
    <2>2. (sockbuf \o wire) \o x = sockbuf \o (wire \o x)
        BY ONLY <1>0, <1>2, <1>4
    <2>3. sockbuf \o wire \in Seq(Byte)
        BY <1>0
    <2>4. QED BY <2>1, <2>2, <2>3 DEF Incoming
<1>6. Taken' = Taken /\ Got' = Got
    BY <1>0 DEF Taken, Got
<1>7. SUFFICES ASSUME ~stalled, blanks <= 1 PROVE ReadKept'
    BY <1>0 DEF ReadInv
<1>8. ReadKept
    BY <1>7 DEF ReadInv
<1>9. Spaced(Incoming', blanks)
    BY <1>1, <1>5, <1>8, SpacedWithLine DEF ReadKept, x
<1>10. Ordered(Taken, Incoming', n)
    <2>1. Ordered(Taken, Incoming, n - 1) /\ Taken \in Seq(Byte)
        BY <1>1, <1>8 DEF ReadKept
    <2>2. QED BY <1>1, <1>5, <2>1, OrderedWithLine DEF x
<1>11. ASSUME blanks = 0 PROVE Got \in Seq(Byte) /\ Got \o Incoming' = Written'
    <2>1. Got \in Seq(Byte) /\ Got \o Incoming = Written
        BY <1>8, <1>11 DEF ReadKept
    <2>2. (Got \o Incoming) \o x = Got \o (Incoming \o x)
        BY ONLY <1>2, <1>4, <1>5, <2>1
    <2>3. QED BY <1>3, <1>5, <2>1, <2>2
<1>12. QED BY <1>0, <1>1, <1>6, <1>8, <1>9, <1>10, <1>11 DEF ReadKept

LEMMA BlankReadStep ==
    ASSUME BufferInv, ReadInv, PoolWritesBlank
    PROVE  ReadInv'
<1>0. /\ blanks \in Nat /\ blanks' = blanks + 1 /\ wire' = Append(wire, Newline)
      /\ UNCHANGED <<pc, sockbuf, stalled, returned, lines>>
      /\ sockbuf \in Seq(Byte) /\ wire \in Seq(Byte)
    BY ParameterFacts DEF PoolWritesBlank, readVars, BufferInv, ReadTypes
<1>1. SUFFICES ASSUME ~stalled, blanks' <= 1 PROVE ReadKept'
    BY <1>0 DEF ReadInv
<1>2. blanks = 0 /\ blanks' = 1 /\ blanks <= 1
    BY ONLY <1>0, <1>1
<1>3. ReadKept
    BY <1>0, <1>1, <1>2 DEF ReadInv
<1>4. Incoming' = Append(Incoming, Newline) /\ Incoming \in Seq(Byte)
    <2>1. Newline \in Byte
        BY ByteFacts
    <2>2. \A s, t \in Seq(Byte) : s \o t \in Seq(Byte)
        OBVIOUS
    <2>3. sockbuf \o Append(wire, Newline) = Append(sockbuf \o wire, Newline)
        <3>1. \A s, t \in Seq(Byte), c \in Byte : s \o Append(t, c) = Append(s \o t, c)
            OBVIOUS
        <3>2. QED BY <1>0, <2>1, <3>1
    <2>4. QED BY <1>0, <2>2, <2>3 DEF Incoming
<1>5. Taken' = Taken /\ Got' = Got
    BY <1>0 DEF Taken, Got
<1>6. Spaced(Incoming', 1)
    BY <1>2, <1>3, <1>4, SpacedWithBlank DEF ReadKept
<1>7. Ordered(Taken, Incoming', MaxSends + lines)
    BY <1>3, <1>4, OrderedWithBlank DEF ReadKept
<1>8. QED BY <1>0, <1>2, <1>3, <1>5, <1>6, <1>7 DEF ReadKept

LEMMA NextReadInv ==
    ASSUME BufferInv, ReadInv, [Next]_vars
    PROVE  ReadInv'
<1>1. ASSUME NEW t \in Writers, BeginSend(t) \/ Send(t) \/ SendFails(t) PROVE ReadInv'
    <2>1. UNCHANGED <<readVars, poolVars>>
        BY <1>1 DEF BeginSend, Send, SendFails
    <2>2. pc' = "cut" => pc = "cut"
        BY <1>1 DEF BeginSend, Send, SendFails, EndSend
    <2>3. Incoming' = Incoming /\ UNCHANGED <<sockbuf, stalled, returned, lines, blanks>>
        BY <2>1 DEF Incoming, readVars, poolVars
    <2>4. ReadKept => ReadKept'
        BY <2>2, <2>3 DEF ReadKept, Taken, Got, Written
    <2>5. QED BY <2>3, <2>4 DEF ReadInv
<1>2. CASE BeginReceive \/ RecvFails \/ UNCHANGED vars
    <2>1. UNCHANGED <<readVars, poolVars>>
        BY <1>2 DEF BeginReceive, RecvFails, vars
    <2>2. pc' = "cut" => pc = "cut" \/ Whole(sockbuf)
        BY <1>2 DEF BeginReceive, RecvFails, vars
    <2>3. Incoming' = Incoming /\ UNCHANGED <<sockbuf, stalled, returned, lines, blanks>>
        BY <2>1 DEF Incoming, readVars, poolVars
    <2>4. ReadKept => ReadKept'
        BY <2>2, <2>3 DEF ReadKept, Taken, Got, Written
    <2>5. QED BY <2>3, <2>4 DEF ReadInv
<1>3. CASE Recv
    <2>1. Incoming' = Incoming
        BY <1>3, RecvMoves DEF Incoming
    <2>2. /\ UNCHANGED <<returned, lines, blanks>> /\ pc = "recv"
          /\ ~stalled' => ~stalled
          /\ ~stalled' /\ pc' = "cut" => Whole(sockbuf')
        BY <1>3 DEF Recv
    <2>3. QED BY <2>1, <2>2, ReadKeptStep
<1>4. CASE Cut
    BY <1>4, CutReadStep
<1>5. CASE Reconnect
    <2>1. ReadKept'
        <3>1. Fresh'
            BY <1>5 DEF Reconnect, Fresh
        <3>2. QED BY <3>1, NewReadKept
    <2>2. QED BY <2>1 DEF ReadInv
<1>6. CASE PoolWrites
    BY <1>6, PoolWritesReadStep
<1>7. CASE PoolWritesBlank
    BY <1>7, BlankReadStep
<1>8. QED BY <1>1, <1>2, <1>3, <1>4, <1>5, <1>6, <1>7 DEF Next

-----------------------------------------------------------------------------
\* stratum_recv_line: as long as no line takes a minute, and however recv cuts them,
\* the pool's lines are returned whole, in order, once each and none is lost if it
\* writes no empty ones; and with one empty line nothing is returned twice or too early.
THEOREM LinesComeThrough == Spec => []LinesKept
<1>1. Init => BufferInv /\ ReadInv
    <2> SUFFICES ASSUME Init PROVE BufferInv /\ ReadInv
        OBVIOUS
    <2>1. ReadKept
        BY InitReadKept DEF Init, Fresh
    <2>2. QED BY <2>1, InitBufferInv DEF ReadInv
<1>2. (BufferInv /\ ReadInv) /\ [Next]_vars => (BufferInv /\ ReadInv)'
    BY NextBufferInv, NextReadInv
<1>3. BufferInv /\ ReadInv => LinesKept
    <2> SUFFICES ASSUME BufferInv, ReadInv, ~stalled PROVE LinesIntact /\ NothingTwice
        BY DEF LinesKept
    <2>1. ASSUME blanks = 0 PROVE Got \o sockbuf \o wire = Written
        <3>1. ReadKept
            BY <2>1 DEF ReadInv
        <3>2. Got \in Seq(Byte) /\ Got \o (sockbuf \o wire) = Written
            BY <2>1, <3>1 DEF ReadKept, Incoming
        <3>3. sockbuf \in Seq(Byte) /\ wire \in Seq(Byte)
            BY DEF BufferInv, ReadTypes
        <3>4. \A a, b, c \in Seq(Byte) : (a \o b) \o c = a \o (b \o c)
            BY ONLY ConcatAssociative
        <3>5. QED BY <3>2, <3>3, <3>4
    <2>2. ASSUME blanks <= 1, NEW i \in DOMAIN FlattenSeq(returned),
                 NEW j \in DOMAIN FlattenSeq(returned), i < j
          PROVE  Before(FlattenSeq(returned)[i], FlattenSeq(returned)[j])
        <3>1. Taken \in Seq(Byte) /\ Ordered(Taken, Incoming, MaxSends + lines)
            BY <2>2 DEF ReadInv, ReadKept
        <3>2. i \in 1..Len(Taken) /\ j \in 1..Len(Taken)
            BY <2>2, <3>1 DEF Taken
        <3>3. QED BY <2>2, <3>1, <3>2 DEF Ordered, Taken
    <2>3. QED BY <2>1, <2>2 DEF LinesIntact, NothingTwice, Before
<1>4. QED BY <1>1, <1>2, <1>3, PTL DEF Spec

=============================================================================
