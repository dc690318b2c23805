------------------------ MODULE StratumSessionProofs ------------------------
(***************************************************************************)
(* Theorems about module StratumSession, for any number of descriptors,    *)
(* shares, faults and lines in flight.                                     *)
(***************************************************************************)
EXTENDS StratumSession, FiniteSetTheorems, TLAPS

-----------------------------------------------------------------------------
(* Lines on the way.                                                       *)

\* The lines that end a login well, those that can be ahead of them, and those
\* that a session is about.
Welcomed == {Welcome, WelcomeBut}
Ahead == {Refuses, Job(TRUE), Job(FALSE)}
Ordinary == {Job(TRUE), Job(FALSE), Accepts, AcceptsBare, Refuses, Alive}

Only(s, S) == \A i \in 1..Len(s) : s[i] \in S

\* What will be taken for the answer to the login is a welcome, the only one.
Greeted(s) == \E i \in 1..Len(s) : /\ s[i] \in Welcomed
                                   /\ \A j \in 1..(i - 1) : s[j] \in Ahead
                                   /\ \A j \in (i + 1)..Len(s) : s[j] \in Ordinary

Without(s, kind) == \A i \in 1..Len(s) : s[i].kind # kind
OneLogin(s) == \A i, j \in 1..Len(s) :
                  s[i].kind = "login" /\ s[j].kind = "login" => i = j

\* A share on the way to pool q is its own, or an orphan; a steady one current.
Fit(m, q) == m.kind = "submit" => /\ m.from # q => m.orphan
                                  /\ m.steady => m.current
AllFit(s, q) == \A i \in 1..Len(s) : Fit(s[i], q)

\* How many lines of s are in S.
At(s, S) == {i \in 1..Len(s) : s[i] \in S}
Count(s, S) == Cardinality(At(s, S))

LEMMA LineFacts ==
    /\ Welcomed \subseteq Lines /\ Ahead \subseteq Lines /\ Ordinary \subseteq Lines
    /\ \A l \in Lines : /\ l.kind \in {"job", "answer"}
                        /\ l.kind = "answer" => l.hasId \in BOOLEAN
    /\ \A l \in Welcomed : l.kind = "answer" /\ l.hasId = TRUE /\ l \notin Ordinary
    /\ \A l \in Ahead : l \in Ordinary /\ (l.kind = "answer" => l.result = FALSE)
    /\ \A l \in Ordinary : /\ Counts(l) /\ Valid(l) <=> l = Accepts
                           /\ Counts(l) /\ ~Valid(l) <=> l \in {AcceptsBare, Refuses}
BY DEF Lines, Job, Accepts, AcceptsBare, Refuses, Alive, Welcome, WelcomeBut,
       Answer, Welcomed, Ahead, Ordinary, Counts, Valid

LEMMA NothingFacts ==
    /\ \A S : Only(<<>>, S) /\ Count(<<>>, S) = 0
    /\ \A k : Without(<<>>, k)
    /\ ~Greeted(<<>>)
    /\ OneLogin(<<>>)
    /\ \A q : AllFit(<<>>, q)
<1>1. \A S : At(<<>>, S) = {}
  BY DEF At
<1> QED
  BY <1>1, FS_EmptySet DEF Only, Greeted, Without, OneLogin, AllFit, Count

LEMMA CountNat ==
    ASSUME NEW R, NEW s \in Seq(R), NEW S
    PROVE  IsFiniteSet(At(s, S)) /\ Count(s, S) \in Nat
<1>1. IsFiniteSet(1..Len(s)) /\ At(s, S) \subseteq 1..Len(s)
  BY FS_Interval DEF At
<1> QED
  BY <1>1, FS_Subset, FS_CardinalityType DEF Count

LEMMA AppendFacts ==
    ASSUME NEW R, NEW s \in Seq(R), NEW x \in R
    PROVE  /\ Append(s, x) \in Seq(R) /\ Len(Append(s, x)) = Len(s) + 1
           /\ Append(s, x) # <<>>
           /\ \A S : Only(s, S) /\ x \in S => Only(Append(s, x), S)
           /\ Greeted(s) /\ x \in Ordinary => Greeted(Append(s, x))
           /\ Only(s, Ahead) /\ x \in Welcomed => Greeted(Append(s, x))
           /\ \A k : Without(s, k) /\ x.kind # k => Without(Append(s, x), k)
           /\ Without(s, "login") => OneLogin(Append(s, x))
           /\ OneLogin(s) /\ x.kind # "login" => OneLogin(Append(s, x))
           /\ \A q : AllFit(s, q) /\ Fit(x, q) => AllFit(Append(s, x), q)
           /\ \A S : Count(Append(s, x), S) = Count(s, S) + (IF x \in S THEN 1 ELSE 0)
<1> DEFINE t == Append(s, x)
<1>1. /\ t \in Seq(R) /\ Len(s) \in Nat /\ Len(t) = Len(s) + 1 /\ t # <<>>
      /\ \A i \in 1..Len(s) : t[i] = s[i] /\ i \in 1..Len(t)
      /\ t[Len(s) + 1] = x /\ Len(s) + 1 \in 1..Len(t)
      /\ \A i \in 1..Len(t) : i \in 1..Len(s) \/ i = Len(s) + 1
  OBVIOUS
<1> HIDE DEF t
<1>2. \A S : Only(s, S) /\ x \in S => Only(t, S)
  BY <1>1 DEF Only
<1>3. Greeted(s) /\ x \in Ordinary => Greeted(t)
  <2> SUFFICES ASSUME Greeted(s), x \in Ordinary PROVE Greeted(t)
    OBVIOUS
  <2>1. PICK i \in 1..Len(s) : /\ s[i] \in Welcomed
                               /\ \A j \in 1..(i - 1) : s[j] \in Ahead
                               /\ \A j \in (i + 1)..Len(s) : s[j] \in Ordinary
    BY DEF Greeted
  <2>2. i \in 1..Len(t) /\ t[i] \in Welcomed
    BY <1>1, <2>1
  <2>3. \A j \in 1..(i - 1) : t[j] \in Ahead
    BY <1>1, <2>1
  <2>4. \A j \in (i + 1)..Len(t) : t[j] \in Ordinary
    BY <1>1, <2>1
  <2> QED BY <2>2, <2>3, <2>4 DEF Greeted
<1>4. Only(s, Ahead) /\ x \in Welcomed => Greeted(t)
  <2> SUFFICES ASSUME Only(s, Ahead), x \in Welcomed PROVE Greeted(t)
    OBVIOUS
  <2>1. \A j \in 1..((Len(s) + 1) - 1) : t[j] \in Ahead
    BY <1>1 DEF Only
  <2>2. \A j \in ((Len(s) + 1) + 1)..Len(t) : t[j] \in Ordinary
    BY <1>1
  <2> QED BY <1>1, <2>1, <2>2 DEF Greeted
<1>5. \A k : Without(s, k) /\ x.kind # k => Without(t, k)
  BY <1>1 DEF Without
<1>6. Without(s, "login") => OneLogin(t)
  BY <1>1 DEF Without, OneLogin
<1>7. OneLogin(s) /\ x.kind # "login" => OneLogin(t)
  BY <1>1 DEF OneLogin
<1>8. \A q : AllFit(s, q) /\ Fit(x, q) => AllFit(t, q)
  BY <1>1 DEF AllFit
<1>9. \A S : Count(t, S) = Count(s, S) + (IF x \in S THEN 1 ELSE 0)
  <2> TAKE S
  <2>1. At(t, S) = IF x \in S THEN At(s, S) \cup {Len(s) + 1} ELSE At(s, S)
    BY <1>1 DEF At
  <2>2. Len(s) + 1 \notin At(s, S)
    BY <1>1 DEF At
  <2>3. IsFiniteSet(At(s, S)) /\ Count(s, S) \in Nat
    BY CountNat
  <2>4. CASE x \in S
    BY <2>1, <2>2, <2>3, <2>4, FS_AddElement DEF Count
  <2>5. CASE x \notin S
    BY <2>1, <2>3, <2>5 DEF Count
  <2> QED BY <2>4, <2>5
<1> QED
  BY <1>1, <1>2, <1>3, <1>4, <1>5, <1>6, <1>7, <1>8, <1>9 DEF t

LEMMA TailFacts ==
    ASSUME NEW R, NEW s \in Seq(R), s # <<>>
    PROVE  /\ Head(s) \in R /\ Tail(s) \in Seq(R) /\ Len(Tail(s)) = Len(s) - 1
           /\ \A S : Only(s, S) => Only(Tail(s), S) /\ Head(s) \in S
           /\ Greeted(s) => IF Head(s) \in Welcomed THEN Only(Tail(s), Ordinary)
                            ELSE Head(s) \in Ahead /\ Greeted(Tail(s))
           /\ \A k : Without(s, k) => Without(Tail(s), k) /\ Head(s).kind # k
           /\ OneLogin(s) => OneLogin(Tail(s))
           /\ OneLogin(s) /\ Head(s).kind = "login" => Without(Tail(s), "login")
           /\ \A k : Without(Tail(s), k) /\ Head(s).kind # k => Without(s, k)
           /\ \A q : AllFit(s, q) => AllFit(Tail(s), q)
           /\ \A S : Count(s, S) = Count(Tail(s), S) + (IF Head(s) \in S THEN 1 ELSE 0)
<1> DEFINE t == Tail(s)
<1>1. /\ Head(s) \in R /\ t \in Seq(R) /\ Len(t) = Len(s) - 1
      /\ Len(s) \in Nat \ {0} /\ Head(s) = s[1] /\ 1 \in 1..Len(s)
      /\ \A i \in 1..Len(t) : t[i] = s[i + 1] /\ i + 1 \in 1..Len(s)
      /\ \A i \in 1..Len(s) : i # 1 => i - 1 \in 1..Len(t) /\ t[i - 1] = s[i]
  OBVIOUS
<1> HIDE DEF t
<1>2. \A S : Only(s, S) => Only(t, S) /\ Head(s) \in S
  BY <1>1 DEF Only
<1>3. Greeted(s) => IF Head(s) \in Welcomed THEN Only(t, Ordinary)
                    ELSE Head(s) \in Ahead /\ Greeted(t)
  <2> SUFFICES ASSUME Greeted(s)
               PROVE  IF Head(s) \in Welcomed THEN Only(t, Ordinary)
                      ELSE Head(s) \in Ahead /\ Greeted(t)
    OBVIOUS
  <2>1. PICK i \in 1..Len(s) : /\ s[i] \in Welcomed
                               /\ \A j \in 1..(i - 1) : s[j] \in Ahead
                               /\ \A j \in (i + 1)..Len(s) : s[j] \in Ordinary
    BY DEF Greeted
  <2>2. CASE i = 1
    <3>1. \A j \in 1..Len(t) : j + 1 \in (i + 1)..Len(s)
      BY <1>1, <2>2
    <3> QED BY <1>1, <2>1, <2>2, <3>1 DEF Only
  <2>3. CASE i # 1
    <3>1. Head(s) \in Ahead /\ Head(s) \notin Welcomed
      <4>1. Head(s) \in Ahead
        BY <1>1, <2>1, <2>3
      <4> QED BY <4>1, LineFacts
    <3>2. i - 1 \in 1..Len(t) /\ t[i - 1] \in Welcomed
      BY <1>1, <2>1, <2>3
    <3>3. \A j \in 1..((i - 1) - 1) : t[j] \in Ahead
      <4>1. \A j \in 1..((i - 1) - 1) : j \in 1..Len(t) /\ j + 1 \in 1..(i - 1)
        BY <1>1, <2>1, <2>3
      <4> QED BY <1>1, <2>1, <4>1
    <3>4. \A j \in ((i - 1) + 1)..Len(t) : t[j] \in Ordinary
      <4>1. \A j \in ((i - 1) + 1)..Len(t) : j \in 1..Len(t) /\ j + 1 \in (i + 1)..Len(s)
        BY <1>1, <2>1, <2>3
      <4> QED BY <1>1, <2>1, <4>1
    <3> QED BY <3>1, <3>2, <3>3, <3>4 DEF Greeted
  <2> QED BY <2>2, <2>3
<1>4. \A k : Without(s, k) => Without(t, k) /\ Head(s).kind # k
  BY <1>1 DEF Without
<1>5. OneLogin(s) => OneLogin(t)
  BY <1>1 DEF OneLogin
<1>6. OneLogin(s) /\ Head(s).kind = "login" => Without(t, "login")
  BY <1>1 DEF OneLogin, Without
<1>7. \A k : Without(t, k) /\ Head(s).kind # k => Without(s, k)
  <2> TAKE k
  <2> SUFFICES ASSUME Without(t, k), Head(s).kind # k, NEW i \in 1..Len(s)
               PROVE  s[i].kind # k
    BY DEF Without
  <2>1. CASE i = 1
    BY <1>1, <2>1
  <2>2. CASE i # 1
    <3>1. i - 1 \in 1..Len(t) /\ t[i - 1] = s[i]
      BY <1>1, <2>2
    <3> QED BY <3>1 DEF Without
  <2> QED BY <2>1, <2>2
<1>8. \A q : AllFit(s, q) => AllFit(t, q)
  BY <1>1 DEF AllFit
<1>9. \A S : Count(s, S) = Count(t, S) + (IF Head(s) \in S THEN 1 ELSE 0)
  <2> TAKE S
  <2> DEFINE moved == At(s, S) \ {1}
             f == [i \in At(t, S) |-> i + 1]
  <2>1. \A i \in At(t, S) : i \in Int /\ i + 1 \in moved
    BY <1>1 DEF At
  <2>2. \A j \in moved : j - 1 \in At(t, S) /\ j \in Int
    BY <1>1 DEF At
  <2>3. ExistsBijection(At(t, S), moved)
    <3> HIDE DEF moved
    <3>1. f \in [At(t, S) -> moved]
      BY <2>1
    <3>2. \A a, b \in At(t, S) : f[a] = f[b] => a = b
      BY <2>1
    <3>3. \A j \in moved : \E i \in At(t, S) : f[i] = j
      <4> TAKE j \in moved
      <4>1. j - 1 \in At(t, S) /\ f[j - 1] = j
        BY <2>2
      <4> QED BY <4>1
    <3> HIDE DEF f
    <3> QED BY <3>1, <3>2, <3>3 DEF ExistsBijection, Bijection, Injection, IsInjective,
                                    Surjection
  <2>4. IsFiniteSet(At(t, S)) /\ Count(t, S) \in Nat
    BY <1>1, CountNat
  <2>5. IsFiniteSet(moved) /\ Cardinality(moved) = Count(t, S)
    BY <2>3, <2>4, FS_Bijection DEF Count
  <2>6. At(s, S) = IF Head(s) \in S THEN moved \cup {1} ELSE moved
    BY <1>1 DEF At
  <2> HIDE DEF moved
  <2>7. 1 \notin moved
    BY DEF moved
  <2>8. CASE Head(s) \in S
    BY <2>4, <2>5, <2>6, <2>7, <2>8, FS_AddElement DEF Count
  <2>9. CASE Head(s) \notin S
    BY <2>4, <2>5, <2>6, <2>9 DEF Count
  <2> QED BY <2>8, <2>9
<1> QED
  BY <1>1, <1>2, <1>3, <1>4, <1>5, <1>6, <1>7, <1>8, <1>9 DEF t

-----------------------------------------------------------------------------
(* Type correctness.                                                       *)

LEMMA ConstantFacts ==
    /\ None \notin Pools /\ None \notin Files /\ None \notin Nat
    /\ MaxWire \in Nat \ {0} /\ MaxShares \in Nat /\ MaxFaults \in Nat
    /\ Pools \subseteq {0, 1}
<1>1. Pools \subseteq {0, 1} /\ None \notin Files /\ None \notin Nat
  BY SessionAssumption
<1>2. MaxWire \in Nat \ {0} /\ MaxShares \in Nat /\ MaxFaults \in Nat
  BY SessionAssumption
<1>3. None \notin Pools
  <2>1. {0, 1} \subseteq Nat
    OBVIOUS
  <2> QED BY <1>1, <2>1
<1> QED
  BY <1>1, <1>2, <1>3

LEMMA HandFacts ==
    /\ \A p \in Pools : Fresh(p) \in Hands
    /\ \A h \in Hands, b, c \in BOOLEAN :
          /\ [h EXCEPT !.steady = b] \in Hands
          /\ [h EXCEPT !.current = b] \in Hands
          /\ [h EXCEPT !.formed = TRUE, !.current = b, !.steady = c] \in Hands
BY DEF Hands, Fresh

LEMMA RequestFacts ==
    /\ [kind |-> "login"] \in Requests /\ [kind |-> "keepalived"] \in Requests
    /\ \A p \in Pools, a, b, c \in BOOLEAN :
          [kind |-> "submit", from |-> p, orphan |-> a, current |-> b, steady |-> c]
             \in Requests
BY DEF Requests, ShareLines

LEMMA ReplyFacts == {Accepts, AcceptsBare, Refuses, Alive, Job(TRUE), Job(FALSE),
                     Welcome, WelcomeBut} \subseteq Lines
BY DEF Lines

\* A line that is sent comes to the pool that has the descriptor, if to any.
LEMMA SentFacts ==
    ASSUME TypeOK, NEW f \in Files \cup {None}, NEW line \in Requests, Sent(f, line)
    PROVE  /\ f \in Files /\ file[f] \in Pools
           /\ toPool' \in [Pools -> Seq(Requests)]
           /\ \/ /\ link[file[f]] = "up" /\ Len(toPool[file[f]]) < MaxWire
                 /\ toPool' = [toPool EXCEPT ![file[f]] = Append(toPool[file[f]], line)]
                 /\ toPool'[file[f]] = Append(toPool[file[f]], line)
                 /\ \A q \in Pools : q # file[f] => toPool'[q] = toPool[q]
              \/ link[file[f]] = "lost" /\ toPool' = toPool
           /\ \A q \in Pools : Len(toPool'[q]) <= MaxWire
<1>1. /\ file \in [Files -> Pools \cup {None}] /\ toPool \in [Pools -> Seq(Requests)]
      /\ \A q \in Pools : Len(toPool[q]) <= MaxWire
  BY DEF TypeOK
<1>2. f \in Files /\ file[f] \in Pools
  BY <1>1 DEF Sent
<1>3. CASE /\ link[file[f]] = "up" /\ Len(toPool[file[f]]) < MaxWire
           /\ toPool' = [toPool EXCEPT ![file[f]] = Append(@, line)]
  <2>1. PICK q \in Pools : q = file[f]
    BY <1>2
  <2>2. /\ Append(toPool[q], line) \in Seq(Requests)
        /\ Len(Append(toPool[q], line)) = Len(toPool[q]) + 1
        /\ Len(toPool[q]) \in Nat
    BY <1>1
  <2>3. toPool' \in [Pools -> Seq(Requests)] /\ toPool'[q] = Append(toPool[q], line)
        /\ \A r \in Pools : r # q => toPool'[r] = toPool[r]
    BY <1>1, <1>3, <2>1, <2>2
  <2>4. \A r \in Pools : Len(toPool'[r]) <= MaxWire
    BY <1>1, <1>3, <2>1, <2>2, <2>3, ConstantFacts
  <2> QED BY <1>2, <1>3, <2>1, <2>3, <2>4
<1>4. CASE link[file[f]] = "lost" /\ UNCHANGED toPool
  BY <1>1, <1>2, <1>4
<1> QED
  BY <1>3, <1>4 DEF Sent

\* A line that is read, and a reply.
LEMMA ReadFacts ==
    ASSUME TypeOK, NEW p \in Pools, ReadLine(p)
    PROVE  /\ toMiner' \in [Pools -> Seq(Lines)] /\ Head(toMiner[p]) \in Lines
           /\ toMiner[p] # <<>> /\ toMiner'[p] = Tail(toMiner[p])
           /\ \A q \in Pools : q # p => toMiner'[q] = toMiner[q]
           /\ \A q \in Pools : Len(toMiner'[q]) <= MaxWire
<1>1. /\ toMiner \in [Pools -> Seq(Lines)]
      /\ \A q \in Pools : Len(toMiner[q]) <= MaxWire /\ Len(toMiner[q]) \in Nat
  BY DEF TypeOK
<1>2. /\ toMiner[p] # <<>> /\ Tail(toMiner[p]) \in Seq(Lines) /\ Head(toMiner[p]) \in Lines
      /\ Len(Tail(toMiner[p])) = Len(toMiner[p]) - 1
  BY <1>1, TailFacts DEF ReadLine
<1>3. /\ toMiner' \in [Pools -> Seq(Lines)] /\ toMiner'[p] = Tail(toMiner[p])
      /\ \A q \in Pools : q # p => toMiner'[q] = toMiner[q]
  BY <1>1, <1>2 DEF ReadLine
<1>4. \A q \in Pools : Len(toMiner'[q]) <= MaxWire
  BY <1>1, <1>2, <1>3, ConstantFacts
<1> QED BY <1>2, <1>3, <1>4

LEMMA RepliesFacts ==
    ASSUME TypeOK, NEW p \in Pools, NEW line \in Lines, Replies(p, line),
           Len(toMiner[p]) < MaxWire
    PROVE  /\ toMiner' \in [Pools -> Seq(Lines)]
           /\ toMiner'[p] = Append(toMiner[p], line)
           /\ \A q \in Pools : q # p => toMiner'[q] = toMiner[q]
           /\ \A q \in Pools : Len(toMiner'[q]) <= MaxWire
<1>1. /\ toMiner \in [Pools -> Seq(Lines)]
      /\ \A q \in Pools : Len(toMiner[q]) <= MaxWire /\ Len(toMiner[q]) \in Nat
  BY DEF TypeOK
<1>2. /\ Append(toMiner[p], line) \in Seq(Lines)
      /\ Len(Append(toMiner[p], line)) = Len(toMiner[p]) + 1
  BY <1>1
<1>3. /\ toMiner' \in [Pools -> Seq(Lines)] /\ toMiner'[p] = Append(toMiner[p], line)
      /\ \A q \in Pools : q # p => toMiner'[q] = toMiner[q]
  BY <1>1, <1>2 DEF Replies
<1>4. \A q \in Pools : Len(toMiner'[q]) <= MaxWire
  BY <1>1, <1>2, <1>3, ConstantFacts
<1> QED BY <1>3, <1>4

\* A greeting is a welcome, ahead of which there may be a job.
LEMMA GreetingFacts ==
    ASSUME NEW s \in Seq(Lines), NEW lines \in Greetings
    PROVE  \/ \E w \in Welcomed : s \o lines = Append(s, w) /\ Len(lines) = 1
           \/ \E w \in Welcomed, j \in {Job(TRUE), Job(FALSE)} :
                 s \o lines = Append(Append(s, j), w) /\ Len(lines) = 2
<1>1. \A x, y : s \o <<x>> = Append(s, x) /\ s \o <<x, y>> = Append(Append(s, x), y)
                /\ Len(<<x>>) = 1 /\ Len(<<x, y>>) = 2
  OBVIOUS
<1>2. CASE lines = <<Welcome>>
  BY <1>1, <1>2 DEF Welcomed
<1>3. CASE lines = <<Job(TRUE), WelcomeBut>>
  BY <1>1, <1>3 DEF Welcomed
<1>4. CASE lines = <<Job(FALSE), Welcome>>
  BY <1>1, <1>4 DEF Welcomed
<1> QED
  BY <1>2, <1>3, <1>4 DEF Greetings

LEMMA FaultFacts ==
    ASSUME faults \in 0..MaxFaults, Fault PROVE faults' \in 0..MaxFaults
BY ConstantFacts DEF Fault

LEMMA DisconnectKeepsType ==
    ASSUME TypeOK, NEW p \in Pools, Disconnect(p)
    PROVE  /\ pc' \in [Pools -> {"down", "connect", "login", "await"} \cup InSession]
           /\ file' \in [Files -> Pools \cup {None}]
           /\ link' \in [Pools -> {"none", "opening", "up", "lost"}]
           /\ toPool' \in [Pools -> Seq(Requests)] /\ toMiner' \in [Pools -> Seq(Lines)]
           /\ \A q \in Pools : Len(toPool'[q]) <= MaxWire /\ Len(toMiner'[q]) <= MaxWire
           /\ known' \in [Pools -> BOOLEAN]
           /\ hand' \in Hands \cup {None}
           /\ toPool'[p] = <<>> /\ toMiner'[p] = <<>>
           /\ \A q \in Pools : q # p => toPool'[q] = toPool[q] /\ toMiner'[q] = toMiner[q]
<1> USE DEF TypeOK
<1>1. /\ pc' \in [Pools -> {"down", "connect", "login", "await"} \cup InSession]
      /\ file' \in [Files -> Pools \cup {None}]
      /\ link' \in [Pools -> {"none", "opening", "up", "lost"}]
      /\ known' \in [Pools -> BOOLEAN]
  BY DEF Disconnect, Goto
<1>2. /\ toPool' \in [Pools -> Seq(Requests)] /\ toMiner' \in [Pools -> Seq(Lines)]
      /\ toPool'[p] = <<>> /\ toMiner'[p] = <<>>
      /\ \A q \in Pools : q # p => toPool'[q] = toPool[q] /\ toMiner'[q] = toMiner[q]
  BY DEF Disconnect
<1>3. \A q \in Pools : Len(toPool'[q]) <= MaxWire /\ Len(toMiner'[q]) <= MaxWire
  <2>1. Len(<<>>) <= MaxWire
    BY ConstantFacts
  <2> QED BY <1>2, <2>1
<1>4. hand' \in Hands \cup {None}
  BY HandFacts DEF Disconnect
<1> QED
  BY <1>1, <1>2, <1>3, <1>4

\* The same for a whole step that disconnects and leaves the rest alone.
LEMMA DisconnectingKeepsType ==
    ASSUME TypeOK, NEW p \in Pools, Disconnect(p), faults' \in 0..MaxFaults,
           UNCHANGED <<sock, good, bad, countVars, idCurrent, working, shares>>
    PROVE  TypeOK'
<1>1. /\ pc' \in [Pools -> {"down", "connect", "login", "await"} \cup InSession]
      /\ file' \in [Files -> Pools \cup {None}]
      /\ link' \in [Pools -> {"none", "opening", "up", "lost"}]
      /\ toPool' \in [Pools -> Seq(Requests)] /\ toMiner' \in [Pools -> Seq(Lines)]
      /\ \A q \in Pools : Len(toPool'[q]) <= MaxWire /\ Len(toMiner'[q]) <= MaxWire
      /\ known' \in [Pools -> BOOLEAN]
      /\ hand' \in Hands \cup {None}
  BY DisconnectKeepsType
<1>2. /\ sock' \in [Pools -> Files \cup {None}]
      /\ idCurrent' \in [Pools -> BOOLEAN] /\ working' \in [Pools -> BOOLEAN]
      /\ accepted' \in Nat /\ rejected' \in Nat /\ good' \in Nat /\ bad' \in Nat
      /\ answer' \in [Pools -> [valid : BOOLEAN, old : Nat] \cup {None}]
      /\ shares' \in 0..MaxShares /\ faults' \in 0..MaxFaults
  BY DEF TypeOK, countVars
<1> QED
  BY ONLY <1>1, <1>2 DEF TypeOK

\* A verdict is there from the answer until it is counted.
AnswerInv == \A p \in Pools : pc[p] = "count" <=> answer[p] # None

LEMMA ThreadKeepsType ==
    ASSUME TypeOK, AnswerInv, NEW p \in Pools, ThreadStep(p)
    PROVE  TypeOK'
<1> USE DEF threadVars, netVars, poolVars, countVars, InSession
<1>1. CASE Connect(p)
  BY <1>1 DEF TypeOK, Connect, Free, Goto
<1>2. CASE Connected(p)
  BY <1>2 DEF TypeOK, Connected, Goto
<1>3. CASE GiveUp(p)
  <2>1. Disconnect(p) /\ UNCHANGED <<sock, good, bad, countVars, idCurrent, working, shares>>
    BY <1>3 DEF GiveUp
  <2>2. faults' \in 0..MaxFaults
    BY <1>3, FaultFacts DEF GiveUp, TypeOK
  <2> QED BY <2>1, <2>2, DisconnectingKeepsType
<1>4. CASE SendLogin(p)
  <2>1. /\ toPool' \in [Pools -> Seq(Requests)]
        /\ \A q \in Pools : Len(toPool'[q]) <= MaxWire
    BY <1>4, SentFacts, RequestFacts DEF SendLogin, TypeOK
  <2> QED BY <1>4, <2>1 DEF TypeOK, SendLogin, Goto
<1>5. CASE JobWhileAwaiting(p)
  <2>1. working' \in [Pools -> BOOLEAN]
    BY <1>5 DEF TypeOK, JobWhileAwaiting
  <2>2. /\ toMiner' \in [Pools -> Seq(Lines)]
        /\ \A q \in Pools : Len(toMiner'[q]) <= MaxWire
    BY <1>5, ReadFacts DEF JobWhileAwaiting
  <2>3. UNCHANGED <<threadVars, link, toPool, poolVars, countVars, idCurrent, hand,
                    shares, faults>>
    BY <1>5 DEF JobWhileAwaiting
  <2> QED BY <2>1, <2>2, <2>3 DEF TypeOK
<1>6. CASE LoginAnswered(p)
  <2>1. UNCHANGED <<sock, good, bad, countVars, shares, faults>>
    BY <1>6 DEF LoginAnswered
  <2>2. CASE /\ LoginSucceeds(p, Head(toMiner[p]))
             /\ ReadLine(p)
             /\ Goto(p, "receive")
             /\ UNCHANGED <<file, link, toPool, known, hand>>
    <3>1. Head(toMiner[p]) \in Lines /\ Head(toMiner[p]).hasId \in BOOLEAN
      BY <2>2, ReadFacts, LineFacts DEF LoginSucceeds
    <3>2. idCurrent' \in [Pools -> BOOLEAN] /\ working' \in [Pools -> BOOLEAN]
      BY <2>2, <3>1 DEF LoginSucceeds, TypeOK
    <3>3. pc' \in [Pools -> {"down", "connect", "login", "await"} \cup InSession]
      BY <2>2 DEF Goto, TypeOK
    <3> QED BY <2>1, <2>2, <3>2, <3>3, ReadFacts DEF TypeOK
  <2>3. CASE Disconnect(p) /\ UNCHANGED <<idCurrent, working>>
    <3>1. faults' \in 0..MaxFaults
      BY <2>1 DEF TypeOK
    <3> QED BY <2>1, <2>3, <3>1, DisconnectingKeepsType
  <2> QED BY <1>6, <2>2, <2>3 DEF LoginAnswered
<1>7. CASE SendKeepalive(p)
  <2>1. /\ toPool' \in [Pools -> Seq(Requests)]
        /\ \A q \in Pools : Len(toPool'[q]) <= MaxWire
    BY <1>7, SentFacts, RequestFacts DEF SendKeepalive, TypeOK
  <2> QED BY <1>7, <2>1 DEF TypeOK, SendKeepalive
<1>8. CASE Receive(p)
  <2> DEFINE line == Head(toMiner[p])
             verdict == [valid |-> Valid(line),
                         old |-> IF Valid(line) THEN accepted ELSE rejected]
  <2>1. verdict \in [valid : BOOLEAN, old : Nat]
    BY DEF TypeOK, Valid
  <2>2. /\ working' \in [Pools -> BOOLEAN]
        /\ pc' \in [Pools -> {"down", "connect", "login", "await"} \cup InSession]
        /\ answer' \in [Pools -> [valid : BOOLEAN, old : Nat] \cup {None}]
    <3> HIDE DEF verdict
    <3>1. /\ working' = [working EXCEPT ![p] = @ \/ line = Job(TRUE)]
          /\ \/ answer' = [answer EXCEPT ![p] = verdict] /\ Goto(p, "count")
             \/ UNCHANGED <<pc, answer>>
      BY <1>8 DEF Receive, verdict
    <3>2. working' \in [Pools -> BOOLEAN]
      <4>1. (working[p] \/ line = Job(TRUE)) \in BOOLEAN
        OBVIOUS
      <4> HIDE DEF line
      <4> QED BY <3>1, <4>1 DEF TypeOK
    <3>3. /\ pc' \in [Pools -> {"down", "connect", "login", "await"} \cup InSession]
          /\ answer' \in [Pools -> [valid : BOOLEAN, old : Nat] \cup {None}]
      <4>1. CASE answer' = [answer EXCEPT ![p] = verdict] /\ Goto(p, "count")
        BY <2>1, <4>1 DEF TypeOK, Goto
      <4>2. CASE UNCHANGED <<pc, answer>>
        BY <4>2 DEF TypeOK
      <4> QED BY <3>1, <4>1, <4>2
    <3> QED BY <3>2, <3>3
  <2>3. UNCHANGED <<sock, file, link, toPool, poolVars, idCurrent, accepted,
                    rejected, hand, shares, faults>> /\ ReadLine(p)
    BY <1>8 DEF Receive
  <2>4. /\ toMiner' \in [Pools -> Seq(Lines)]
        /\ \A q \in Pools : Len(toMiner'[q]) <= MaxWire
    BY <2>3, ReadFacts
  <2> QED BY <2>2, <2>3, <2>4 DEF TypeOK
<1>9. CASE ShareResult(p)
  <2>1. /\ answer' \in [Pools -> [valid : BOOLEAN, old : Nat] \cup {None}]
        /\ pc' \in [Pools -> {"down", "connect", "login", "await"} \cup InSession]
    BY <1>9 DEF TypeOK, ShareResult, Goto
  <2>2. answer[p].old \in Nat
    BY <1>9 DEF TypeOK, AnswerInv, ShareResult
  <2>3. accepted' \in Nat /\ rejected' \in Nat
    BY <1>9, <2>2 DEF TypeOK, ShareResult
  <2> QED BY <1>9, <2>1, <2>3 DEF TypeOK, ShareResult
<1> QED
  BY <1>1, <1>2, <1>3, <1>4, <1>5, <1>6, <1>7, <1>8, <1>9 DEF ThreadStep

LEMMA SubmitKeepsType ==
    ASSUME TypeOK, SubmitStep
    PROVE  TypeOK'
<1> USE DEF threadVars, netVars, poolVars, countVars
<1>1. hand # None => hand \in Hands /\ hand.pool \in Pools
                     /\ hand.current \in BOOLEAN /\ hand.steady \in BOOLEAN
  BY DEF TypeOK, Hands
<1>2. CASE FormShare
  <2>1. hand' \in Hands
    <3>1. /\ idCurrent[hand.pool] \in BOOLEAN
          /\ (pc[hand.pool] \in InSession) \in BOOLEAN
      BY <1>1, <1>2 DEF FormShare, TypeOK
    <3> QED BY <1>1, <1>2, <3>1, HandFacts DEF FormShare
  <2> QED BY <1>2, <2>1 DEF FormShare, TypeOK
<1>3. CASE SendShare
  <2> DEFINE line == [kind |-> "submit", from |-> hand.pool,
                      orphan |-> pc[hand.pool] = "down",
                      current |-> hand.current, steady |-> hand.steady]
  <2>1. line \in Requests /\ sock[hand.pool] \in Files \cup {None}
    BY <1>1, <1>3, RequestFacts DEF SendShare, TypeOK
  <2>2. Sent(sock[hand.pool], line)
    BY <1>3 DEF SendShare
  <2> HIDE DEF line
  <2>3. /\ toPool' \in [Pools -> Seq(Requests)]
        /\ \A q \in Pools : Len(toPool'[q]) <= MaxWire
    BY <2>1, <2>2, SentFacts
  <2> QED BY <1>3, <2>3 DEF SendShare, TypeOK
<1>4. CASE SendShareFails
  <2>1. hand' \in Hands
    BY <1>1, <1>4, HandFacts DEF SendShareFails
  <2> QED BY <1>4, <2>1 DEF SendShareFails, TypeOK
<1> QED
  BY <1>2, <1>3, <1>4 DEF SubmitStep

LEMMA AnswersKeepType ==
    ASSUME TypeOK, NEW p \in Pools, PoolAnswers(p)
    PROVE  TypeOK'
<1> USE DEF threadVars, netVars, poolVars, countVars
<1>1. /\ toPool' \in [Pools -> Seq(Requests)]
      /\ \A q \in Pools : Len(toPool'[q]) <= MaxWire
  <2>1. /\ Tail(toPool[p]) \in Seq(Requests) /\ Len(Tail(toPool[p])) <= MaxWire
    <3>1. /\ toPool[p] \in Seq(Requests) /\ toPool[p] # <<>>
          /\ Len(toPool[p]) \in Nat /\ Len(toPool[p]) <= MaxWire
      BY DEF PoolAnswers, TypeOK
    <3> QED BY <3>1, TailFacts, ConstantFacts
  <2>2. toPool' = [toPool EXCEPT ![p] = Tail(@)]
    BY DEF PoolAnswers
  <2> QED BY <2>1, <2>2 DEF TypeOK
<1>2. UNCHANGED <<threadVars, link, countVars, working, shares>>
  BY DEF PoolAnswers
<1> DEFINE Rest == /\ toMiner' \in [Pools -> Seq(Lines)]
                   /\ \A q \in Pools : Len(toMiner'[q]) <= MaxWire
                   /\ known' \in [Pools -> BOOLEAN]
                   /\ idCurrent' \in [Pools -> BOOLEAN]
                   /\ hand' \in Hands \cup {None}
                   /\ good' \in Nat /\ bad' \in Nat
                   /\ faults' \in 0..MaxFaults
<1>3. ASSUME NEW line \in Lines, Replies(p, line), UNCHANGED <<known, idCurrent, hand>>,
             good' \in Nat, bad' \in Nat, faults' \in 0..MaxFaults
      PROVE  Rest
  BY <1>3, RepliesFacts DEF TypeOK, PoolAnswers
<1>4. ASSUME NEW lines \in Greetings,
             Len(toMiner[p]) + Len(lines) <= MaxWire,
             toMiner' = [toMiner EXCEPT ![p] = @ \o lines],
             IF Job(FALSE) \in ToSet(lines) THEN Fault ELSE UNCHANGED faults,
             Welcomes(p), UNCHANGED <<good, bad>>
      PROVE  Rest
  <2>1. toMiner[p] \in Seq(Lines) /\ Len(toMiner[p]) \in Nat
    BY DEF TypeOK
  <2>2. /\ toMiner[p] \o lines \in Seq(Lines)
        /\ Len(toMiner[p] \o lines) = Len(toMiner[p]) + Len(lines)
    <3>1. CASE \E w \in Welcomed :
                  toMiner[p] \o lines = Append(toMiner[p], w) /\ Len(lines) = 1
      BY <2>1, <3>1, AppendFacts, LineFacts
    <3>2. ASSUME NEW w \in Welcomed, NEW j \in {Job(TRUE), Job(FALSE)},
                 toMiner[p] \o lines = Append(Append(toMiner[p], j), w), Len(lines) = 2
          PROVE  /\ toMiner[p] \o lines \in Seq(Lines)
                 /\ Len(toMiner[p] \o lines) = Len(toMiner[p]) + Len(lines)
      <4>1. j \in Lines /\ w \in Lines
        BY LineFacts, ReplyFacts
      <4>2. /\ Append(toMiner[p], j) \in Seq(Lines)
            /\ Len(Append(toMiner[p], j)) = Len(toMiner[p]) + 1
        BY <2>1, <4>1
      <4>3. /\ Append(Append(toMiner[p], j), w) \in Seq(Lines)
            /\ Len(Append(Append(toMiner[p], j), w)) = Len(toMiner[p]) + 1 + 1
        BY <4>1, <4>2
      <4> QED BY <2>1, <3>2, <4>3
    <3> QED BY <2>1, <3>1, <3>2, GreetingFacts
  <2>3. toMiner' \in [Pools -> Seq(Lines)] /\ \A q \in Pools : Len(toMiner'[q]) <= MaxWire
    BY <1>4, <2>2 DEF TypeOK
  <2>4. faults' \in 0..MaxFaults
    BY <1>4, FaultFacts DEF TypeOK
  <2>5. known' \in [Pools -> BOOLEAN] /\ idCurrent' \in [Pools -> BOOLEAN]
    BY <1>4 DEF TypeOK, Welcomes
  <2>6. hand' \in Hands \cup {None}
    BY <1>4, HandFacts DEF TypeOK, Welcomes
  <2> QED BY <1>4, <2>3, <2>4, <2>5, <2>6 DEF TypeOK
<1>5. good \in Nat /\ bad \in Nat /\ faults \in 0..MaxFaults
      /\ (faults' = faults \/ Fault => faults' \in 0..MaxFaults)
  BY FaultFacts DEF TypeOK
<1>6. Rest
  <2> HIDE DEF Rest
  <2> USE ReplyFacts
  <2>1. CASE \E lines \in Greetings :
                   /\ Len(toMiner[p]) + Len(lines) <= MaxWire
                   /\ toMiner' = [toMiner EXCEPT ![p] = @ \o lines]
                   /\ IF Job(FALSE) \in ToSet(lines) THEN Fault ELSE UNCHANGED faults
                   /\ Welcomes(p) /\ UNCHANGED <<good, bad>>
    BY <1>4, <2>1
  <2>2. CASE Fault /\ Replies(p, Refuses) /\ UNCHANGED <<known, idCurrent, hand, good, bad>>
    BY <1>3, <1>5, <2>2
  <2>3. CASE /\ Replies(p, Accepts) /\ good' = good + 1
             /\ UNCHANGED <<known, idCurrent, hand, bad, faults>>
    BY <1>3, <1>5, <2>3
  <2>4. CASE /\ \E line \in {Refuses} \cup (IF known[p] THEN {AcceptsBare} ELSE {}) :
                   Replies(p, line)
             /\ bad' = bad + 1 /\ UNCHANGED <<known, idCurrent, hand, good, faults>>
    BY <1>3, <1>5, <2>4
  <2>5. CASE Replies(p, Alive) /\ UNCHANGED <<known, idCurrent, hand, good, bad, faults>>
    BY <1>3, <1>5, <2>5
  <2> QED BY <2>1, <2>2, <2>3, <2>4, <2>5 DEF PoolAnswers
<1> QED
  BY <1>1, <1>2, <1>6 DEF TypeOK

\* The variables keep their types, and a verdict is there to be counted whenever
\* share_result is at it.
LEMMA StepKeepsType ==
    ASSUME TypeOK, AnswerInv, [Next]_vars
    PROVE  TypeOK'
<1> USE DEF threadVars, netVars, poolVars, countVars
<1>1. CASE UNCHANGED vars
  BY <1>1 DEF vars, TypeOK
<1>2. ASSUME NEW p \in Pools, TakeShare(p) PROVE TypeOK'
  <2>1. shares' \in 0..MaxShares
    BY <1>2, ConstantFacts DEF TakeShare, TypeOK
  <2> QED BY <1>2, <2>1, HandFacts DEF TakeShare, TypeOK
<1>3. ASSUME NEW p \in Pools, PoolSendsJob(p) PROVE TypeOK'
  <2>1. Len(toMiner[p]) < MaxWire
    BY <1>3, ConstantFacts DEF PoolSendsJob
  <2> QED BY <1>3, <2>1, RepliesFacts, ReplyFacts DEF PoolSendsJob, TypeOK
<1>4. ASSUME NEW p \in Pools, LoseLink(p) PROVE TypeOK'
  <2>1. /\ toPool' \in [Pools -> Seq(Requests)] /\ toMiner' \in [Pools -> Seq(Lines)]
        /\ \A q \in Pools : Len(toPool'[q]) <= MaxWire /\ Len(toMiner'[q]) <= MaxWire
    <3>1. Len(<<>>) <= MaxWire
      BY ConstantFacts
    <3>2. /\ toPool' = [toPool EXCEPT ![p] = <<>>]
          /\ toMiner' = toMiner \/ toMiner' = [toMiner EXCEPT ![p] = <<>>]
      BY <1>4 DEF LoseLink
    <3>3. toPool' \in [Pools -> Seq(Requests)] /\ \A q \in Pools : Len(toPool'[q]) <= MaxWire
      BY <3>1, <3>2 DEF TypeOK
    <3>4. toMiner' \in [Pools -> Seq(Lines)] /\ \A q \in Pools : Len(toMiner'[q]) <= MaxWire
      <4>1. CASE toMiner' = toMiner
        BY <4>1 DEF TypeOK
      <4>2. CASE toMiner' = [toMiner EXCEPT ![p] = <<>>]
        BY <3>1, <4>2 DEF TypeOK
      <4> QED BY <3>2, <4>1, <4>2
    <3> QED BY <3>3, <3>4
  <2>2. /\ link' \in [Pools -> {"none", "opening", "up", "lost"}]
        /\ known' \in [Pools -> BOOLEAN]
    BY <1>4 DEF LoseLink, TypeOK
  <2>3. faults' \in 0..MaxFaults
    BY <1>4, FaultFacts DEF LoseLink, TypeOK
  <2>4. UNCHANGED <<threadVars, good, bad, countVars, idCurrent, working, hand, shares>>
    BY <1>4 DEF LoseLink
  <2> QED BY <2>1, <2>2, <2>3, <2>4 DEF TypeOK
<1> QED
  BY <1>1, <1>2, <1>3, <1>4, ThreadKeepsType, SubmitKeepsType, AnswersKeepType DEF Next

LEMMA StepKeepsAnswer ==
    ASSUME TypeOK, AnswerInv, [Next]_vars
    PROVE  AnswerInv'
<1> USE DEF threadVars, netVars, poolVars, countVars
<1>1. /\ pc \in [Pools -> {"down", "connect", "login", "await"} \cup InSession]
      /\ answer \in [Pools -> [valid : BOOLEAN, old : Nat] \cup {None}]
  BY DEF TypeOK
<1>2. ASSUME UNCHANGED <<pc, answer>> PROVE AnswerInv'
  BY <1>2 DEF AnswerInv
<1>3. ASSUME NEW p \in Pools, NEW l \in {"down", "connect", "login", "await", "receive"},
             pc[p] # "count", Goto(p, l), UNCHANGED answer
      PROVE  AnswerInv'
  BY <1>1, <1>3 DEF AnswerInv, Goto
<1>4. ASSUME NEW p \in Pools, ThreadStep(p) PROVE AnswerInv'
  <2>1. CASE Receive(p)
    <3> DEFINE verdict == [valid |-> Valid(Head(toMiner[p])),
                           old |-> IF Valid(Head(toMiner[p])) THEN accepted ELSE rejected]
    <3>1. verdict \in [valid : BOOLEAN, old : Nat]
      BY DEF TypeOK, Valid
    <3>2. verdict # None
      BY <3>1, SessionAssumption
    <3> HIDE DEF verdict
    <3>3. \/ answer' = [answer EXCEPT ![p] = verdict] /\ Goto(p, "count")
          \/ UNCHANGED <<pc, answer>>
      BY <2>1 DEF Receive, verdict
    <3> QED BY <1>1, <1>2, <3>1, <3>2, <3>3 DEF AnswerInv, Goto
  <2>2. CASE ShareResult(p)
    BY <1>1, <2>2 DEF ShareResult, Goto, AnswerInv
  <2>3. CASE JobWhileAwaiting(p) \/ SendKeepalive(p)
    BY <1>2, <2>3 DEF JobWhileAwaiting, SendKeepalive
  <2>4. CASE Connect(p) \/ Connected(p) \/ GiveUp(p) \/ SendLogin(p) \/ LoginAnswered(p)
    BY <1>3, <2>4 DEF Connect, Connected, GiveUp, SendLogin, LoginAnswered, Disconnect
  <2> QED BY <1>4, <2>1, <2>2, <2>3, <2>4 DEF ThreadStep
<1> QED
  BY <1>2, <1>4 DEF Next, vars, TakeShare, PoolAnswers, PoolSendsJob, LoseLink, SubmitStep,
                    FormShare, SendShare, SendShareFails

LEMMA SessionTypes == Spec => [](TypeOK /\ AnswerInv)
<1>1. Init => TypeOK /\ AnswerInv
  <2> SUFFICES ASSUME Init PROVE TypeOK /\ AnswerInv
    OBVIOUS
  <2>1. AnswerInv
    BY DEF Init, AnswerInv
  <2>2. \A p \in Pools : Len(toPool[p]) <= MaxWire /\ Len(toMiner[p]) <= MaxWire
    BY ConstantFacts DEF Init
  <2>3. shares \in 0..MaxShares /\ faults \in 0..MaxFaults
    BY ConstantFacts DEF Init
  <2>4. /\ pc \in [Pools -> {"down", "connect", "login", "await"} \cup InSession]
        /\ sock \in [Pools -> Files \cup {None}] /\ file \in [Files -> Pools \cup {None}]
        /\ link \in [Pools -> {"none", "opening", "up", "lost"}]
        /\ toPool \in [Pools -> Seq(Requests)] /\ toMiner \in [Pools -> Seq(Lines)]
        /\ {known, idCurrent, working} \subseteq [Pools -> BOOLEAN]
        /\ answer \in [Pools -> [valid : BOOLEAN, old : Nat] \cup {None}]
    BY DEF Init
  <2> QED BY <2>1, <2>2, <2>3, <2>4 DEF Init, TypeOK
<1>2. TypeOK /\ AnswerInv /\ [Next]_vars => TypeOK' /\ AnswerInv'
  BY StepKeepsType, StepKeepsAnswer
<1> QED
  BY <1>1, <1>2, PTL DEF Spec

\* The descriptors, the connections, the wires and the counters keep their
\* types whatever the threads, the pools and the network do.
THEOREM TypeCorrect == Spec => []TypeOK
BY SessionTypes, PTL

-----------------------------------------------------------------------------
(* What the connection of a pool is like in each state of its thread.      *)

\* A thread that is not disconnected holds the descriptor it stored.
FileInv == \A p \in Pools : pc[p] # "down" => sock[p] \in Files /\ file[sock[p]] = p

LinkInv(p) ==
    /\ pc[p] = "down" => link[p] = "none"
    /\ pc[p] = "connect" => link[p] = "opening"
    /\ pc[p] \notin {"down", "connect"} => link[p] \in {"up", "lost"}
    /\ link[p] # "up" => toPool[p] = <<>>
    /\ pc[p] \in {"down", "connect"} => toMiner[p] = <<>>
    /\ known[p] => link[p] = "up" /\ pc[p] \in {"await"} \cup InSession

\* At most one login is on its way to a pool, while its answer is awaited.
RequestInv(p) ==
    /\ OneLogin(toPool[p])
    /\ pc[p] # "await" \/ known[p] => Without(toPool[p], "login")
    /\ pc[p] \notin InSession => Without(toPool[p], "keepalived")
    /\ AllFit(toPool[p], p)

\* A pool that does not know the miner sends nothing but refusals; one that does
\* has sent its welcome, and the session has that welcome's id.
ReplyInv(p) ==
    /\ pc[p] = "login" => Only(toMiner[p], {Refuses})
    /\ pc[p] = "await" => IF known[p] THEN Greeted(toMiner[p])
                          ELSE \/ Only(toMiner[p], {Refuses})
                               \/ link[p] = "lost" /\ Greeted(toMiner[p])
    /\ pc[p] \in InSession => /\ Only(toMiner[p], Ordinary)
                              /\ idCurrent[p]
                              /\ link[p] = "up" => known[p]

PoolInv(p) == LinkInv(p) /\ RequestInv(p) /\ ReplyInv(p)

\* A share printed in the session that still lasts has its id.
HandInv == hand # None /\ hand.steady => pc[hand.pool] \in InSession /\ hand.current

SessionInv == FileInv /\ HandInv /\ \A p \in Pools : PoolInv(p)

LEMMA SameConnection ==
    ASSUME NEW q \in Pools, PoolInv(q), pc'[q] = pc[q], link'[q] = link[q],
           toPool'[q] = toPool[q], toMiner'[q] = toMiner[q], known'[q] = known[q],
           idCurrent'[q] = idCurrent[q]
    PROVE  PoolInv(q)'
BY DEF PoolInv, LinkInv, RequestInv, ReplyInv

LEMMA DisconnectKeepsSession ==
    ASSUME TypeOK, SessionInv, NEW p \in Pools, Disconnect(p), sock' = sock,
           \A q \in Pools : q # p => idCurrent'[q] = idCurrent[q]
    PROVE  SessionInv'
<1>1. /\ pc'[p] = "down" /\ link'[p] = "none" /\ known'[p] = FALSE
      /\ toPool'[p] = <<>> /\ toMiner'[p] = <<>>
      /\ \A q \in Pools : q # p => /\ pc'[q] = pc[q] /\ link'[q] = link[q]
                                   /\ known'[q] = known[q]
                                   /\ toPool'[q] = toPool[q]
                                   /\ toMiner'[q] = toMiner[q]
  BY DisconnectKeepsType DEF TypeOK, Disconnect, Goto
<1>2. PoolInv(p)'
  BY <1>1, NothingFacts DEF PoolInv, LinkInv, RequestInv, ReplyInv, InSession
<1>3. \A q \in Pools : PoolInv(q)'
  BY <1>1, <1>2, SameConnection DEF SessionInv
<1>4. FileInv'
  <2>1. \A f \in Files : file[f] # p => file'[f] = file[f]
    BY DEF Disconnect
  <2> QED BY <1>1, <2>1 DEF SessionInv, FileInv
<1>5. HandInv'
  <2>1. CASE hand # None /\ hand.pool = p
    <3>1. hand \in Hands /\ hand' = [hand EXCEPT !.steady = FALSE]
      BY <2>1 DEF TypeOK, Disconnect
    <3>2. hand'.steady = FALSE
      BY <3>1 DEF Hands
    <3> QED BY <3>2 DEF HandInv
  <2>2. CASE hand = None \/ hand.pool # p
    <3>1. hand' = hand
      BY <2>2 DEF Disconnect
    <3>2. hand # None => hand.pool \in Pools
      BY DEF TypeOK, Hands
    <3> QED BY <1>1, <2>2, <3>1, <3>2 DEF SessionInv, HandInv
  <2> QED BY <2>1, <2>2
<1> QED
  BY <1>3, <1>4, <1>5 DEF SessionInv

\* A request that leaves for another pool's socket or the thread's own.
LEMMA SentKeepsSession ==
    ASSUME TypeOK, NEW q \in Pools, PoolInv(q), NEW line \in Requests,
           toPool'[q] = Append(toPool[q], line), link[q] = "up",
           UNCHANGED <<pc, link, toMiner, known, idCurrent>>,
           line.kind # "login", line.kind = "keepalived" => pc[q] \in InSession,
           Fit(line, q)
    PROVE  PoolInv(q)'
<1>1. toPool[q] \in Seq(Requests)
  BY DEF TypeOK
<1> QED
  BY <1>1, AppendFacts DEF PoolInv, LinkInv, RequestInv, ReplyInv

LEMMA ThreadKeepsSession ==
    ASSUME TypeOK, TypeOK', SessionInv, NEW p \in Pools, ThreadStep(p)
    PROVE  SessionInv'
<1> USE DEF threadVars, netVars, poolVars, countVars
<1>1. /\ pc \in [Pools -> {"down", "connect", "login", "await"} \cup InSession]
      /\ sock \in [Pools -> Files \cup {None}] /\ file \in [Files -> Pools \cup {None}]
      /\ link \in [Pools -> {"none", "opening", "up", "lost"}]
      /\ toPool \in [Pools -> Seq(Requests)] /\ toMiner \in [Pools -> Seq(Lines)]
      /\ known \in [Pools -> BOOLEAN] /\ idCurrent \in [Pools -> BOOLEAN]
      /\ None \notin Pools
  BY ConstantFacts DEF TypeOK
<1>2. ASSUME NEW l \in {"connect", "login", "await", "receive", "count"}, pc[p] # "down",
             pc[p] \in InSession => l \in InSession,
             Goto(p, l), UNCHANGED <<sock, file, hand>>
      PROVE  FileInv' /\ HandInv'
  <2>1. /\ pc'[p] = l /\ \A q \in Pools : q # p => pc'[q] = pc[q]
    BY <1>1, <1>2 DEF Goto
  <2>2. hand # None => hand.pool \in Pools
    BY DEF TypeOK, Hands
  <2>3. FileInv'
    BY <1>2, <2>1 DEF SessionInv, FileInv
  <2>4. HandInv'
    BY <1>2, <2>1, <2>2 DEF SessionInv, HandInv
  <2> QED BY <2>3, <2>4
<1>3. /\ PoolInv(p)
      /\ pc[p] # "down" => sock[p] \in Files /\ file[sock[p]] = p
  BY DEF SessionInv, FileInv
<1>4. CASE Connect(p)
  <2>1. PICK f \in Free : /\ file' = [file EXCEPT ![f] = p]
                          /\ sock' = [sock EXCEPT ![p] = f]
    BY <1>4 DEF Connect
  <2>2. f \in Files /\ file[f] = None
    BY DEF Free
  <2>3. /\ pc[p] = "down" /\ pc'[p] = "connect" /\ link'[p] = "opening"
        /\ \A q \in Pools : q # p => pc'[q] = pc[q] /\ link'[q] = link[q]
        /\ UNCHANGED <<toPool, toMiner, known, idCurrent, hand>>
    BY <1>1, <1>4 DEF Connect, Goto
  <2>4. FileInv'
    <3>1. /\ sock'[p] = f /\ file'[f] = p
          /\ \A q \in Pools : q # p => sock'[q] = sock[q]
          /\ \A g \in Files : g # f => file'[g] = file[g]
      BY <1>1, <2>1, <2>2
    <3>2. ASSUME NEW q \in Pools, q # p, pc'[q] # "down"
          PROVE  sock'[q] \in Files /\ file'[sock'[q]] = q
      <4>1. sock[q] \in Files /\ file[sock[q]] = q
        BY <2>3, <3>2 DEF SessionInv, FileInv
      <4>2. sock[q] # f
        BY <1>1, <2>2, <4>1
      <4> QED BY <3>1, <3>2, <4>1, <4>2
    <3> QED BY <2>2, <3>1, <3>2 DEF FileInv
  <2>5. HandInv'
    BY <2>3, <1>1 DEF SessionInv, HandInv, TypeOK, Hands, InSession
  <2>6. PoolInv(p)'
    BY <1>3, <2>3, NothingFacts DEF PoolInv, LinkInv, RequestInv, ReplyInv, InSession
  <2>7. \A q \in Pools : PoolInv(q)'
    BY <2>3, <2>6, SameConnection DEF SessionInv
  <2> QED BY <2>4, <2>5, <2>7 DEF SessionInv
<1>5. CASE Connected(p)
  <2>1. /\ pc[p] = "connect" /\ pc'[p] = "login" /\ link'[p] = "up"
        /\ \A q \in Pools : q # p => pc'[q] = pc[q] /\ link'[q] = link[q]
        /\ UNCHANGED <<toPool, toMiner, known, idCurrent, hand, sock, file>>
        /\ Goto(p, "login")
    BY <1>1, <1>5 DEF Connected, Goto
  <2>2. PoolInv(p)'
    BY <1>3, <2>1, NothingFacts DEF PoolInv, LinkInv, RequestInv, ReplyInv, InSession
  <2>3. \A q \in Pools : PoolInv(q)'
    BY <2>1, <2>2, SameConnection DEF SessionInv
  <2>4. FileInv' /\ HandInv'
    BY <1>2, <2>1 DEF InSession
  <2> QED BY <2>3, <2>4 DEF SessionInv
<1>6. CASE GiveUp(p)
  BY <1>6, DisconnectKeepsSession DEF GiveUp
<1>7. CASE SendLogin(p)
  <2> DEFINE line == [kind |-> "login"]
  <2>1. /\ pc[p] = "login" /\ pc'[p] = "await"
        /\ \A q \in Pools : q # p => pc'[q] = pc[q]
        /\ UNCHANGED <<link, toMiner, known, idCurrent, hand, sock, file>>
        /\ Goto(p, "await")
        /\ sock[p] \in Files /\ file[sock[p]] = p
        /\ Sent(sock[p], line)
    BY <1>1, <1>3, <1>7 DEF SendLogin, Goto
  <2>2. line \in Requests /\ line.kind = "login"
    BY RequestFacts
  <2> HIDE DEF line
  <2>3. /\ \/ link[p] = "up" /\ toPool'[p] = Append(toPool[p], line)
           \/ link[p] = "lost" /\ toPool' = toPool
        /\ \A q \in Pools : q # p => toPool'[q] = toPool[q]
    BY <2>1, <2>2, SentFacts
  <2>4. ~known[p] /\ Only(toMiner[p], {Refuses}) /\ Without(toPool[p], "login")
        /\ Without(toPool[p], "keepalived") /\ AllFit(toPool[p], p) /\ OneLogin(toPool[p])
    BY <1>3, <2>1 DEF PoolInv, LinkInv, RequestInv, ReplyInv, InSession
  <2>5. /\ OneLogin(toPool'[p]) /\ Without(toPool'[p], "keepalived") /\ AllFit(toPool'[p], p)
    <3>1. CASE toPool'[p] = Append(toPool[p], line)
      BY <1>1, <2>2, <2>4, <3>1, AppendFacts DEF Fit
    <3>2. CASE toPool' = toPool
      BY <2>4, <3>2
    <3> QED BY <2>3, <3>1, <3>2
  <2>6. PoolInv(p)'
    BY <1>3, <2>1, <2>3, <2>4, <2>5 DEF PoolInv, LinkInv, RequestInv, ReplyInv, InSession
  <2>7. \A q \in Pools : PoolInv(q)'
    BY <2>1, <2>3, <2>6, SameConnection DEF SessionInv
  <2>8. FileInv' /\ HandInv'
    BY <1>2, <2>1 DEF InSession
  <2> QED BY <2>7, <2>8 DEF SessionInv
<1>8. CASE JobWhileAwaiting(p)
  <2>1. /\ pc[p] = "await" /\ Head(toMiner[p]) = Job(TRUE) /\ toMiner[p] # <<>>
        /\ toMiner'[p] = Tail(toMiner[p])
        /\ \A q \in Pools : q # p => toMiner'[q] = toMiner[q]
        /\ UNCHANGED <<pc, sock, file, link, toPool, known, idCurrent, hand>>
    BY <1>8, ReadFacts DEF JobWhileAwaiting
  <2>2. Job(TRUE) # Refuses /\ Job(TRUE) \notin Welcomed
    BY DEF Job, Refuses, Answer, Welcomed, Welcome, WelcomeBut
  <2>3. /\ Greeted(toMiner[p]) => Greeted(toMiner'[p])
        /\ ~Only(toMiner[p], {Refuses})
    <3>1. toMiner[p] \in Seq(Lines) /\ toMiner[p] # <<>>
      BY <1>1, <2>1
    <3>2. Greeted(toMiner[p]) => Greeted(Tail(toMiner[p]))
      BY <2>1, <2>2, <3>1, TailFacts
    <3>3. Only(toMiner[p], {Refuses}) => Head(toMiner[p]) \in {Refuses}
      BY <3>1, TailFacts
    <3> QED BY <2>1, <2>2, <3>2, <3>3
  <2>4. PoolInv(p)'
    BY <1>3, <2>1, <2>3 DEF PoolInv, LinkInv, RequestInv, ReplyInv, InSession
  <2>5. \A q \in Pools : PoolInv(q)'
    BY <2>1, <2>4, SameConnection DEF SessionInv
  <2>6. FileInv' /\ HandInv'
    BY <2>1 DEF SessionInv, FileInv, HandInv
  <2> QED BY <2>5, <2>6 DEF SessionInv
<1>9. CASE LoginAnswered(p)
  <2>1. CASE Disconnect(p) /\ UNCHANGED <<idCurrent, working>>
    BY <1>9, <2>1, DisconnectKeepsSession DEF LoginAnswered
  <2>2. CASE /\ LoginSucceeds(p, Head(toMiner[p])) /\ ReadLine(p) /\ Goto(p, "receive")
             /\ UNCHANGED <<file, link, toPool, known, hand>>
    <3>1. /\ pc[p] = "await" /\ pc'[p] = "receive" /\ toMiner[p] # <<>>
          /\ toMiner'[p] = Tail(toMiner[p]) /\ Head(toMiner[p]) \in Lines
          /\ \A q \in Pools : q # p => pc'[q] = pc[q] /\ toMiner'[q] = toMiner[q]
          /\ sock' = sock
      BY <1>1, <1>9, <2>2, ReadFacts DEF LoginAnswered, Goto
    <3>2. /\ Head(toMiner[p]).kind = "answer" /\ Head(toMiner[p]).result
          /\ idCurrent' = [idCurrent EXCEPT ![p] = @ \/ Head(toMiner[p]).hasId]
      BY <2>2 DEF LoginSucceeds
    <3>3. Head(toMiner[p]) \notin Ahead
      BY <3>2, LineFacts
    <3>4. Greeted(toMiner[p]) /\ (~known[p] => link[p] = "lost")
      <4>1. ~Only(toMiner[p], {Refuses})
        BY <1>1, <3>1, <3>3, TailFacts DEF Ahead
      <4> QED BY <1>3, <3>1, <4>1 DEF PoolInv, ReplyInv
    <3>5. Head(toMiner[p]) \in Welcomed /\ Only(toMiner'[p], Ordinary)
      BY <1>1, <3>1, <3>3, <3>4, TailFacts
    <3>6. idCurrent'[p] = TRUE /\ \A q \in Pools : q # p => idCurrent'[q] = idCurrent[q]
      BY <1>1, <3>2, <3>5, LineFacts
    <3>7. Without(toPool[p], "login")
      <4>1. CASE known[p]
        BY <1>3, <4>1 DEF PoolInv, RequestInv
      <4>2. CASE ~known[p]
        BY <1>3, <3>4, <4>2, NothingFacts DEF PoolInv, LinkInv
      <4> QED BY <4>1, <4>2
    <3>8. PoolInv(p)'
      BY <1>3, <2>2, <3>1, <3>4, <3>5, <3>6, <3>7
         DEF PoolInv, LinkInv, RequestInv, ReplyInv, InSession
    <3>9. \A q \in Pools : PoolInv(q)'
      BY <2>2, <3>1, <3>6, <3>8, SameConnection DEF SessionInv
    <3>10. FileInv' /\ HandInv'
      BY <1>2, <2>2, <3>1 DEF InSession
    <3> QED BY <3>9, <3>10 DEF SessionInv
  <2> QED BY <1>9, <2>1, <2>2 DEF LoginAnswered
<1>10. CASE SendKeepalive(p)
  <2> DEFINE line == [kind |-> "keepalived"]
  <2>1. /\ pc[p] = "receive" /\ sock[p] \in Files /\ file[sock[p]] = p /\ Sent(sock[p], line)
        /\ UNCHANGED <<pc, sock, file, link, toMiner, known, idCurrent, hand>>
    BY <1>3, <1>10 DEF SendKeepalive
  <2>2. line \in Requests /\ line.kind = "keepalived" /\ Fit(line, p)
    BY RequestFacts DEF Fit
  <2> HIDE DEF line
  <2>3. /\ \/ link[p] = "up" /\ toPool'[p] = Append(toPool[p], line)
           \/ link[p] = "lost" /\ toPool' = toPool
        /\ \A q \in Pools : q # p => toPool'[q] = toPool[q]
    BY <2>1, <2>2, SentFacts
  <2>4. PoolInv(p)'
    <3>1. CASE link[p] = "up" /\ toPool'[p] = Append(toPool[p], line)
      BY <1>3, <2>1, <2>2, <3>1, SentKeepsSession DEF InSession
    <3>2. CASE toPool' = toPool
      BY <1>3, <2>1, <3>2, SameConnection
    <3> QED BY <2>3, <3>1, <3>2
  <2>5. \A q \in Pools : PoolInv(q)'
    BY <2>1, <2>3, <2>4, SameConnection DEF SessionInv
  <2>6. FileInv' /\ HandInv'
    BY <2>1 DEF SessionInv, FileInv, HandInv
  <2> QED BY <2>5, <2>6 DEF SessionInv
<1>11. CASE Receive(p)
  <2>1. /\ pc[p] = "receive" /\ toMiner[p] # <<>> /\ toMiner'[p] = Tail(toMiner[p])
        /\ \A q \in Pools : q # p => toMiner'[q] = toMiner[q]
        /\ UNCHANGED <<sock, file, link, toPool, known, idCurrent, hand>>
        /\ Goto(p, "count") \/ pc' = pc
    BY <1>11, ReadFacts DEF Receive
  <2>2. pc'[p] \in InSession /\ \A q \in Pools : q # p => pc'[q] = pc[q]
    BY <1>1, <2>1 DEF Goto, InSession
  <2>3. Only(toMiner'[p], Ordinary)
    BY <1>1, <1>3, <2>1, TailFacts DEF PoolInv, ReplyInv, InSession
  <2>4. PoolInv(p)'
    BY <1>3, <2>1, <2>2, <2>3 DEF PoolInv, LinkInv, RequestInv, ReplyInv, InSession
  <2>5. \A q \in Pools : PoolInv(q)'
    BY <2>1, <2>2, <2>4, SameConnection DEF SessionInv
  <2>6. FileInv' /\ HandInv'
    <3>1. CASE Goto(p, "count")
      BY <1>2, <2>1, <3>1 DEF InSession
    <3>2. CASE pc' = pc
      BY <2>1, <3>2 DEF SessionInv, FileInv, HandInv
    <3> QED BY <2>1, <3>1, <3>2
  <2> QED BY <2>5, <2>6 DEF SessionInv
<1>12. CASE ShareResult(p)
  <2>1. /\ pc[p] = "count" /\ pc'[p] = "receive" /\ Goto(p, "receive")
        /\ \A q \in Pools : q # p => pc'[q] = pc[q]
        /\ UNCHANGED <<sock, file, link, toPool, toMiner, known, idCurrent, hand>>
    BY <1>1, <1>12 DEF ShareResult, Goto
  <2>2. PoolInv(p)'
    BY <1>3, <2>1 DEF PoolInv, LinkInv, RequestInv, ReplyInv, InSession
  <2>3. \A q \in Pools : PoolInv(q)'
    BY <2>1, <2>2, SameConnection DEF SessionInv
  <2>4. FileInv' /\ HandInv'
    BY <1>2, <2>1 DEF InSession
  <2> QED BY <2>3, <2>4 DEF SessionInv
<1> QED
  BY <1>4, <1>5, <1>6, <1>7, <1>8, <1>9, <1>10, <1>11, <1>12 DEF ThreadStep

LEMMA SubmitKeepsSession ==
    ASSUME TypeOK, SessionInv, SubmitStep
    PROVE  SessionInv'
<1> USE DEF threadVars, netVars, poolVars, countVars
<1>1. /\ UNCHANGED <<pc, sock, file, link, toMiner, known, idCurrent>>
      /\ FileInv'
  BY DEF SubmitStep, FormShare, SendShare, SendShareFails, SessionInv, FileInv
<1>2. /\ hand # None
      /\ hand.pool \in Pools /\ hand.current \in BOOLEAN /\ hand.steady \in BOOLEAN
      /\ hand \in Hands
  BY DEF SubmitStep, FormShare, SendShare, SendShareFails, TypeOK, Hands
<1>3. ASSUME toPool' = toPool PROVE \A q \in Pools : PoolInv(q)'
  BY <1>1, <1>3, SameConnection DEF SessionInv
<1>4. CASE FormShare
  <2>1. /\ hand' = [hand EXCEPT !.formed = TRUE, !.current = idCurrent[hand.pool],
                                !.steady = pc[hand.pool] \in InSession]
        /\ toPool' = toPool
    BY <1>4 DEF FormShare
  <2>2. /\ hand'.pool = hand.pool /\ hand'.current = idCurrent[hand.pool]
        /\ hand'.steady <=> pc[hand.pool] \in InSession
    BY <1>2, <2>1 DEF Hands
  <2>3. PoolInv(hand.pool)
    BY <1>2 DEF SessionInv
  <2>4. HandInv'
    BY <1>1, <2>2, <2>3 DEF HandInv, PoolInv, ReplyInv
  <2> QED BY <1>1, <1>3, <2>1, <2>4 DEF SessionInv
<1>5. CASE SendShare
  <2> DEFINE from == hand.pool
             line == [kind |-> "submit", from |-> hand.pool,
                      orphan |-> pc[hand.pool] = "down",
                      current |-> hand.current, steady |-> hand.steady]
  <2>1. line \in Requests /\ sock[from] \in Files \cup {None}
    BY <1>2, RequestFacts DEF TypeOK
  <2>2. Sent(sock[from], line) /\ hand' = None
    BY <1>5 DEF SendShare
  <2>3. /\ line.kind = "submit" /\ line.from = from
        /\ line.orphan <=> pc[from] = "down"
        /\ line.steady => line.current
    BY <1>2 DEF SessionInv, HandInv
  <2> HIDE DEF line
  <2>4. /\ sock[from] \in Files /\ file[sock[from]] \in Pools
        /\ \/ /\ link[file[sock[from]]] = "up"
              /\ toPool'[file[sock[from]]] = Append(toPool[file[sock[from]]], line)
              /\ \A q \in Pools : q # file[sock[from]] => toPool'[q] = toPool[q]
           \/ toPool' = toPool
    <3> DEFINE f == sock[from]
    <3>1. f \in Files \cup {None} /\ line \in Requests /\ Sent(f, line)
      BY <2>1, <2>2
    <3> HIDE DEF f
    <3>2. /\ f \in Files /\ file[f] \in Pools
          /\ \/ /\ link[file[f]] = "up"
                /\ toPool'[file[f]] = Append(toPool[file[f]], line)
                /\ \A q \in Pools : q # file[f] => toPool'[q] = toPool[q]
             \/ toPool' = toPool
      BY <3>1, SentFacts
    <3> QED BY ONLY <3>2, Zenon DEF f
  <2>5. HandInv'
    BY <2>2 DEF HandInv
  <2>6. \A q \in Pools : PoolInv(q)'
    <3>1. PICK r \in Pools : r = file[sock[from]]
      BY <2>4
    <3>2. CASE toPool' = toPool
      BY <1>3, <3>2
    <3> DEFINE Arrives == /\ link[r] = "up" /\ toPool'[r] = Append(toPool[r], line)
                          /\ \A q \in Pools : q # r => toPool'[q] = toPool[q]
               Kept == \A q \in Pools : PoolInv(q)'
    <3>3. CASE Arrives
      <4>1. Fit(line, r)
        <5>1. from # r => pc[from] = "down"
          BY <1>2, <3>1 DEF SessionInv, FileInv
        <5>2. line.from # r => line.orphan
          BY <2>3, <5>1
        <5>3. line.steady => line.current
          BY <2>3
        <5> QED BY <5>2, <5>3 DEF Fit
      <4>2. PoolInv(r) /\ line.kind # "login" /\ line.kind # "keepalived"
        BY <2>3 DEF SessionInv
      <4>3. PoolInv(r)'
        <5>1. /\ toPool'[r] = Append(toPool[r], line) /\ link[r] = "up"
              /\ UNCHANGED <<pc, link, toMiner, known, idCurrent>>
              /\ line.kind # "login"
              /\ line.kind = "keepalived" => pc[r] \in InSession
              /\ line \in Requests
          <6>1. toPool'[r] = Append(toPool[r], line) /\ link[r] = "up"
            BY ONLY <3>3, Zenon
          <6>2. UNCHANGED <<pc, link, toMiner, known, idCurrent>>
            BY ONLY <1>1
          <6>3. line.kind # "login" /\ line.kind # "keepalived"
            BY ONLY <4>2
          <6> QED BY ONLY <2>1, <6>1, <6>2, <6>3, Zenon
        <5> HIDE DEF Arrives
        <5> QED BY <4>1, <4>2, <5>1, SentKeepsSession, Zenon
      <4> QED BY <1>1, <3>3, <4>3, SameConnection, Zenon DEF SessionInv
    <3>4. Arrives \/ toPool' = toPool
      BY ONLY <2>4, <3>1
    <3>5. (Arrives => Kept) /\ (toPool' = toPool => Kept)
      BY <3>2, <3>3, Zenon
    <3> HIDE DEF Arrives, Kept
    <3>6. Kept
      BY <3>4, <3>5
    <3> QED BY <3>6, Zenon DEF Kept
  <2> QED BY <1>1, <2>5, <2>6 DEF SessionInv
<1>6. CASE SendShareFails
  <2>1. hand' = Fresh(hand.pool) /\ toPool' = toPool
    BY <1>6 DEF SendShareFails
  <2>2. HandInv'
    BY <2>1 DEF HandInv, Fresh
  <2> QED BY <1>1, <1>3, <2>1, <2>2 DEF SessionInv
<1> QED
  BY <1>4, <1>5, <1>6 DEF SubmitStep

\* A pool's reply, the request it answers being gone.
LEMMA AnswersKeepSession ==
    ASSUME TypeOK, TypeOK', SessionInv, NEW p \in Pools, PoolAnswers(p)
    PROVE  SessionInv'
<1> USE DEF threadVars, netVars, poolVars, countVars
<1>1. /\ toPool[p] \in Seq(Requests) /\ toPool[p] # <<>> /\ toMiner[p] \in Seq(Lines)
      /\ toPool \in [Pools -> Seq(Requests)] /\ toMiner \in [Pools -> Seq(Lines)]
      /\ known \in [Pools -> BOOLEAN] /\ idCurrent \in [Pools -> BOOLEAN]
      /\ toPool' = [toPool EXCEPT ![p] = Tail(@)]
      /\ UNCHANGED <<pc, sock, file, link>> /\ link[p] = "up"
      /\ Len(toMiner[p]) < MaxWire
  BY DEF TypeOK, PoolAnswers
<1>2. toPool'[p] = Tail(toPool[p]) /\ \A q \in Pools : q # p => toPool'[q] = toPool[q]
  BY <1>1
<1>3. FileInv' /\ PoolInv(p)
  BY <1>1 DEF SessionInv, FileInv
<1>4. /\ OneLogin(Tail(toPool[p])) /\ AllFit(Tail(toPool[p]), p)
      /\ \A k : Without(toPool[p], k) => Without(Tail(toPool[p]), k) /\ Head(toPool[p]).kind # k
      /\ Head(toPool[p]).kind = "login" => Without(Tail(toPool[p]), "login")
  <2>1. OneLogin(toPool[p]) /\ AllFit(toPool[p], p)
    BY <1>3 DEF PoolInv, RequestInv
  <2> QED BY <1>1, <2>1, TailFacts
<1>5. ASSUME NEW line \in Ordinary, Replies(p, line), UNCHANGED <<known, idCurrent, hand>>,
             pc[p] \in {"login", "await"} /\ ~known[p] => line = Refuses
      PROVE  SessionInv'
  <2>1. /\ line \in Lines /\ toMiner'[p] = Append(toMiner[p], line)
        /\ \A q \in Pools : q # p => toMiner'[q] = toMiner[q]
    BY <1>1, <1>5, RepliesFacts, LineFacts
  <2>2. /\ Greeted(toMiner[p]) => Greeted(toMiner'[p])
        /\ Only(toMiner[p], Ordinary) => Only(toMiner'[p], Ordinary)
        /\ line = Refuses /\ Only(toMiner[p], {Refuses}) => Only(toMiner'[p], {Refuses})
    BY <1>1, <1>5, <2>1, AppendFacts
  <2>3. LinkInv(p)'
    BY <1>1, <1>3, <1>5 DEF PoolInv, LinkInv
  <2>4. RequestInv(p)'
    BY <1>1, <1>2, <1>3, <1>4, <1>5 DEF PoolInv, RequestInv
  <2>5. ReplyInv(p)'
    BY <1>1, <1>3, <1>5, <2>2 DEF PoolInv, LinkInv, ReplyInv, InSession
  <2>6. \A q \in Pools : PoolInv(q)'
    BY <1>1, <1>2, <1>5, <2>1, <2>3, <2>4, <2>5, SameConnection DEF SessionInv, PoolInv
  <2>7. HandInv'
    BY <1>1, <1>5 DEF SessionInv, HandInv
  <2> QED BY <1>3, <2>6, <2>7 DEF SessionInv
<1>6. Head(toPool[p]).kind = "login" => pc[p] = "await" /\ ~known[p]
  BY <1>3, <1>4 DEF PoolInv, RequestInv
<1>7. CASE \E lines \in Greetings :
              /\ toMiner' = [toMiner EXCEPT ![p] = @ \o lines]
              /\ Head(toPool[p]).kind = "login" /\ Welcomes(p)
  <2>1. PICK lines \in Greetings : toMiner' = [toMiner EXCEPT ![p] = @ \o lines]
    BY <1>7
  <2>2. /\ pc[p] = "await" /\ ~known[p] /\ Only(toMiner[p], {Refuses})
    BY <1>1, <1>3, <1>6, <1>7 DEF PoolInv, ReplyInv
  <2>3. Only(toMiner[p], Ahead)
    BY <2>2 DEF Only, Ahead
  <2>4. /\ toMiner'[p] = toMiner[p] \o lines
        /\ \A q \in Pools : q # p => toMiner'[q] = toMiner[q]
    BY <1>1, <2>1
  <2>5. Greeted(toMiner'[p])
    <3>1. ASSUME NEW w \in Welcomed, toMiner'[p] = Append(toMiner[p], w)
          PROVE  Greeted(toMiner'[p])
      BY <1>1, <2>3, <3>1, AppendFacts, LineFacts
    <3>2. ASSUME NEW w \in Welcomed, NEW j \in {Job(TRUE), Job(FALSE)},
                 toMiner'[p] = Append(Append(toMiner[p], j), w)
          PROVE  Greeted(toMiner'[p])
      <4>1. j \in Ahead /\ j \in Lines /\ w \in Lines
        BY LineFacts, ReplyFacts DEF Ahead
      <4>2. /\ Append(toMiner[p], j) \in Seq(Lines)
            /\ Only(Append(toMiner[p], j), Ahead)
        BY <1>1, <2>3, <4>1, AppendFacts
      <4>3. Greeted(Append(Append(toMiner[p], j), w))
        <5> DEFINE s == Append(toMiner[p], j)
        <5>1. s \in Seq(Lines) /\ Only(s, Ahead) /\ w \in Lines
          BY <4>1, <4>2
        <5> HIDE DEF s
        <5>2. Greeted(Append(s, w))
          BY <5>1, AppendFacts
        <5> QED BY <5>2 DEF s
      <4> QED BY <3>2, <4>3
    <3> QED BY <1>1, <2>4, <3>1, <3>2, GreetingFacts
  <2>6. /\ known'[p] = TRUE /\ \A q \in Pools : q # p => /\ known'[q] = known[q]
                                                       /\ idCurrent'[q] = idCurrent[q]
    BY <1>1, <1>7 DEF Welcomes
  <2>7. PoolInv(p)'
    <3>1. LinkInv(p)'
      BY <1>1, <1>3, <2>2, <2>6 DEF PoolInv, LinkInv
    <3>2. RequestInv(p)'
      BY <1>1, <1>2, <1>3, <1>4, <1>7, <2>2 DEF PoolInv, RequestInv
    <3>3. ReplyInv(p)'
      BY <1>1, <2>2, <2>5, <2>6 DEF ReplyInv, InSession
    <3> QED BY <3>1, <3>2, <3>3 DEF PoolInv
  <2>8. \A q \in Pools : PoolInv(q)'
    BY <1>1, <1>2, <2>4, <2>6, <2>7, SameConnection DEF SessionInv
  <2>9. HandInv'
    <3>1. hand # None /\ hand.pool = p => ~hand.steady
      BY <2>2 DEF SessionInv, HandInv, InSession
    <3>2. CASE hand # None /\ hand.pool = p
      <4>1. hand \in Hands /\ hand' = [hand EXCEPT !.current = FALSE]
        BY <1>7, <3>2 DEF TypeOK, Welcomes
      <4>2. ~hand'.steady
        BY <3>1, <3>2, <4>1 DEF Hands
      <4> QED BY <4>2 DEF HandInv
    <3>3. CASE ~(hand # None /\ hand.pool = p)
      BY <1>1, <1>7, <3>3 DEF Welcomes, SessionInv, HandInv
    <3> QED BY <3>2, <3>3
  <2> QED BY <1>3, <2>8, <2>9 DEF SessionInv
<1>8. CASE Replies(p, Refuses) /\ UNCHANGED <<known, idCurrent, hand>>
  BY <1>5, <1>8 DEF Ordinary
<1>9. CASE known[p] /\ Replies(p, Accepts) /\ UNCHANGED <<known, idCurrent, hand>>
  BY <1>5, <1>9 DEF Ordinary
<1>10. CASE known[p] /\ Replies(p, AcceptsBare) /\ UNCHANGED <<known, idCurrent, hand>>
  BY <1>5, <1>10 DEF Ordinary
<1>11. CASE /\ Head(toPool[p]).kind = "keepalived" /\ Replies(p, Alive)
            /\ UNCHANGED <<known, idCurrent, hand>>
  <2>1. pc[p] \in InSession
    BY <1>3, <1>4, <1>11 DEF PoolInv, RequestInv
  <2> QED BY <1>5, <1>11, <2>1 DEF Ordinary, InSession
<1>12. CASE /\ \E line \in {Refuses} \cup (IF known[p] THEN {AcceptsBare} ELSE {}) :
                  Replies(p, line)
            /\ UNCHANGED <<known, idCurrent, hand>>
  BY <1>8, <1>10, <1>12
<1> QED
  BY <1>7, <1>8, <1>9, <1>11, <1>12 DEF PoolAnswers

LEMMA StepKeepsSession ==
    ASSUME TypeOK, TypeOK', SessionInv, [Next]_vars
    PROVE  SessionInv'
<1> USE DEF threadVars, netVars, poolVars, countVars
<1>1. /\ link \in [Pools -> {"none", "opening", "up", "lost"}]
      /\ toPool \in [Pools -> Seq(Requests)] /\ toMiner \in [Pools -> Seq(Lines)]
      /\ known \in [Pools -> BOOLEAN]
  BY DEF TypeOK
<1>2. CASE UNCHANGED <<threadVars, netVars, known, idCurrent, hand>>
  BY <1>2, SameConnection DEF SessionInv, FileInv, HandInv
<1>3. ASSUME NEW p \in Pools, TakeShare(p) PROVE SessionInv'
  <2>1. ~hand'.steady
    BY <1>3 DEF TakeShare, Fresh
  <2> QED BY <1>3, <2>1, SameConnection DEF TakeShare, SessionInv, FileInv, HandInv
<1>4. ASSUME NEW p \in Pools, PoolSendsJob(p) PROVE SessionInv'
  <2>1. /\ UNCHANGED <<threadVars, link, toPool, known, idCurrent, hand>> /\ known[p]
        /\ Replies(p, Job(TRUE)) /\ toMiner[p] = <<>> /\ Len(toMiner[p]) < MaxWire
    <3>1. UNCHANGED <<threadVars, link, toPool, known, idCurrent, hand>> /\ known[p]
          /\ Replies(p, Job(TRUE)) /\ toMiner[p] = <<>>
      BY <1>4 DEF PoolSendsJob
    <3>2. Len(<<>>) = 0 /\ 0 < MaxWire
      BY ConstantFacts
    <3> QED BY <3>1, <3>2
  <2>2. /\ toMiner'[p] = Append(toMiner[p], Job(TRUE))
        /\ \A q \in Pools : q # p => toMiner'[q] = toMiner[q]
    BY <2>1, RepliesFacts, ReplyFacts
  <2>3. PoolInv(p) /\ pc[p] \in InSession
    <3>1. PoolInv(p)
      BY DEF SessionInv
    <3>2. ~Greeted(toMiner[p])
      BY <2>1, NothingFacts
    <3> QED BY <2>1, <3>1, <3>2 DEF PoolInv, LinkInv, ReplyInv
  <2>4. Only(toMiner'[p], Ordinary)
    <3>1. Job(TRUE) \in Lines /\ Job(TRUE) \in Ordinary /\ toMiner[p] \in Seq(Lines)
      BY <1>1, ReplyFacts DEF Ordinary
    <3>2. Only(toMiner[p], Ordinary)
      BY <2>3 DEF PoolInv, ReplyInv
    <3>3. Only(Append(toMiner[p], Job(TRUE)), Ordinary)
      BY <3>1, <3>2, AppendFacts
    <3> QED BY <2>2, <3>3
  <2>5. PoolInv(p)'
    BY <2>1, <2>3, <2>4 DEF PoolInv, LinkInv, RequestInv, ReplyInv, InSession
  <2>6. \A q \in Pools : PoolInv(q)'
    BY <2>1, <2>2, <2>5, SameConnection DEF SessionInv
  <2> QED BY <2>1, <2>6 DEF SessionInv, FileInv, HandInv
<1>5. ASSUME NEW p \in Pools, LoseLink(p) PROVE SessionInv'
  <2>1. /\ UNCHANGED <<threadVars, idCurrent, hand>> /\ link[p] = "up" /\ link'[p] = "lost"
        /\ toPool'[p] = <<>> /\ ~known'[p]
        /\ \A q \in Pools : q # p => /\ link'[q] = link[q] /\ known'[q] = known[q]
                                     /\ toPool'[q] = toPool[q] /\ toMiner'[q] = toMiner[q]
        /\ toMiner'[p] = toMiner[p] \/ toMiner'[p] = <<>>
    BY <1>1, <1>5 DEF LoseLink
  <2>2. PoolInv(p)
    BY DEF SessionInv
  <2>3. LinkInv(p)'
    BY <2>1, <2>2 DEF PoolInv, LinkInv
  <2>4. RequestInv(p)'
    BY <2>1, NothingFacts DEF RequestInv
  <2>5. ReplyInv(p)'
    BY <2>1, <2>2, NothingFacts DEF PoolInv, ReplyInv, InSession
  <2>6. \A q \in Pools : PoolInv(q)'
    BY <2>1, <2>3, <2>4, <2>5, SameConnection DEF SessionInv, PoolInv
  <2> QED BY <2>1, <2>6 DEF SessionInv, FileInv, HandInv
<1> QED
  BY <1>2, <1>3, <1>4, <1>5, ThreadKeepsSession, SubmitKeepsSession, AnswersKeepSession
     DEF Next, vars

LEMMA SessionInvariant == Spec => [](TypeOK /\ SessionInv)
<1>1. Init => SessionInv
  <2> SUFFICES ASSUME Init PROVE SessionInv
    OBVIOUS
  <2>1. FileInv /\ HandInv
    BY DEF Init, FileInv, HandInv
  <2>2. \A p \in Pools : PoolInv(p)
    BY NothingFacts DEF Init, PoolInv, LinkInv, RequestInv, ReplyInv, InSession
  <2> QED BY <2>1, <2>2 DEF SessionInv
<1>2. TypeOK /\ TypeOK' /\ SessionInv /\ [Next]_vars => SessionInv'
  BY StepKeepsSession
<1> QED
  BY <1>1, <1>2, SessionTypes, PTL DEF Spec

\* What a share on its way to a pool is like.
LEMMA OnItsWay ==
    ASSUME TypeOK, SessionInv, NEW p \in Pools, NEW i \in DOMAIN toPool[p]
    PROVE  Fit(toPool[p][i], p)
<1>1. toPool[p] \in Seq(Requests) /\ AllFit(toPool[p], p)
  BY DEF TypeOK, SessionInv, PoolInv, RequestInv
<1> QED
  BY <1>1 DEF AllFit

\* A share on its way to the other pool was sent while its own thread was
\* disconnected: stratum_send_line uses the descriptor of the last connection.
THEOREM SharesGoHome == Spec => []OwnPoolWhileConnected
<1>1. TypeOK /\ SessionInv => OwnPoolWhileConnected
  BY OnItsWay DEF OwnPoolWhileConnected, Fit
<1> QED
  BY <1>1, SessionInvariant, PTL

\* A share that is printed and sent in one session has the session's id, though
\* submit_upstream_work reads the id without the lock.
THEOREM SteadySharesCurrent == Spec => []SteadyShareHasItsId
<1>1. TypeOK /\ SessionInv => SteadyShareHasItsId
  BY OnItsWay DEF SteadyShareHasItsId, Fit
<1> QED
  BY <1>1, SessionInvariant, PTL

\* No answer to a share that strayed into the login is taken for a welcome.
THEOREM SessionsMutual == Spec => []SessionIsMutual
<1>1. TypeOK /\ SessionInv => SessionIsMutual
  BY DEF SessionInv, PoolInv, ReplyInv, SessionIsMutual
<1> QED
  BY <1>1, SessionInvariant, PTL

-----------------------------------------------------------------------------
(* The counters.                                                           *)

\* A welcome may still come: before it, refusals are read for nothing.
Hopeful(p) == \/ pc[p] # "await"
              \/ Greeted(toMiner[p])
              \/ ~Without(toPool[p], "login")

\* The answers of either kind that can still be counted.
YesHeld(p) == IF answer[p] # None /\ answer[p].valid THEN 1 ELSE 0
NoHeld(p) == IF answer[p] # None /\ ~answer[p].valid THEN 1 ELSE 0
Yes(p) == Count(toMiner[p], {Accepts}) + YesHeld(p)
No(p) == (IF Hopeful(p) THEN Count(toMiner[p], {AcceptsBare, Refuses}) ELSE 0)
             + NoHeld(p)

Total(f) == (IF 0 \in Pools THEN f[0] ELSE 0) + (IF 1 \in Pools THEN f[1] ELSE 0)
Yeses == [p \in Pools |-> Yes(p)]
Noes == [p \in Pools |-> No(p)]

\* Counting all that is on the way would not exceed what was answered, and no
\* more would counting it onto a value that share_result has read before.
CountInv ==
    /\ accepted + Total(Yeses) <= good
    /\ rejected + Total(Noes) <= bad
    /\ \A p \in Pools : answer[p] # None =>
          IF answer[p].valid THEN answer[p].old + Total(Yeses) <= good
          ELSE answer[p].old + Total(Noes) <= bad

LEMMA TotalFacts ==
    ASSUME NEW f \in [Pools -> Nat], NEW g \in [Pools -> Nat], NEW p \in Pools,
           \A q \in Pools : q # p => g[q] <= f[q]
    PROVE  /\ Total(f) \in Nat /\ Total(g) \in Nat
           /\ \A a, b \in Nat : g[p] + a <= f[p] + b => Total(g) + a <= Total(f) + b
<1>1. Pools \subseteq {0, 1}
  BY ConstantFacts
<1>2. CASE 0 \in Pools /\ 1 \in Pools
  <2>1. Total(f) = f[0] + f[1] /\ Total(g) = g[0] + g[1]
    BY <1>2 DEF Total
  <2>2. f[0] \in Nat /\ f[1] \in Nat /\ g[0] \in Nat /\ g[1] \in Nat
    BY <1>2
  <2>3. CASE p = 0
    BY <1>2, <2>1, <2>2, <2>3
  <2>4. CASE p = 1
    BY <1>2, <2>1, <2>2, <2>4
  <2> QED BY <1>1, <2>3, <2>4
<1>3. CASE 0 \in Pools /\ 1 \notin Pools
  <2>1. p = 0 /\ Total(f) = f[0] + 0 /\ Total(g) = g[0] + 0 /\ f[0] \in Nat /\ g[0] \in Nat
    BY <1>1, <1>3 DEF Total
  <2> QED BY <2>1
<1>4. CASE 0 \notin Pools /\ 1 \in Pools
  <2>1. p = 1 /\ Total(f) = 0 + f[1] /\ Total(g) = 0 + g[1] /\ f[1] \in Nat /\ g[1] \in Nat
    BY <1>1, <1>4 DEF Total
  <2> QED BY <2>1
<1> QED
  BY <1>1, <1>2, <1>3, <1>4

LEMMA CountTypes ==
    ASSUME TypeOK
    PROVE  Yeses \in [Pools -> Nat] /\ Noes \in [Pools -> Nat]
<1>1. \A p \in Pools : \A S : Count(toMiner[p], S) \in Nat
  BY CountNat DEF TypeOK
<1>2. \A p \in Pools : Yes(p) \in Nat /\ No(p) \in Nat
  BY <1>1 DEF Yes, No, YesHeld, NoHeld
<1> QED
  BY <1>2 DEF Yeses, Noes

LEMMA CountTypesNext ==
    ASSUME TypeOK'
    PROVE  Yeses' \in [Pools -> Nat] /\ Noes' \in [Pools -> Nat]
<1>1. \A p \in Pools : \A S : Count(toMiner'[p], S) \in Nat
  BY CountNat DEF TypeOK
<1>2. \A p \in Pools : Yes(p)' \in Nat /\ No(p)' \in Nat
  BY <1>1 DEF Yes, No, YesHeld, NoHeld
<1> QED
  BY <1>2 DEF Yeses, Noes

\* A step at one pool changes the totals by what it changes there.
LEMMA TotalsStep ==
    ASSUME TypeOK, TypeOK', NEW p \in Pools,
           NEW a \in {0, 1}, NEW b \in {0, 1}, NEW c \in {0, 1}, NEW d \in {0, 1},
           \A q \in Pools : q # p => Yes(q)' <= Yes(q) /\ No(q)' <= No(q),
           Yes(p)' + c <= Yes(p) + a, No(p)' + d <= No(p) + b
    PROVE  /\ Total(Yeses) \in Nat /\ Total(Yeses') \in Nat
           /\ Total(Noes) \in Nat /\ Total(Noes') \in Nat
           /\ Total(Yeses') + c <= Total(Yeses) + a
           /\ Total(Noes') + d <= Total(Noes) + b
<1>1. /\ Yeses \in [Pools -> Nat] /\ Noes \in [Pools -> Nat]
      /\ Yeses' \in [Pools -> Nat] /\ Noes' \in [Pools -> Nat]
  BY CountTypes, CountTypesNext
<1>2. \A q \in Pools : /\ Yeses[q] = Yes(q) /\ Noes[q] = No(q)
                       /\ Yeses'[q] = Yes(q)' /\ Noes'[q] = No(q)'
  BY DEF Yeses, Noes
<1> DEFINE y == Yeses  yy == Yeses'  n == Noes  nn == Noes'
<1>3. /\ y \in [Pools -> Nat] /\ yy \in [Pools -> Nat]
      /\ \A q \in Pools : q # p => yy[q] <= y[q]
      /\ yy[p] + c <= y[p] + a
  BY <1>1, <1>2
<1>4. /\ n \in [Pools -> Nat] /\ nn \in [Pools -> Nat]
      /\ \A q \in Pools : q # p => nn[q] <= n[q]
      /\ nn[p] + d <= n[p] + b
  BY <1>1, <1>2
<1> HIDE DEF y, yy, n, nn
<1>5. Total(y) \in Nat /\ Total(yy) \in Nat /\ Total(yy) + c <= Total(y) + a
  BY <1>3, TotalFacts
<1>6. Total(n) \in Nat /\ Total(nn) \in Nat /\ Total(nn) + d <= Total(n) + b
  BY <1>4, TotalFacts
<1> QED
  BY <1>5, <1>6 DEF y, yy, n, nn

\* A step at one pool that lets as many answers come as the pool has given.
LEMMA CountStep ==
    ASSUME TypeOK, TypeOK', CountInv, NEW p \in Pools, NEW a \in {0, 1}, NEW b \in {0, 1},
           good' = good + a, bad' = bad + b, UNCHANGED countVars,
           \A q \in Pools : q # p => Yes(q)' <= Yes(q) /\ No(q)' <= No(q),
           Yes(p)' <= Yes(p) + a, No(p)' <= No(p) + b
    PROVE  CountInv'
<1> DEFINE y == Total(Yeses)  yy == Total(Yeses')  n == Total(Noes)  nn == Total(Noes')
<1>1. Yes(p) \in Nat /\ Yes(p)' \in Nat /\ No(p) \in Nat /\ No(p)' \in Nat
  BY CountTypes, CountTypesNext DEF Yeses, Noes
<1>2. Yes(p)' + 0 <= Yes(p) + a /\ No(p)' + 0 <= No(p) + b
  BY <1>1
<1>3. /\ y \in Nat /\ yy \in Nat /\ n \in Nat /\ nn \in Nat
      /\ yy + 0 <= y + a /\ nn + 0 <= n + b
  BY <1>2, TotalsStep
<1> HIDE DEF yy, nn
<1>4. /\ accepted \in Nat /\ rejected \in Nat /\ good \in Nat /\ bad \in Nat
      /\ accepted + y <= good /\ rejected + n <= bad
      /\ accepted' = accepted /\ rejected' = rejected /\ answer' = answer
      /\ \A q \in Pools : answer[q] # None =>
            /\ answer[q].old \in Nat
            /\ IF answer[q].valid THEN answer[q].old + y <= good
               ELSE answer[q].old + n <= bad
  BY DEF CountInv, TypeOK, countVars
<1>5. accepted' + yy <= good' /\ rejected' + nn <= bad'
  BY <1>3, <1>4
<1>6. ASSUME NEW q \in Pools, answer'[q] # None
      PROVE  IF answer'[q].valid THEN answer'[q].old + yy <= good'
             ELSE answer'[q].old + nn <= bad'
  BY <1>3, <1>4, <1>6
<1> QED
  BY <1>5, <1>6 DEF CountInv, yy, nn

\* Steps that leave the lines to the miner alone, or take some away.
LEMMA NoMoreCounts ==
    ASSUME TypeOK, TypeOK', NEW q \in Pools, answer'[q] = answer[q],
           \/ toMiner'[q] = toMiner[q]
           \/ toMiner'[q] = <<>>
           \/ toMiner[q] # <<>> /\ toMiner'[q] = Tail(toMiner[q]),
           toMiner'[q] # <<>> /\ Hopeful(q)' => Hopeful(q)
    PROVE  Yes(q)' <= Yes(q) /\ No(q)' <= No(q)
<1>1. toMiner[q] \in Seq(Lines) /\ toMiner'[q] \in Seq(Lines)
  BY DEF TypeOK
<1>2. \A S : /\ Count(toMiner[q], S) \in Nat /\ Count(toMiner'[q], S) \in Nat
            /\ Count(toMiner'[q], S) <= Count(toMiner[q], S)
            /\ (toMiner'[q] = <<>> => Count(toMiner'[q], S) = 0)
  <2> TAKE S
  <2>1. Count(toMiner[q], S) \in Nat /\ Count(toMiner'[q], S) \in Nat
    BY <1>1, CountNat
  <2>2. toMiner'[q] = <<>> => Count(toMiner'[q], S) = 0
    BY NothingFacts
  <2>3. CASE toMiner[q] # <<>> /\ toMiner'[q] = Tail(toMiner[q])
    <3>1. Count(toMiner[q], S)
             = Count(toMiner'[q], S) + (IF Head(toMiner[q]) \in S THEN 1 ELSE 0)
      BY <1>1, <2>3, TailFacts
    <3> QED BY <2>1, <2>2, <3>1
  <2> QED BY <2>1, <2>2, <2>3
<1>3. YesHeld(q)' = YesHeld(q) /\ NoHeld(q)' = NoHeld(q)
      /\ YesHeld(q) \in Nat /\ NoHeld(q) \in Nat
  BY DEF YesHeld, NoHeld
<1> DEFINE c == Count(toMiner[q], {Accepts})  cc == Count(toMiner'[q], {Accepts})
           d == Count(toMiner[q], {AcceptsBare, Refuses})
           dd == Count(toMiner'[q], {AcceptsBare, Refuses})
           v == YesHeld(q)  w == NoHeld(q)
<1>4. /\ Yes(q) = c + v /\ Yes(q)' = cc + YesHeld(q)'
      /\ No(q) = (IF Hopeful(q) THEN d ELSE 0) + w
      /\ No(q)' = (IF Hopeful(q)' THEN dd ELSE 0) + NoHeld(q)'
  BY DEF Yes, No
<1>5. /\ c \in Nat /\ cc \in Nat /\ cc <= c
      /\ d \in Nat /\ dd \in Nat /\ dd <= d /\ (toMiner'[q] = <<>> => dd = 0)
  <2>1. c \in Nat /\ cc \in Nat /\ cc <= c
    BY <1>2
  <2>2. d \in Nat /\ dd \in Nat /\ dd <= d /\ (toMiner'[q] = <<>> => dd = 0)
    BY <1>2
  <2> QED BY <2>1, <2>2
<1>6. YesHeld(q)' = v /\ NoHeld(q)' = w /\ v \in Nat /\ w \in Nat
  BY <1>3
<1> HIDE DEF c, cc, d, dd, v, w
<1>7. Yes(q)' <= Yes(q)
  BY <1>4, <1>5, <1>6
<1>8. No(q)' <= No(q)
  <2>1. CASE Hopeful(q)' /\ ~Hopeful(q)
    <3>1. dd = 0
      BY <1>5, <2>1
    <3> QED BY <1>4, <1>5, <1>6, <2>1, <3>1
  <2>2. CASE ~(Hopeful(q)' /\ ~Hopeful(q))
    BY <1>4, <1>5, <1>6, <2>2
  <2> QED BY <2>1, <2>2
<1> QED
  BY <1>7, <1>8

\* Steps that add a line.
LEMMA OneMoreCount ==
    ASSUME TypeOK, TypeOK', NEW q \in Pools, answer'[q] = answer[q],
           NEW line \in Lines, toMiner'[q] = Append(toMiner[q], line),
           Hopeful(q)' => Hopeful(q)
    PROVE  /\ Yes(q)' <= Yes(q) + (IF line = Accepts THEN 1 ELSE 0)
           /\ No(q)' <= No(q) + (IF line \in {AcceptsBare, Refuses} THEN 1 ELSE 0)
<1>1. toMiner[q] \in Seq(Lines) /\ toMiner'[q] \in Seq(Lines)
  BY DEF TypeOK
<1>2. \A S : /\ Count(toMiner[q], S) \in Nat
            /\ Count(toMiner'[q], S) = Count(toMiner[q], S) + (IF line \in S THEN 1 ELSE 0)
  BY <1>1, CountNat, AppendFacts
<1>3. YesHeld(q)' = YesHeld(q) /\ NoHeld(q)' = NoHeld(q)
      /\ YesHeld(q) \in Nat /\ NoHeld(q) \in Nat
  BY DEF YesHeld, NoHeld
<1> DEFINE c == Count(toMiner[q], {Accepts})  cc == Count(toMiner'[q], {Accepts})
           d == Count(toMiner[q], {AcceptsBare, Refuses})
           dd == Count(toMiner'[q], {AcceptsBare, Refuses})
           v == YesHeld(q)  w == NoHeld(q)
           a == IF line = Accepts THEN 1 ELSE 0
           b == IF line \in {AcceptsBare, Refuses} THEN 1 ELSE 0
<1>4. /\ Yes(q) = c + v /\ Yes(q)' = cc + YesHeld(q)'
      /\ No(q) = (IF Hopeful(q) THEN d ELSE 0) + w
      /\ No(q)' = (IF Hopeful(q)' THEN dd ELSE 0) + NoHeld(q)'
  BY DEF Yes, No
<1>5. c \in Nat /\ cc = c + a /\ d \in Nat /\ dd = d + b
  <2>1. c \in Nat /\ cc = c + (IF line \in {Accepts} THEN 1 ELSE 0)
    BY <1>2
  <2>2. d \in Nat /\ dd = d + b
    BY <1>2
  <2> QED BY <2>1, <2>2
<1>6. YesHeld(q)' = v /\ NoHeld(q)' = w /\ v \in Nat /\ w \in Nat
      /\ a \in Nat /\ b \in Nat
  BY <1>3
<1> HIDE DEF c, cc, d, dd, v, w, a, b
<1>7. Yes(q)' <= Yes(q) + a
  BY <1>4, <1>5, <1>6
<1>8. No(q)' <= No(q) + b
  BY <1>4, <1>5, <1>6
<1> QED
  BY <1>7, <1>8 DEF a, b

\* A session that is not hopeful stays so, unless the miner asks again.
LEMMA HopeFacts ==
    ASSUME TypeOK, TypeOK', SessionInv, NEW q \in Pools
    PROVE  /\ UNCHANGED <<pc, toMiner, toPool>> => Hopeful(q)' = Hopeful(q)
           /\ pc[q] # "await" => Hopeful(q)
           /\ toMiner[q] # <<>> /\ Head(toMiner[q]) # Refuses => Hopeful(q)
           /\ known[q] => Hopeful(q)
<1>1. PoolInv(q) /\ toMiner[q] \in Seq(Lines)
  BY DEF SessionInv, TypeOK
<1>2. known[q] => Hopeful(q)
  BY <1>1 DEF PoolInv, ReplyInv, Hopeful
<1>3. toMiner[q] # <<>> /\ Head(toMiner[q]) # Refuses => Hopeful(q)
  <2> SUFFICES ASSUME toMiner[q] # <<>>, Head(toMiner[q]) # Refuses, pc[q] = "await",
                      ~Greeted(toMiner[q])
               PROVE  FALSE
    BY DEF Hopeful
  <2>1. Only(toMiner[q], {Refuses})
    BY <1>1 DEF PoolInv, ReplyInv
  <2>2. Head(toMiner[q]) \in {Refuses}
    BY <1>1, <2>1, TailFacts
  <2> QED BY <2>2
<1> QED
  BY <1>2, <1>3 DEF Hopeful

\* Steps that leave the counts and the answers alone, but for the lines of p.
LEMMA SameElsewhere ==
    ASSUME TypeOK, TypeOK', NEW q \in Pools, answer'[q] = answer[q], pc'[q] = pc[q],
           toMiner'[q] = toMiner[q], toPool'[q] = toPool[q]
    PROVE  Yes(q)' <= Yes(q) /\ No(q)' <= No(q)
<1>1. Hopeful(q)' => Hopeful(q)
  BY DEF Hopeful
<1> QED
  BY <1>1, NoMoreCounts

\* Steps of one pool's connection that count nothing and add no line.
LEMMA QuietStep ==
    ASSUME TypeOK, TypeOK', CountInv, NEW p \in Pools,
           UNCHANGED <<good, bad, accepted, rejected, answer>>,
           \A q \in Pools : q # p => /\ pc'[q] = pc[q] /\ toMiner'[q] = toMiner[q]
                                    /\ toPool'[q] = toPool[q],
           \/ toMiner'[p] = toMiner[p]
           \/ toMiner'[p] = <<>>
           \/ toMiner[p] # <<>> /\ toMiner'[p] = Tail(toMiner[p]),
           toMiner'[p] # <<>> /\ Hopeful(p)' => Hopeful(p)
    PROVE  CountInv'
<1>1. good' = good + 0 /\ bad' = bad + 0 /\ UNCHANGED countVars
  BY DEF countVars, TypeOK
<1>2. Yes(p)' <= Yes(p) /\ No(p)' <= No(p)
  BY NoMoreCounts
<1>3. /\ Yes(p) \in Nat /\ No(p) \in Nat
  BY CountTypes DEF Yeses, Noes
<1>4. \A q \in Pools : q # p => Yes(q)' <= Yes(q) /\ No(q)' <= No(q)
  BY SameElsewhere
<1>5. Yes(p)' <= Yes(p) + 0 /\ No(p)' <= No(p) + 0
  BY <1>2, <1>3
<1> QED
  BY <1>1, <1>4, <1>5, CountStep

\* A line on its way to a pool, and not a login, is no reason for hope.
LEMMA SentKeepsCount ==
    ASSUME TypeOK, TypeOK', CountInv, NEW f \in Files \cup {None}, NEW line \in Requests,
           line.kind # "login", Sent(f, line),
           UNCHANGED <<pc, toMiner, good, bad, accepted, rejected, answer>>
    PROVE  CountInv'
<1>1. PICK r \in Pools :
         /\ toPool'[r] = Append(toPool[r], line) \/ toPool'[r] = toPool[r]
         /\ \A q \in Pools : q # r => toPool'[q] = toPool[q]
  BY SentFacts
<1>2. Hopeful(r)' => Hopeful(r)
  <2>1. Without(toPool[r], "login") => Without(toPool'[r], "login")
    <3>1. toPool[r] \in Seq(Requests)
      BY DEF TypeOK
    <3>2. Without(toPool[r], "login") => Without(Append(toPool[r], line), "login")
      BY <3>1, AppendFacts
    <3> QED BY <1>1, <3>2
  <2> QED BY <2>1 DEF Hopeful
<1> QED
  BY <1>1, <1>2, QuietStep

\* A verdict that is reached, one line read for it.
LEMMA VerdictReached ==
    ASSUME TypeOK, TypeOK', SessionInv, AnswerInv, CountInv, NEW p \in Pools, Receive(p),
           Counts(Head(toMiner[p]))
    PROVE  CountInv'
<1> DEFINE line == Head(toMiner[p])
           valid == Valid(line)
           verdict == [valid |-> valid, old |-> IF valid THEN accepted ELSE rejected]
<1>1. /\ pc[p] = "receive" /\ toMiner[p] # <<>> /\ toMiner'[p] = Tail(toMiner[p])
      /\ \A q \in Pools : q # p => toMiner'[q] = toMiner[q]
      /\ answer' = [answer EXCEPT ![p] = verdict]
      /\ Goto(p, "count")
      /\ UNCHANGED <<toPool, good, bad, accepted, rejected>>
  BY ReadFacts DEF Receive, poolVars
<1>2. /\ answer[p] = None /\ toMiner[p] \in Seq(Lines) /\ Only(toMiner[p], Ordinary)
      /\ answer \in [Pools -> [valid : BOOLEAN, old : Nat] \cup {None}]
      /\ accepted \in Nat /\ rejected \in Nat /\ good \in Nat /\ bad \in Nat
      /\ pc'[p] = "count" /\ \A q \in Pools : q # p => pc'[q] = pc[q]
  BY <1>1 DEF TypeOK, AnswerInv, SessionInv, PoolInv, ReplyInv, InSession, Goto
<1>3. /\ answer'[p] = verdict /\ verdict # None
      /\ verdict.valid = valid /\ verdict.old = IF valid THEN accepted ELSE rejected
      /\ \A q \in Pools : q # p => answer'[q] = answer[q]
  <2>1. verdict \in [valid : BOOLEAN, old : Nat]
    BY <1>2 DEF Valid
  <2>2. verdict # None
    BY <2>1, SessionAssumption
  <2> QED BY <1>1, <1>2, <2>2
<1>4. /\ YesHeld(p) = 0 /\ NoHeld(p) = 0 /\ Hopeful(p) /\ Hopeful(p)'
      /\ YesHeld(p)' = (IF valid THEN 1 ELSE 0) /\ NoHeld(p)' = (IF valid THEN 0 ELSE 1)
  <2> HIDE DEF valid, verdict
  <2> QED BY <1>1, <1>2, <1>3 DEF YesHeld, NoHeld, Hopeful
<1>5. /\ Count(toMiner[p], {Accepts})
            = Count(toMiner'[p], {Accepts}) + (IF valid THEN 1 ELSE 0)
      /\ Count(toMiner[p], {AcceptsBare, Refuses})
            = Count(toMiner'[p], {AcceptsBare, Refuses}) + (IF valid THEN 0 ELSE 1)
      /\ \A S : Count(toMiner'[p], S) \in Nat
  <2>1. line \in Ordinary
    BY <1>1, <1>2, TailFacts
  <2>2. /\ valid <=> line \in {Accepts}
        /\ valid <=> ~(line \in {AcceptsBare, Refuses})
    BY <2>1, LineFacts
  <2>3. \A S : Count(toMiner[p], S)
                = Count(toMiner'[p], S) + (IF line \in S THEN 1 ELSE 0)
    BY <1>1, <1>2, TailFacts
  <2>4. \A S : Count(toMiner'[p], S) \in Nat
    BY CountNat DEF TypeOK
  <2> HIDE DEF valid, line
  <2> QED BY <2>2, <2>3, <2>4
<1>6. Yes(p)' + 0 <= Yes(p) + 0 /\ No(p)' + 0 <= No(p) + 0
  <2> HIDE DEF valid
  <2>1. Yes(p)' = Yes(p) /\ Yes(p) \in Nat
    BY <1>4, <1>5 DEF Yes
  <2>2. No(p)' = No(p) /\ No(p) \in Nat
    BY <1>4, <1>5 DEF No
  <2> QED BY <2>1, <2>2
<1>7. \A q \in Pools : q # p => Yes(q)' <= Yes(q) /\ No(q)' <= No(q)
  BY <1>1, <1>2, <1>3, SameElsewhere
<1> DEFINE y == Total(Yeses)  yy == Total(Yeses')  n == Total(Noes)  nn == Total(Noes')
<1>8. /\ y \in Nat /\ yy \in Nat /\ n \in Nat /\ nn \in Nat
      /\ yy + 0 <= y + 0 /\ nn + 0 <= n + 0
  BY <1>6, <1>7, TotalsStep
<1>9. /\ accepted + y <= good /\ rejected + n <= bad
      /\ \A q \in Pools : answer[q] # None =>
            /\ answer[q].old \in Nat
            /\ IF answer[q].valid THEN answer[q].old + y <= good
               ELSE answer[q].old + n <= bad
  BY <1>2 DEF CountInv
<1> HIDE DEF y, yy, n, nn, valid, verdict
<1>10. accepted' + yy <= good' /\ rejected' + nn <= bad'
  BY <1>1, <1>2, <1>8, <1>9
<1>11. ASSUME NEW q \in Pools, answer'[q] # None
       PROVE  IF answer'[q].valid THEN answer'[q].old + yy <= good'
              ELSE answer'[q].old + nn <= bad'
  <2>1. CASE q = p
    BY <1>1, <1>2, <1>3, <1>8, <1>9, <2>1
  <2>2. CASE q # p
    BY <1>1, <1>2, <1>3, <1>8, <1>9, <1>11, <2>2
  <2> QED BY <2>1, <2>2
<1> QED
  BY <1>10, <1>11 DEF CountInv, yy, nn

\* A verdict that is counted.
LEMMA VerdictCounted ==
    ASSUME TypeOK, TypeOK', AnswerInv, CountInv, NEW p \in Pools, ShareResult(p)
    PROVE  CountInv'
<1> DEFINE valid == answer[p].valid
<1>1. /\ pc[p] = "count" /\ answer[p] # None /\ answer[p] \in [valid : BOOLEAN, old : Nat]
      /\ answer'[p] = None /\ pc'[p] = "receive"
      /\ \A q \in Pools : q # p => answer'[q] = answer[q] /\ pc'[q] = pc[q]
      /\ IF valid THEN accepted' = answer[p].old + 1 /\ rejected' = rejected
         ELSE rejected' = answer[p].old + 1 /\ accepted' = accepted
      /\ UNCHANGED <<toPool, toMiner, good, bad>>
  BY DEF ShareResult, AnswerInv, TypeOK, Goto, netVars, poolVars
<1>2. /\ accepted \in Nat /\ rejected \in Nat /\ good \in Nat /\ bad \in Nat
      /\ answer \in [Pools -> [valid : BOOLEAN, old : Nat] \cup {None}]
      /\ \A S : Count(toMiner[p], S) \in Nat
  BY CountNat DEF TypeOK
<1>3. /\ Hopeful(p) /\ Hopeful(p)'
      /\ YesHeld(p)' = 0 /\ NoHeld(p)' = 0
      /\ YesHeld(p) = (IF valid THEN 1 ELSE 0) /\ NoHeld(p) = (IF valid THEN 0 ELSE 1)
  BY <1>1 DEF YesHeld, NoHeld, Hopeful
<1> HIDE DEF valid
<1>4. /\ Yes(p)' + (IF valid THEN 1 ELSE 0) <= Yes(p) + 0
      /\ No(p)' + (IF valid THEN 0 ELSE 1) <= No(p) + 0
  <2>1. Yes(p)' + (IF valid THEN 1 ELSE 0) = Yes(p) /\ Yes(p) \in Nat
    BY <1>1, <1>2, <1>3 DEF Yes
  <2>2. No(p)' + (IF valid THEN 0 ELSE 1) = No(p) /\ No(p) \in Nat
    BY <1>1, <1>2, <1>3 DEF No
  <2> QED BY <2>1, <2>2
<1>5. \A q \in Pools : q # p => Yes(q)' <= Yes(q) /\ No(q)' <= No(q)
  BY <1>1, SameElsewhere
<1> DEFINE y == Total(Yeses)  yy == Total(Yeses')  n == Total(Noes)  nn == Total(Noes')
           c == IF valid THEN 1 ELSE 0  d == IF valid THEN 0 ELSE 1
<1>6. /\ y \in Nat /\ yy \in Nat /\ n \in Nat /\ nn \in Nat
      /\ yy + c <= y + 0 /\ nn + d <= n + 0
  <2>1. c \in {0, 1} /\ d \in {0, 1}
    OBVIOUS
  <2> HIDE DEF c, d
  <2>2. Yes(p)' + c <= Yes(p) + 0 /\ No(p)' + d <= No(p) + 0
    BY <1>4 DEF c, d
  <2> QED BY <1>5, <2>1, <2>2, TotalsStep
<1>7. /\ accepted + y <= good /\ rejected + n <= bad
      /\ \A q \in Pools : answer[q] # None =>
            /\ answer[q].old \in Nat
            /\ IF answer[q].valid THEN answer[q].old + y <= good
               ELSE answer[q].old + n <= bad
  BY <1>2 DEF CountInv
<1> HIDE DEF y, yy, n, nn
<1>8. accepted' + yy <= good' /\ rejected' + nn <= bad'
  <2>1. CASE valid
    BY <1>1, <1>2, <1>6, <1>7, <2>1 DEF valid
  <2>2. CASE ~valid
    BY <1>1, <1>2, <1>6, <1>7, <2>2 DEF valid
  <2> QED BY <2>1, <2>2
<1>9. yy <= y /\ nn <= n
  BY <1>6
<1>10. ASSUME NEW q \in Pools, answer'[q] # None
       PROVE  IF answer'[q].valid THEN answer'[q].old + yy <= good'
              ELSE answer'[q].old + nn <= bad'
  BY <1>1, <1>2, <1>6, <1>7, <1>9, <1>10
<1> QED
  BY <1>8, <1>10 DEF CountInv, yy, nn

LEMMA ThreadKeepsCount ==
    ASSUME TypeOK, TypeOK', SessionInv, AnswerInv, CountInv, NEW p \in Pools, ThreadStep(p)
    PROVE  CountInv'
<1> USE DEF threadVars, netVars, poolVars, countVars
<1>1. pc \in [Pools -> {"down", "connect", "login", "await"} \cup InSession]
  BY DEF TypeOK
<1>2. ASSUME Disconnect(p), UNCHANGED <<good, bad, countVars>> PROVE CountInv'
  <2>1. /\ toMiner'[p] = <<>>
        /\ \A q \in Pools : q # p => /\ toPool'[q] = toPool[q] /\ toMiner'[q] = toMiner[q]
                                     /\ pc'[q] = pc[q]
    BY <1>1, <1>2, DisconnectKeepsType DEF Disconnect, Goto
  <2> QED BY <1>2, <2>1, QuietStep
<1>3. CASE Connect(p) \/ Connected(p) \/ SendLogin(p)
  <2>1. /\ pc[p] # "await" /\ UNCHANGED <<good, bad, countVars, toMiner>>
        /\ \A q \in Pools : q # p => pc'[q] = pc[q]
    BY <1>1, <1>3 DEF Connect, Connected, SendLogin, Goto
  <2>2. \A q \in Pools : q # p => toPool'[q] = toPool[q]
    <3>1. CASE SendLogin(p)
      <4>1. /\ Sent(sock[p], [kind |-> "login"]) /\ sock[p] \in Files \cup {None}
            /\ file[sock[p]] = p
        BY <3>1 DEF SendLogin, TypeOK, SessionInv, FileInv
      <4> QED BY <4>1, SentFacts, RequestFacts
    <3>2. CASE Connect(p) \/ Connected(p)
      BY <3>2 DEF Connect, Connected
    <3> QED BY <1>3, <3>1, <3>2
  <2>3. Hopeful(p)
    BY <2>1 DEF Hopeful
  <2> QED BY <2>1, <2>2, <2>3, QuietStep
<1>4. CASE GiveUp(p)
  BY <1>2, <1>4 DEF GiveUp
<1>5. CASE JobWhileAwaiting(p)
  <2>1. /\ toMiner[p] # <<>> /\ toMiner'[p] = Tail(toMiner[p]) /\ Head(toMiner[p]) = Job(TRUE)
        /\ \A q \in Pools : q # p => toMiner'[q] = toMiner[q]
        /\ UNCHANGED <<good, bad, countVars, pc, toPool>>
    BY <1>5, ReadFacts DEF JobWhileAwaiting
  <2>2. Head(toMiner[p]) # Refuses
    BY <2>1 DEF Job, Refuses, Answer
  <2>3. Hopeful(p)
    BY <2>1, <2>2, HopeFacts
  <2> QED BY <2>1, <2>3, QuietStep
<1>6. CASE LoginAnswered(p)
  <2>1. CASE Disconnect(p)
    BY <1>2, <1>6, <2>1 DEF LoginAnswered
  <2>2. CASE /\ LoginSucceeds(p, Head(toMiner[p])) /\ ReadLine(p) /\ Goto(p, "receive")
             /\ UNCHANGED <<file, link, toPool, known, hand>>
    <3>1. /\ toMiner[p] # <<>> /\ toMiner'[p] = Tail(toMiner[p])
          /\ \A q \in Pools : q # p => toMiner'[q] = toMiner[q] /\ pc'[q] = pc[q]
          /\ UNCHANGED <<good, bad, countVars, toPool>>
      BY <1>1, <1>6, <2>2, ReadFacts DEF LoginAnswered, Goto
    <3>2. Head(toMiner[p]) # Refuses
      BY <2>2 DEF LoginSucceeds, Refuses, Answer
    <3>3. Hopeful(p)
      BY <3>1, <3>2, HopeFacts
    <3> QED BY <3>1, <3>3, QuietStep
  <2> QED BY <1>6, <2>1, <2>2 DEF LoginAnswered
<1>7. CASE SendKeepalive(p)
  <2> DEFINE line == [kind |-> "keepalived"]
  <2>1. line \in Requests /\ line.kind # "login"
    BY RequestFacts
  <2>2. /\ sock[p] \in Files \cup {None} /\ Sent(sock[p], line)
        /\ UNCHANGED <<good, bad, accepted, rejected, answer, pc, toMiner>>
    BY <1>7 DEF SendKeepalive, TypeOK
  <2> HIDE DEF line
  <2> QED BY <2>1, <2>2, SentKeepsCount
<1>8. CASE Receive(p)
  <2>1. CASE Counts(Head(toMiner[p]))
    BY <1>8, <2>1, VerdictReached
  <2>2. CASE ~Counts(Head(toMiner[p]))
    <3>1. /\ pc[p] = "receive" /\ toMiner[p] # <<>> /\ toMiner'[p] = Tail(toMiner[p])
          /\ \A q \in Pools : q # p => toMiner'[q] = toMiner[q]
          /\ UNCHANGED <<toPool, good, bad, accepted, rejected, answer, pc>>
      BY <1>8, <2>2, ReadFacts DEF Receive
    <3>2. Hopeful(p)
      BY <3>1 DEF Hopeful
    <3> QED BY <3>1, <3>2, QuietStep
  <2> QED BY <2>1, <2>2
<1>9. CASE ShareResult(p)
  BY <1>9, VerdictCounted
<1> QED
  BY <1>3, <1>4, <1>5, <1>6, <1>7, <1>8, <1>9 DEF ThreadStep

LEMMA AnswersKeepCount ==
    ASSUME TypeOK, TypeOK', SessionInv, CountInv, NEW p \in Pools, PoolAnswers(p)
    PROVE  CountInv'
<1> USE DEF threadVars, netVars, poolVars, countVars
<1>1. /\ toPool[p] \in Seq(Requests) /\ toPool[p] # <<>> /\ toMiner[p] \in Seq(Lines)
      /\ toPool \in [Pools -> Seq(Requests)] /\ toMiner \in [Pools -> Seq(Lines)]
      /\ toPool' = [toPool EXCEPT ![p] = Tail(@)]
      /\ UNCHANGED <<pc, accepted, rejected, answer>> /\ link[p] = "up"
      /\ Len(toMiner[p]) < MaxWire
      /\ good \in Nat /\ bad \in Nat
  BY DEF TypeOK, PoolAnswers
<1>2. toPool'[p] = Tail(toPool[p]) /\ \A q \in Pools : q # p => toPool'[q] = toPool[q]
  BY <1>1
<1>3. /\ Without(toPool[p], "login") => Without(toPool'[p], "login")
      /\ Head(toPool[p]).kind = "login" => /\ Without(toPool'[p], "login")
                                           /\ ~Without(toPool[p], "login")
  <2>1. OneLogin(toPool[p])
    BY DEF SessionInv, PoolInv, RequestInv
  <2> QED BY <1>1, <1>2, <2>1, TailFacts
<1>4. Yes(p) \in Nat /\ No(p) \in Nat
  BY CountTypes DEF Yeses, Noes
<1>5. ASSUME NEW a \in {0, 1}, NEW b \in {0, 1}, good' = good + a, bad' = bad + b,
             \A q \in Pools : q # p => toMiner'[q] = toMiner[q],
             Yes(p)' <= Yes(p) + a, No(p)' <= No(p) + b
      PROVE  CountInv'
  <2>1. \A q \in Pools : q # p => Yes(q)' <= Yes(q) /\ No(q)' <= No(q)
    BY <1>1, <1>2, <1>5, SameElsewhere
  <2> QED BY <1>1, <1>5, <2>1, CountStep
<1>6. ASSUME NEW line \in Ordinary, Replies(p, line)
      PROVE  /\ Yes(p)' <= Yes(p) + (IF line = Accepts THEN 1 ELSE 0)
             /\ No(p)' <= No(p) + (IF line \in {AcceptsBare, Refuses} THEN 1 ELSE 0)
             /\ \A q \in Pools : q # p => toMiner'[q] = toMiner[q]
  <2>1. /\ line \in Lines /\ toMiner'[p] = Append(toMiner[p], line)
        /\ \A q \in Pools : q # p => toMiner'[q] = toMiner[q]
    BY <1>1, <1>6, RepliesFacts, LineFacts
  <2>2. ASSUME Hopeful(p)' PROVE Hopeful(p)
    <3> SUFFICES ASSUME ~Hopeful(p) PROVE FALSE
      OBVIOUS
    <3>1. pc[p] = "await" /\ ~Greeted(toMiner[p]) /\ Without(toPool[p], "login")
      BY DEF Hopeful
    <3>2. Only(toMiner[p], {Refuses})
      BY <1>1, <3>1 DEF SessionInv, PoolInv, ReplyInv
    <3>3. Only(toMiner'[p], Ordinary)
      <4>1. Only(toMiner[p], Ordinary)
        BY <3>2 DEF Only, Ordinary
      <4>2. Only(Append(toMiner[p], line), Ordinary)
        BY <1>1, <1>6, <2>1, <4>1, AppendFacts
      <4> QED BY <2>1, <4>2
    <3>4. ~Greeted(toMiner'[p])
      BY <3>3, LineFacts DEF Greeted, Only
    <3> QED BY <1>1, <1>3, <2>2, <3>1, <3>4 DEF Hopeful
  <2> QED BY <1>1, <2>1, <2>2, OneMoreCount
<1>7. CASE \E lines \in Greetings :
              /\ toMiner' = [toMiner EXCEPT ![p] = @ \o lines]
              /\ Head(toPool[p]).kind = "login" /\ UNCHANGED <<good, bad>>
  <2>1. PICK lines \in Greetings : toMiner' = [toMiner EXCEPT ![p] = @ \o lines]
    BY <1>7
  <2>2. /\ toMiner'[p] = toMiner[p] \o lines
        /\ \A q \in Pools : q # p => toMiner'[q] = toMiner[q]
    BY <1>1, <2>1
  <2>3. Hopeful(p)
    BY <1>3, <1>7 DEF Hopeful
  <2>4. ASSUME NEW S, S \cap (Welcomed \cup {Job(TRUE), Job(FALSE)}) = {}
        PROVE  Count(toMiner'[p], S) = Count(toMiner[p], S)
    <3>1. Count(toMiner[p], S) \in Nat
      BY <1>1, CountNat
    <3>2. ASSUME NEW w \in Welcomed, toMiner'[p] = Append(toMiner[p], w)
          PROVE  Count(toMiner'[p], S) = Count(toMiner[p], S)
      <4>1. w \in Lines /\ w \notin S
        BY <2>4, LineFacts
      <4> QED BY <1>1, <3>1, <3>2, <4>1, AppendFacts
    <3>3. ASSUME NEW w \in Welcomed, NEW j \in {Job(TRUE), Job(FALSE)},
                 toMiner'[p] = Append(Append(toMiner[p], j), w)
          PROVE  Count(toMiner'[p], S) = Count(toMiner[p], S)
      <4>1. j \in Lines /\ w \in Lines /\ w \notin S /\ j \notin S
        BY <2>4, LineFacts, ReplyFacts
      <4> DEFINE s == Append(toMiner[p], j)
      <4>2. s \in Seq(Lines) /\ Count(s, S) = Count(toMiner[p], S)
        BY <1>1, <3>1, <4>1, AppendFacts
      <4>3. toMiner'[p] = Append(s, w)
        BY <3>3
      <4> HIDE DEF s
      <4>4. Count(Append(s, w), S) = Count(s, S) + (IF w \in S THEN 1 ELSE 0)
        BY <4>1, <4>2, AppendFacts
      <4> QED BY <3>1, <4>1, <4>2, <4>3, <4>4
    <3> QED BY <1>1, <2>2, <3>2, <3>3, GreetingFacts
  <2>5. /\ Count(toMiner'[p], {Accepts}) = Count(toMiner[p], {Accepts})
        /\ Count(toMiner'[p], {AcceptsBare, Refuses}) = Count(toMiner[p], {AcceptsBare, Refuses})
    <3>1. /\ {Accepts} \cap (Welcomed \cup {Job(TRUE), Job(FALSE)}) = {}
          /\ {AcceptsBare, Refuses} \cap (Welcomed \cup {Job(TRUE), Job(FALSE)}) = {}
      BY DEF Welcomed, Job, Accepts, AcceptsBare, Refuses, Welcome, WelcomeBut, Answer
    <3> QED BY <2>4, <3>1
  <2>6. YesHeld(p)' = YesHeld(p) /\ NoHeld(p)' = NoHeld(p)
    BY <1>1 DEF YesHeld, NoHeld
  <2>7. Yes(p)' = Yes(p)
    BY <2>5, <2>6 DEF Yes
  <2>8. No(p)' <= No(p) + 0
    <3>1. CASE Hopeful(p)'
      BY <1>4, <2>3, <2>5, <2>6, <3>1 DEF No
    <3>2. CASE ~Hopeful(p)'
      <4>1. Count(toMiner[p], {AcceptsBare, Refuses}) \in Nat /\ NoHeld(p) \in Nat
        BY <1>1, CountNat DEF NoHeld
      <4> QED BY <2>3, <2>6, <3>2, <4>1 DEF No
    <3> QED BY <3>1, <3>2
  <2>9. Yes(p)' <= Yes(p) + 0 /\ good' = good + 0 /\ bad' = bad + 0
    BY <1>1, <1>4, <1>7, <2>7
  <2> QED BY <1>5, <2>2, <2>8, <2>9
<1>8. CASE /\ Head(toPool[p]).kind = "login" /\ Replies(p, Refuses)
           /\ UNCHANGED <<known, good, bad>>
  <2>1. Refuses \in Lines /\ Refuses \in Ordinary /\ Refuses # Accepts
    BY ReplyFacts DEF Ordinary, Refuses, Accepts, Answer
  <2>2. /\ Yes(p)' <= Yes(p) + 0
        /\ \A q \in Pools : q # p => toMiner'[q] = toMiner[q]
    BY <1>6, <1>8, <2>1
  <2>3. pc[p] = "await" /\ ~known[p]
    BY <1>3, <1>8 DEF SessionInv, PoolInv, RequestInv
  <2>4. Only(toMiner[p], {Refuses})
    BY <1>1, <2>3 DEF SessionInv, PoolInv, ReplyInv
  <2>5. ~Greeted(toMiner'[p])
    <3>1. Only(toMiner[p], Ordinary)
      BY <2>4 DEF Only, Ordinary
    <3>2. Only(Append(toMiner[p], Refuses), Ordinary)
      BY <1>1, <2>1, <3>1, AppendFacts
    <3>3. toMiner'[p] = Append(toMiner[p], Refuses)
      BY <1>1, <1>8, <2>1, RepliesFacts
    <3> QED BY <3>2, <3>3, LineFacts DEF Greeted, Only
  <2>6. ~Hopeful(p)'
    BY <1>1, <1>3, <1>8, <2>3, <2>5 DEF Hopeful
  <2>7. No(p)' <= No(p) + 0
    <3>1. NoHeld(p)' = NoHeld(p) /\ NoHeld(p) \in Nat
      BY <1>1 DEF NoHeld
    <3>2. Count(toMiner[p], {AcceptsBare, Refuses}) \in Nat
      BY <1>1, CountNat
    <3>3. No(p)' = 0 + NoHeld(p)'
      BY <2>6 DEF No
    <3> QED BY <3>1, <3>2, <3>3 DEF No
  <2>8. good' = good + 0 /\ bad' = bad + 0
    BY <1>1, <1>8
  <2> QED BY <1>5, <2>2, <2>7, <2>8
<1>9. CASE Replies(p, Accepts) /\ good' = good + 1 /\ UNCHANGED bad
  <2>1. Accepts \in Ordinary /\ Accepts \notin {AcceptsBare, Refuses}
    BY DEF Ordinary, Accepts, AcceptsBare, Refuses, Answer
  <2>2. bad' = bad + 0
    BY <1>1, <1>9
  <2>3. /\ Yes(p)' <= Yes(p) + 1 /\ No(p)' <= No(p) + 0
        /\ \A q \in Pools : q # p => toMiner'[q] = toMiner[q]
    BY <1>6, <1>9, <2>1
  <2> QED BY <1>5, <1>9, <2>2, <2>3
<1>10. ASSUME NEW line \in {AcceptsBare, Refuses}, Replies(p, line), bad' = bad + 1,
              UNCHANGED good
       PROVE  CountInv'
  <2>1. line \in Ordinary /\ line # Accepts
    <3>1. AcceptsBare # Accepts /\ Refuses # Accepts
      BY DEF Accepts, AcceptsBare, Refuses, Answer
    <3>2. AcceptsBare \in Ordinary /\ Refuses \in Ordinary
      BY DEF Ordinary
    <3> QED BY <1>10, <3>1, <3>2
  <2>2. good' = good + 0
    BY <1>1, <1>10
  <2>3. /\ Yes(p)' <= Yes(p) + 0 /\ No(p)' <= No(p) + 1
        /\ \A q \in Pools : q # p => toMiner'[q] = toMiner[q]
    BY <1>6, <1>10, <2>1
  <2> QED BY <1>5, <1>10, <2>2, <2>3
<1>11. CASE Replies(p, Alive) /\ UNCHANGED <<good, bad>>
  <2>1. Alive \in Ordinary /\ Alive # Accepts /\ Alive \notin {AcceptsBare, Refuses}
    BY DEF Ordinary, Alive, Accepts, AcceptsBare, Refuses, Answer
  <2>2. good' = good + 0 /\ bad' = bad + 0
    BY <1>1, <1>11
  <2>3. /\ Yes(p)' <= Yes(p) + 0 /\ No(p)' <= No(p) + 0
        /\ \A q \in Pools : q # p => toMiner'[q] = toMiner[q]
    BY <1>6, <1>11, <2>1
  <2> QED BY <1>5, <2>2, <2>3
<1>12. CASE /\ \E line \in {Refuses} \cup (IF known[p] THEN {AcceptsBare} ELSE {}) :
                  Replies(p, line)
            /\ bad' = bad + 1 /\ UNCHANGED good
  <2>1. PICK line \in {AcceptsBare, Refuses} : Replies(p, line)
    BY <1>12
  <2> QED BY <1>10, <1>12, <2>1
<1> QED
  BY <1>7, <1>8, <1>9, <1>11, <1>12 DEF PoolAnswers

LEMMA StepKeepsCount ==
    ASSUME TypeOK, TypeOK', SessionInv, AnswerInv, CountInv, [Next]_vars
    PROVE  CountInv'
<1> USE DEF threadVars, netVars, poolVars, countVars
<1>1. PICK r \in Pools : TRUE
  BY SessionAssumption
<1>2. CASE UNCHANGED <<pc, netVars, good, bad, countVars>>
  <2>1. Hopeful(r)' = Hopeful(r)
    BY <1>2, HopeFacts
  <2> QED BY <1>2, <2>1, QuietStep
<1>3. CASE SendShare
  <2> DEFINE line == [kind |-> "submit", from |-> hand.pool,
                      orphan |-> pc[hand.pool] = "down",
                      current |-> hand.current, steady |-> hand.steady]
  <2>1. hand.pool \in Pools /\ hand.current \in BOOLEAN /\ hand.steady \in BOOLEAN
    BY <1>3 DEF SendShare, TypeOK, Hands
  <2>2. line \in Requests /\ line.kind # "login" /\ sock[hand.pool] \in Files \cup {None}
    BY <2>1, RequestFacts DEF TypeOK
  <2>3. /\ Sent(sock[hand.pool], line)
        /\ UNCHANGED <<pc, toMiner, good, bad, accepted, rejected, answer>>
    BY <1>3 DEF SendShare
  <2> HIDE DEF line
  <2> QED BY <2>2, <2>3, SentKeepsCount
<1>4. ASSUME NEW p \in Pools, PoolSendsJob(p) PROVE CountInv'
  <2>1. /\ UNCHANGED <<pc, toPool, good, bad, accepted, rejected, answer>> /\ known[p]
        /\ Replies(p, Job(TRUE)) /\ toMiner[p] = <<>>
    BY <1>4 DEF PoolSendsJob
  <2>2. Len(toMiner[p]) < MaxWire
    <3>1. Len(<<>>) = 0 /\ 0 < MaxWire
      BY ConstantFacts
    <3> QED BY <2>1, <3>1
  <2>3. /\ Job(TRUE) \in Lines /\ toMiner'[p] = Append(toMiner[p], Job(TRUE))
        /\ \A q \in Pools : q # p => toMiner'[q] = toMiner[q]
    BY <2>1, <2>2, RepliesFacts, ReplyFacts
  <2>4. Hopeful(p)
    BY <2>1, HopeFacts
  <2>5. Job(TRUE) # Accepts /\ Job(TRUE) \notin {AcceptsBare, Refuses}
    BY DEF Job, Accepts, AcceptsBare, Refuses, Answer
  <2>6. Yes(p)' <= Yes(p) + 0 /\ No(p)' <= No(p) + 0
    BY <2>1, <2>3, <2>4, <2>5, OneMoreCount
  <2>7. \A q \in Pools : q # p => Yes(q)' <= Yes(q) /\ No(q)' <= No(q)
    BY <2>1, <2>3, SameElsewhere
  <2>8. good' = good + 0 /\ bad' = bad + 0
    BY <2>1 DEF TypeOK
  <2> QED BY <2>1, <2>6, <2>7, <2>8, CountStep
<1>5. ASSUME NEW p \in Pools, LoseLink(p) PROVE CountInv'
  <2>1. /\ UNCHANGED <<pc, good, bad, accepted, rejected, answer>>
        /\ toPool'[p] = <<>>
        /\ \A q \in Pools : q # p => toPool'[q] = toPool[q] /\ toMiner'[q] = toMiner[q]
        /\ toMiner'[p] = toMiner[p] \/ toMiner'[p] = <<>>
    BY <1>5 DEF LoseLink, TypeOK
  <2>2. toMiner'[p] # <<>> /\ Hopeful(p)' => Hopeful(p)
    BY <2>1, NothingFacts DEF Hopeful
  <2> QED BY <2>1, <2>2, QuietStep
<1> QED
  BY <1>2, <1>3, <1>4, <1>5, ThreadKeepsCount, AnswersKeepCount
     DEF Next, vars, SubmitStep, FormShare, SendShareFails, TakeShare

\* accepted_count and rejected_count never exceed the answers the pools gave,
\* though the two threads lose each other's increments and share_result counts
\* whatever answer comes while a session lasts.
THEOREM CountersSound == Spec => []NeverOvercounted
<1>1. Init => CountInv
  <2> SUFFICES ASSUME Init PROVE CountInv
    OBVIOUS
  <2>1. \A p \in Pools : Yes(p) = 0 /\ No(p) = 0
    <3>1. \A p \in Pools : toMiner[p] = <<>> /\ answer[p] = None
      BY DEF Init
    <3>2. \A p \in Pools : \A S : Count(toMiner[p], S) = 0
      BY <3>1, NothingFacts
    <3> QED BY <3>1, <3>2 DEF Yes, No, YesHeld, NoHeld
  <2>2. Total(Yeses) = 0 /\ Total(Noes) = 0
    BY <2>1 DEF Total, Yeses, Noes
  <2>3. \A p \in Pools : answer[p] = None
    BY DEF Init
  <2> QED BY <2>2, <2>3 DEF Init, CountInv
<1>2. TypeOK /\ TypeOK' /\ SessionInv /\ AnswerInv /\ CountInv /\ [Next]_vars => CountInv'
  BY StepKeepsCount
<1>3. TypeOK /\ CountInv => NeverOvercounted
  <2> SUFFICES ASSUME TypeOK, CountInv PROVE NeverOvercounted
    OBVIOUS
  <2>1. PICK p \in Pools : TRUE
    BY SessionAssumption
  <2>2. Total(Yeses) \in Nat /\ Total(Noes) \in Nat
    BY <2>1, CountTypes, TotalFacts
  <2> QED BY <2>2 DEF CountInv, NeverOvercounted, TypeOK
<1> QED
  BY <1>1, <1>2, <1>3, SessionTypes, SessionInvariant, PTL DEF Spec
==============================================================================
