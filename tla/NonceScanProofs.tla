-------------------------- MODULE NonceScanProofs --------------------------
(***************************************************************************)
(* Theorems about module NonceScan: whatever the number of threads, the    *)
(* size of a batch and the widths of the nonce are, every miner thread     *)
(* tries the nonces of its range once each before it tries others.         *)
(***************************************************************************)
EXTENDS NonceScan, FiniteSetTheorems, TLAPS

-----------------------------------------------------------------------------
(* Arithmetic.                                                             *)

LEMMA DivFacts ==
    ASSUME NEW a \in Nat, NEW n \in Nat \ {0}
    PROVE  /\ a \div n \in Nat /\ (a % n) \in 0..(n - 1)
           /\ a = n * (a \div n) + (a % n)
<1>1. a \div n \in Nat
  OBVIOUS
<1>2. (a % n) \in 0..(n - 1)
  OBVIOUS
<1>3. a = n * (a \div n) + (a % n)
  OBVIOUS
<1> QED
  BY <1>1, <1>2, <1>3

LEMMA ModInRange ==
    ASSUME NEW a \in Int, NEW n \in Nat \ {0}
    PROVE  (a % n) \in 0..(n - 1)
OBVIOUS

\* At most one turn away from 0..(n - 1).
LEMMA ModFacts ==
    ASSUME NEW x \in Nat, NEW n \in Nat \ {0}, x < n
    PROVE  (x % n) = x /\ ((x + n) % n) = x /\ ((x - n) % n) = x
<1>1. (x % n) = x
  OBVIOUS
<1>2. ((x + n) % n) = x
  OBVIOUS
<1>3. ((x - n) % n) = x
  OBVIOUS
<1> QED
  BY <1>1, <1>2, <1>3

LEMMA ModOfSum ==
    ASSUME NEW b \in Nat, NEW n \in Nat \ {0}, (b % n) = 0, NEW k \in Nat, k < n
    PROVE  ((b + k) % n) = k
BY SMTT(30)

LEMMA TimesMonotone ==
    ASSUME NEW a \in Nat, NEW b \in Nat, NEW n \in Nat, a <= b
    PROVE  n * a <= n * b /\ n * a \in Nat /\ n * b \in Nat
OBVIOUS

\* A nonce moves on by the difference of two.
LEMMA MoveTo ==
    ASSUME NEW from \in Nat, NEW to \in Nat, NEW n \in Nat \ {0}, from < n, to < n
    PROVE  ((from + ((to - from) % n)) % n) = to
<1>1. CASE from <= to
  <2> DEFINE d == to - from
  <2>1. d \in Nat /\ d < n /\ from + d = to
    BY <1>1
  <2> HIDE DEF d
  <2>2. (d % n) = d /\ (to % n) = to
    BY <2>1, ModFacts
  <2> QED BY <2>1, <2>2 DEF d
<1>2. CASE to < from
  <2> DEFINE d == (to - from) + n
  <2>1. d \in Nat /\ d < n /\ from + d = to + n /\ to - from = d - n
    BY <1>2
  <2> HIDE DEF d
  <2>2. ((d - n) % n) = d /\ ((to + n) % n) = to
    BY <2>1, ModFacts
  <2> QED BY <2>1, <2>2
<1> QED
  BY <1>1, <1>2

LEMMA ParameterFacts ==
    /\ LowMask \in Nat \ {0} /\ Width \in Nat \ {0} /\ Gap \in Nat \ {0}
    /\ Throughput \in Nat \ {0} /\ Throughput <= LowMask /\ MaxThreads \in Nat \ {0}
    /\ LowMask < Width
    /\ Slices \subseteq Nat \ {0} /\ MaxJobs \in Nat
    /\ \A p \in Pools, j \in Jobs : /\ Base[p][j] \in Nonces
                                    /\ (Base[p][j] % (LowMask + 1)) = 0
                                    /\ Base[p][j] + LowMask < Width
    /\ None \notin Nonces
<1>1. /\ LowMask \in Nat \ {0} /\ Width \in Nat \ {0} /\ Gap \in Nat \ {0}
      /\ Throughput \in Nat \ {0} /\ Throughput <= LowMask /\ MaxThreads \in Nat \ {0}
      /\ Slices \subseteq Nat \ {0} /\ MaxJobs \in Nat /\ None \notin Nonces
      /\ (Width % (LowMask + 1)) = 0
  BY ScanAssumption
<1>2. \A p \in Pools, j \in Jobs : /\ Base[p][j] \in Nonces
                                   /\ (Base[p][j] % (LowMask + 1)) = 0
  BY ScanAssumption
<1>3. ASSUME NEW b \in Nat, b < Width, (b % (LowMask + 1)) = 0
      PROVE  b + LowMask < Width
  <2> DEFINE n == LowMask + 1  m == b \div n  w == Width \div n
  <2>1. n \in Nat \ {0} /\ (Width % n) = 0 /\ (b % n) = 0
    BY <1>1, <1>3
  <2>2. m \in Nat /\ w \in Nat /\ b = n * m + 0 /\ Width = n * w + 0
    <3> HIDE DEF n
    <3> QED BY <1>1, <1>3, <2>1, DivFacts
  <2> HIDE DEF n, m, w
  <2>3. n * m \in Nat /\ n * w \in Nat /\ b = n * m /\ Width = n * w
    BY <2>1, <2>2
  <2>4. m < w
    <3> SUFFICES ASSUME w <= m PROVE FALSE
      BY <2>2
    <3>1. n * w <= n * m
      BY <2>1, <2>2, TimesMonotone
    <3> QED BY <1>1, <1>3, <2>3, <3>1
  <2>5. n * (m + 1) <= n * w
    BY <2>1, <2>2, <2>4, TimesMonotone
  <2>6. n * (m + 1) = n * m + n
    BY <2>1, <2>2
  <2> QED BY <1>1, <1>3, <2>3, <2>5, <2>6 DEF n
<1>4. LowMask < Width
  <2>1. (0 % (LowMask + 1)) = 0
    BY <1>1
  <2> QED BY <1>1, <1>3, <2>1
<1>5. ASSUME NEW p \in Pools, NEW j \in Jobs PROVE Base[p][j] + LowMask < Width
  <2> DEFINE b == Base[p][j]
  <2>1. b \in Nat /\ b < Width /\ (b % (LowMask + 1)) = 0
    BY <1>1, <1>2 DEF Nonces
  <2> HIDE DEF b
  <2>2. b + LowMask < Width
    BY <1>3, <2>1
  <2> QED BY <2>2 DEF b
<1> QED
  BY <1>1, <1>2, <1>4, <1>5

\* The range of a thread lies between two multiples of LowMask + 1.
LEMMA RangeFacts ==
    ASSUME threads \in 1..MaxThreads, id \in 0..(threads - 1), NEW b \in Nat
    PROVE  /\ RangeBegin(b) \in Nat /\ RangeEnd(b) \in Nat
           /\ b <= RangeBegin(b) /\ RangeBegin(b) < RangeEnd(b) /\ RangeEnd(b) < b + LowMask
<1> DEFINE t == threads  s == LowMask \div t  g == LowMask \div MaxThreads
<1>1. /\ LowMask \in Nat \ {0} /\ Gap \in Nat \ {0} /\ MaxThreads \in Nat \ {0}
      /\ t \in Nat \ {0} /\ t <= MaxThreads /\ id \in Nat /\ id + 1 <= t /\ g > Gap
  BY ParameterFacts, ScanAssumption
<1> HIDE DEF t
<1>2. /\ s \in Nat /\ LowMask = t * s + (LowMask % t) /\ (LowMask % t) \in 0..(t - 1)
      /\ g \in Nat /\ LowMask = MaxThreads * g + (LowMask % MaxThreads)
      /\ (LowMask % MaxThreads) \in 0..(MaxThreads - 1)
  BY <1>1, DivFacts
<1> HIDE DEF s, g
<1>3. g <= s
  <2> SUFFICES ASSUME s + 1 <= g PROVE FALSE
    BY <1>2
  <2>1. t * (s + 1) <= t * g /\ t * (s + 1) = t * s + t /\ t * g \in Nat
    BY <1>1, <1>2, TimesMonotone
  <2>2. g * t <= g * MaxThreads /\ g * MaxThreads \in Nat
    BY <1>1, <1>2, TimesMonotone
  <2>3. t * g = g * t /\ MaxThreads * g = g * MaxThreads /\ t * s \in Nat
    BY <1>1, <1>2
  <2> QED BY <1>1, <1>2, <2>1, <2>2, <2>3
<1>4. s * (id + 1) <= s * t /\ s * t = t * s /\ s * (id + 1) = s * id + s
      /\ s * id \in Nat /\ s * t \in Nat
  BY <1>1, <1>2, TimesMonotone
<1>5. /\ RangeBegin(b) = b + s * id /\ RangeEnd(b) = b + s * (id + 1) - Gap
  BY DEF RangeBegin, RangeEnd, Share, s, t
<1>6. s > Gap /\ s * t <= LowMask
  BY <1>1, <1>2, <1>3, <1>4
<1> QED
  BY <1>1, <1>2, <1>4, <1>5, <1>6

-----------------------------------------------------------------------------
(* Type correctness.                                                       *)

LEMMA NextNonceFacts ==
    ASSUME TypeOK
    PROVE  NextNonce \in Nonces /\ Batch \subseteq Nonces
<1>1. /\ Width \in Nat \ {0} /\ Throughput \in Nat /\ LowMask \in Nat
      /\ cur \in Nat /\ max \in Nonces
  BY ParameterFacts DEF TypeOK, Nonces
<1>2. \A i \in Nat : ((cur + i) % Width) \in Nonces
  BY <1>1, ModInRange DEF Nonces
<1>3. \A i \in 0..(Throughput - 1) : ((cur + i) % Width) \in Nonces
  <2>1. \A i \in 0..(Throughput - 1) : i \in Nat
    OBVIOUS
  <2> QED BY ONLY <1>2, <2>1
<1>4. NextNonce \in Nonces
  BY ONLY <1>1, <1>2, Zenon DEF NextNonce
<1>5. Batch \subseteq Nonces
  BY ONLY <1>3, Zenon DEF Batch
<1> QED
  BY <1>4, <1>5

LEMMA ResultFacts ==
    ASSUME TypeOK, NEW found \in Reports, NEW slots \in Slots(found)
    PROVE  /\ found \subseteq Batch
           /\ slots \in (Nonces \cup {None}) \X (Nonces \cup {None})
           /\ slots[1] \in Nonces \cup {None} /\ slots[2] \in Nonces \cup {None}
<1>1. found \subseteq Batch /\ Batch \subseteq Nonces
  BY NextNonceFacts DEF Reports
<1> QED
  BY <1>1 DEF Slots

LEMMA ReportsFinite ==
    ASSUME TypeOK, NEW found \in Reports
    PROVE  /\ found \subseteq Nonces /\ IsFiniteSet(found)
           /\ Cardinality(found) \in Nat
<1>1. found \subseteq 0..(Width - 1)
  BY NextNonceFacts DEF Reports, Nonces
<1>2. IsFiniteSet(0..(Width - 1))
  <2>1. 0 \in Int /\ Width - 1 \in Int
    BY ParameterFacts
  <2> QED BY <2>1, FS_Interval
<1>3. IsFiniteSet(found)
  BY <1>1, <1>2, FS_Subset
<1> QED
  BY <1>1, <1>3, FS_CardinalityType DEF Nonces

LEMMA RunKeepsType ==
    ASSUME TypeOK, RunBatch
    PROVE  TypeOK'
<1>0. PICK found \in Reports :
         BatchRuns(found) /\ \E slots \in Slots(found) :
            Hits(slots) \/ \E told \in BOOLEAN : Misses(slots, told)
  BY DEF RunBatch
<1>1. PICK slots \in Slots(found) :
         BatchRuns(found) /\ (Hits(slots) \/ \E told \in BOOLEAN : Misses(slots, told))
  BY <1>0
<1>2. /\ UNCHANGED <<startVars, board, dev, job, nonce, end>> /\ dev \in Pools
      /\ tried' \in [Pools -> SUBSET Nonces] /\ twice' \in [Pools -> BOOLEAN]
      /\ owed' \in [Pools -> SUBSET Nonces]
  <2>1. tried' \in [Pools -> SUBSET Nonces]
    BY <1>1, NextNonceFacts DEF BatchRuns, TypeOK
  <2>2. twice' \in [Pools -> BOOLEAN]
    BY <1>1 DEF BatchRuns, TypeOK
  <2>3. owed' \in [Pools -> SUBSET Nonces]
    BY <1>1, NextNonceFacts DEF BatchRuns, TypeOK
  <2> QED BY <1>1, <2>1, <2>2, <2>3 DEF BatchRuns, TypeOK
<1>3. ASSUME NEW hashes \in Int, ScanReturns(hashes)
      PROVE  cur' \in Nonces /\ max' \in Nonces /\ done' \in [Pools -> Nonces]
  <2>1. (hashes % Width) \in Nonces /\ 0 \in Nonces
    <3>1. Width \in Nat \ {0}
      BY ParameterFacts
    <3>2. (hashes % Width) \in 0..(Width - 1)
      BY <1>3, <3>1, ModInRange
    <3> QED BY <3>1, <3>2 DEF Nonces
  <2> QED BY <1>3, <2>1 DEF ScanReturns, TypeOK
<1>4. /\ cur \in Int /\ nonce[dev] \in Int /\ Throughput \in Int /\ NextNonce \in Int
      /\ NextNonce \in Nonces
  BY NextNonceFacts, ParameterFacts DEF TypeOK, Nonces
<1>5. CASE Hits(slots)
  <2>1. results' \in (Nonces \cup {None}) \X (Nonces \cup {None})
    BY <1>5, ResultFacts DEF Hits
  <2>2. ScanReturns(cur - nonce[dev] + Throughput) /\ pc' = "submit"
    BY <1>5 DEF Hits
  <2>3. cur' \in Nonces /\ max' \in Nonces /\ done' \in [Pools -> Nonces]
    BY <1>3, <1>4, <2>2
  <2> QED BY <1>2, <2>1, <2>2, <2>3 DEF TypeOK, startVars
<1>6. ASSUME NEW told \in BOOLEAN, Misses(slots, told) PROVE TypeOK'
  <2>1. /\ cur' \in Nonces /\ max' \in Nonces /\ done' \in [Pools -> Nonces]
        /\ pc' \in {"take", "slice", "scan", "submit"} /\ results' = results
    <3>1. CASE cur' = NextNonce /\ UNCHANGED <<pc, max, done>> /\ results' = results
      BY <1>4, <3>1 DEF TypeOK
    <3>2. CASE ScanReturns(NextNonce - nonce[dev]) /\ pc' = "take" /\ results' = results
      BY <1>3, <1>4, <3>2
    <3> QED BY <1>6, <3>1, <3>2 DEF Misses
  <2> QED BY <1>2, <2>1 DEF TypeOK, startVars
<1> QED
  BY <1>1, <1>5, <1>6

LEMMA StepKeepsType ==
    ASSUME TypeOK, [Next]_vars
    PROVE  TypeOK'
<1> USE DEF startVars, workVars, scanVars, history
<1>1. CASE UNCHANGED vars
  BY <1>1 DEF vars, TypeOK
<1>2. ASSUME NEW p \in Pools, Publish(p) PROVE TypeOK'
  BY <1>2, ParameterFacts DEF Publish, TypeOK, Jobs
<1>3. ASSUME NEW p \in Pools, NewWork(p) PROVE TypeOK'
  <2> DEFINE b == Base[p][board[p]]
  <2>1. b \in Nat /\ b + LowMask < Width /\ Width \in Nat /\ LowMask \in Nat
    BY ParameterFacts DEF TypeOK, Nonces
  <2> HIDE DEF b
  <2>2. RangeBegin(b) \in Nonces /\ RangeEnd(b) \in Nonces
    BY <2>1, RangeFacts DEF TypeOK, Nonces
  <2> QED BY <1>3, <2>2 DEF NewWork, TypeOK, b
<1>4. ASSUME NEW p \in Pools, KeepWork(p) PROVE TypeOK'
  <2>1. ((nonce[p] + done[p]) % Width) \in Nonces
    <3>1. nonce[p] + done[p] \in Int /\ Width \in Nat \ {0}
      BY ParameterFacts DEF TypeOK, Nonces
    <3> QED BY <3>1, ModInRange DEF Nonces
  <2> QED BY <1>4, <2>1 DEF KeepWork, TypeOK
<1>5. ASSUME NEW size \in Slices, BeginScan(size) PROVE TypeOK'
  <2>1. size \in Nat /\ 0 \in Nonces /\ nonce[dev] \in Nonces /\ end \in Nonces
    BY ParameterFacts DEF TypeOK, Nonces
  <2>2. (IF nonce[dev] + size > end THEN end ELSE nonce[dev] + size) \in Nonces
    BY <2>1, ParameterFacts DEF Nonces
  <2> QED BY <1>5, <2>1, <2>2 DEF BeginScan, TypeOK
<1>6. CASE Submit
  BY <1>6 DEF Submit, TypeOK
<1> QED
  BY <1>1, <1>2, <1>3, <1>4, <1>5, <1>6, RunKeepsType DEF Next, TakeWork, ScanStep

\* The fields of the work, the locals of the scan and the two result slots keep
\* their types; the range of every thread and the end of every slice are nonces.
THEOREM TypeCorrect == Spec => []TypeOK
<1>1. Init => TypeOK
  <2> SUFFICES ASSUME Init PROVE TypeOK
    OBVIOUS
  <2>1. 0 \in Nonces /\ 0 \in Jobs /\ 0 \in Pools
    BY ParameterFacts DEF Nonces, Jobs, Pools
  <2>2. RangeEnd(0) \in Nonces
    BY RangeFacts, ParameterFacts DEF Init, Nonces
  <2> QED BY <2>1, <2>2 DEF Init, TypeOK
<1>2. TypeOK /\ [Next]_vars => TypeOK'
  BY StepKeepsType
<1> QED
  BY <1>1, <1>2, PTL DEF Spec

-----------------------------------------------------------------------------
(* From the slots to the pool.                                             *)

\* Reports that all validate are the winners of the batch; with two slots at
\* most two of them are kept, and so all of two.
LEMMA SlotsHoldAll ==
    ASSUME TypeOK, NEW found \in Reports, NEW slots \in Slots(found),
           Cardinality(found) <= 2, \A x \in found : Validates(x)
    PROVE  /\ found = Batch \cap Wins(dev)
           /\ found # {} => /\ slots[1] \in found
                            /\ slots[2] \in found \cup {None}
                            /\ found \subseteq {slots[1], slots[2]}
           /\ found = {} => slots[1] = None
<1>1. found = Batch \cap Wins(dev)
  BY DEF Reports, Validates
<1>2. IsFiniteSet(found)
  BY ReportsFinite
<1>3. CASE found = {}
  BY <1>1, <1>3 DEF Slots
<1>4. CASE Cardinality(found) = 1
  <2>1. PICK x : found = {x}
    BY <1>2, <1>4, FS_Singleton
  <2>2. slots = <<x, None>>
    BY <1>4, <2>1 DEF Slots
  <2> QED BY <1>1, <2>1, <2>2
<1>5. CASE found # {} /\ Cardinality(found) # 1
  <2>1. slots[1] \in found /\ slots[2] \in found /\ slots[1] # slots[2]
    BY <1>5 DEF Slots
  <2>2. ASSUME NEW z \in found, z \notin {slots[1], slots[2]} PROVE FALSE
    <3> DEFINE two == {slots[1], slots[2]}
    <3>1. IsFiniteSet(two) /\ Cardinality(two) = 2
      <4>1. IsFiniteSet({slots[1]}) /\ Cardinality({slots[1]}) = 1
        BY FS_Singleton
      <4>2. IsFiniteSet({slots[1]} \cup {slots[2]})
            /\ Cardinality({slots[1]} \cup {slots[2]}) = Cardinality({slots[1]}) + 1
        BY <2>1, <4>1, FS_AddElement
      <4>3. two = {slots[1]} \cup {slots[2]}
        OBVIOUS
      <4> QED BY <4>1, <4>2, <4>3
    <3>2. Cardinality(two \cup {z}) = 3
      <4> HIDE DEF two
      <4>1. Cardinality(two \cup {z}) = Cardinality(two) + 1
        BY <2>2, <3>1, FS_AddElement DEF two
      <4> QED BY <3>1, <4>1
    <3>3. two \cup {z} \subseteq found
      BY <2>1
    <3>4. Cardinality(two \cup {z}) <= Cardinality(found)
      <4> HIDE DEF two
      <4> QED BY <1>2, <3>3, FS_Subset
    <3>5. Cardinality(found) \in Nat
      BY <1>2, FS_CardinalityType
    <3> QED BY <3>2, <3>4, <3>5
  <2> QED BY <1>1, <1>5, <2>1, <2>2
<1> QED
  BY <1>3, <1>4, <1>5

\* Every winner of a batch without a third or a false report is submitted before
\* the thread does anything else, in whichever order the kernel filled the slots.
THEOREM HitsAreSubmitted == Spec => []HitsSubmitted
<1> USE DEF startVars, workVars, scanVars, history
<1>1. Init => HitsSubmitted
  BY DEF Init, HitsSubmitted
<1>2. TypeOK /\ HitsSubmitted /\ [Next]_vars => HitsSubmitted'
  <2> SUFFICES ASSUME TypeOK, HitsSubmitted, [Next]_vars PROVE HitsSubmitted'
    OBVIOUS
  <2>1. owed \in [Pools -> SUBSET Nonces] /\ dev \in Pools /\ None \notin Nonces
    BY ParameterFacts DEF TypeOK
  <2>2. CASE UNCHANGED <<pc, dev, results, owed>>
    BY <2>2 DEF HitsSubmitted
  <2>3. pc # "submit" => \A p \in Pools : owed[p] = {}
    BY DEF HitsSubmitted
  <2>4. ASSUME NEW p \in Pools, TakeWork(p) PROVE HitsSubmitted'
    <3>1. \A q \in Pools : owed'[q] = {}
      BY <2>1, <2>3, <2>4 DEF TakeWork, NewWork, KeepWork
    <3> QED BY <3>1 DEF HitsSubmitted
  <2>5. ASSUME NEW size \in Slices, BeginScan(size) PROVE HitsSubmitted'
    <3>1. \A q \in Pools : owed'[q] = {}
      BY <2>3, <2>5 DEF BeginScan
    <3> QED BY <3>1 DEF HitsSubmitted
  <2>6. CASE Submit
    <3>1. \A q \in Pools : owed'[q] = {}
      BY <2>1, <2>6 DEF Submit, HitsSubmitted
    <3> QED BY <3>1 DEF HitsSubmitted
  <2>7. CASE RunBatch
    <3>0. PICK found \in Reports :
             BatchRuns(found) /\ \E slots \in Slots(found) :
                Hits(slots) \/ \E told \in BOOLEAN : Misses(slots, told)
      BY <2>7 DEF RunBatch
    <3>1. PICK slots \in Slots(found) :
             BatchRuns(found) /\ (Hits(slots) \/ \E told \in BOOLEAN : Misses(slots, told))
      BY <3>0
    <3>2. \A q \in Pools : owed[q] = {}
      BY <2>3, <3>1 DEF BatchRuns
    <3>3. CASE owed' = owed
      BY <3>2, <3>3 DEF HitsSubmitted
    <3>4. CASE /\ ~(Cardinality(found) > 2 \/ \E x \in found : ~Validates(x))
               /\ owed' = [owed EXCEPT ![dev] = @ \cup (Batch \cap Wins(dev))]
      <4>1. Cardinality(found) <= 2
        <5>1. Cardinality(found) \in Nat
          BY ReportsFinite
        <5> QED BY <3>4, <5>1
      <4>2. /\ found = Batch \cap Wins(dev)
            /\ found # {} => /\ slots[1] \in found
                             /\ slots[2] \in found \cup {None}
                             /\ found \subseteq {slots[1], slots[2]}
            /\ found = {} => slots[1] = None
        BY <3>4, <4>1, SlotsHoldAll
      <4>3. /\ owed'[dev] = found /\ dev' = dev
            /\ \A q \in Pools : q # dev => owed'[q] = {}
        BY <2>1, <3>1, <3>2, <3>4, <4>2 DEF BatchRuns
      <4>4. CASE found = {}
        BY <4>3, <4>4 DEF HitsSubmitted
      <4>5. CASE found # {}
        <5>1. found \subseteq Nonces /\ \A x \in found : Validates(x)
          BY <3>4, NextNonceFacts, ResultFacts
        <5>2. slots[1] # None /\ Validates(slots[1])
          BY <2>1, <4>2, <4>5, <5>1
        <5>3. Hits(slots)
          BY <3>1, <5>2 DEF Misses
        <5>4. pc' = "submit" /\ slots[1] = results'[1]
              /\ (slots[2] # None => slots[2] = results'[2])
          <6>1. slots[2] # None => Validates(slots[2])
            BY <4>2, <4>5, <5>1
          <6> QED BY <5>3, <6>1 DEF Hits
        <5>5. found \subseteq {results'[1], results'[2]}
          <6>1. None \notin found
            BY <2>1, <5>1
          <6> QED BY <4>2, <4>5, <5>4, <6>1
        <5> QED BY <4>3, <5>4, <5>5 DEF HitsSubmitted
      <4> QED BY <4>4, <4>5
    <3> QED BY <3>1, <3>3, <3>4 DEF BatchRuns
  <2> QED BY <2>2, <2>4, <2>5, <2>6, <2>7 DEF Next, vars, ScanStep, Publish
<1> QED
  BY <1>1, <1>2, TypeCorrect, PTL DEF Spec

-----------------------------------------------------------------------------
(* The range.                                                              *)

Begin(p) == RangeBegin(Base[p][job[p]])
End(p) == RangeEnd(Base[p][job[p]])

\* Until a thread is through with its range it has tried what lies between the
\* beginning of the range and its position, once, and nothing else.
Underway(p) == /\ Begin(p) <= Position(p)
               /\ tried[p] = Begin(p)..(Position(p) - 1)
               /\ ~twice[p]

RangeInv == \A p \in AtWork : UsedUp(p) \/ Underway(p)

LEMMA OwnFacts ==
    ASSUME TypeOK, NEW p \in Pools
    PROVE  /\ Begin(p) \in Nat /\ End(p) \in Nat /\ Begin(p) < End(p)
           /\ Own(p) = Begin(p)..(End(p) - 1)
           /\ Base[p][job[p]] \in Nat /\ (Base[p][job[p]] % (LowMask + 1)) = 0
           /\ Base[p][job[p]] <= Begin(p) /\ End(p) < Base[p][job[p]] + LowMask
           /\ Base[p][job[p]] + LowMask < Width
<1> DEFINE b == Base[p][job[p]]
<1>1. b \in Nat /\ (b % (LowMask + 1)) = 0 /\ b + LowMask < Width
  BY ParameterFacts DEF TypeOK, Nonces
<1>2. Begin(p) = RangeBegin(b) /\ End(p) = RangeEnd(b) /\ Own(p) = Begin(p)..(End(p) - 1)
  BY DEF Begin, End, Own
<1> HIDE DEF b
<1>3. /\ RangeBegin(b) \in Nat /\ RangeEnd(b) \in Nat
      /\ b <= RangeBegin(b) /\ RangeBegin(b) < RangeEnd(b) /\ RangeEnd(b) < b + LowMask
  BY <1>1, RangeFacts DEF TypeOK
<1> QED
  BY <1>1, <1>2, <1>3 DEF b

LEMMA PositionFacts ==
    ASSUME TypeOK, NEW p \in Pools
    PROVE  Position(p) \in Nonces
<1>1. /\ cur \in Nonces /\ nonce[p] \in Nonces /\ nonce[p] + done[p] \in Int
      /\ Width \in Nat \ {0}
  BY ParameterFacts DEF TypeOK, Nonces
<1>2. ((nonce[p] + done[p]) % Width) \in Nonces
  BY <1>1, ModInRange DEF Nonces
<1> QED
  BY <1>1, <1>2 DEF Position

\* Past the end of its range a thread is through with it.
LEMMA NotThrough ==
    ASSUME TypeOK, NEW p \in Pools, Underway(p), ~UsedUp(p)
    PROVE  Position(p) < End(p)
<1>1. Position(p) \in Nat
  BY PositionFacts DEF Nonces
<1> QED
  BY <1>1, OwnFacts DEF Underway, UsedUp

\* Steps that do not touch what was tried for pool p, nor the position there.
LEMMA SamePlace ==
    ASSUME NEW p \in Pools, UNCHANGED startVars, job'[p] = job[p], tried'[p] = tried[p],
           twice'[p] = twice[p], Position(p)' = Position(p), UsedUp(p) \/ Underway(p)
    PROVE  UsedUp(p)' \/ Underway(p)'
<1>1. Begin(p)' = Begin(p) /\ Own(p)' = Own(p)
  BY DEF Begin, Own, RangeBegin, RangeEnd, Share, startVars
<1> QED
  BY <1>1 DEF UsedUp, Underway

\* The batch of a thread that is not through: it either reaches the end of the
\* range or leaves the position right behind it.
LEMMA BatchFacts ==
    ASSUME TypeOK, NEW p \in Pools, dev = p, pc = "scan", Underway(p), ~UsedUp(p)
    PROVE  \/ Own(p) \subseteq tried[p] \cup Batch
           \/ /\ Batch = cur..(cur + Throughput - 1)
              /\ NextNonce = cur + Throughput /\ cur + Throughput \in Nat
              /\ cur + Throughput < Width
<1> DEFINE b == Base[p][job[p]]
<1>1. Position(p) = cur /\ cur \in Nat /\ cur < End(p)
  BY NotThrough DEF Position, TypeOK, Nonces
<1>2. /\ Begin(p) \in Nat /\ End(p) \in Nat /\ Begin(p) < End(p)
      /\ Own(p) = Begin(p)..(End(p) - 1)
      /\ b \in Nat /\ (b % (LowMask + 1)) = 0
      /\ b <= Begin(p) /\ End(p) < b + LowMask /\ b + LowMask < Width
      /\ LowMask \in Nat \ {0} /\ Width \in Nat \ {0} /\ Throughput \in Nat \ {0}
  BY OwnFacts, ParameterFacts
<1>3. tried[p] = Begin(p)..(cur - 1) /\ Begin(p) <= cur
  BY <1>1 DEF Underway
<1> HIDE DEF b
<1>4. CASE End(p) <= cur + Throughput
  <2>1. ASSUME NEW n \in Own(p), cur <= n PROVE n \in Batch
    <3> DEFINE i == n - cur
    <3>1. i \in 0..(Throughput - 1) /\ cur + i = n /\ n \in Nat /\ n < Width
      BY <1>1, <1>2, <1>4, <2>1
    <3> HIDE DEF i
    <3>2. ((cur + i) % Width) = n
      BY <1>2, <3>1, ModFacts
    <3> QED BY <3>1, <3>2 DEF Batch
  <2>2. ASSUME NEW n \in Own(p), n < cur PROVE n \in tried[p]
    BY <1>1, <1>2, <1>3, <2>2
  <2>3. \A n \in Own(p) : n < cur \/ cur <= n
    BY <1>1, <1>2
  <2> QED BY <2>1, <2>2, <2>3
<1>5. CASE cur + Throughput < End(p)
  <2>1. /\ cur + Throughput \in Nat /\ cur + Throughput < Width
        /\ \A i \in 0..(Throughput - 1) : cur + i \in Nat /\ cur + i < Width
    BY <1>1, <1>2, <1>5
  <2>2. \A i \in 0..(Throughput - 1) : ((cur + i) % Width) = cur + i
    BY <1>2, <2>1, ModFacts
  <2>3. Batch = cur..(cur + Throughput - 1)
    <3>1. Batch = {cur + i : i \in 0..(Throughput - 1)}
      BY <2>2 DEF Batch
    <3>2. \A n \in cur..(cur + Throughput - 1) :
             n - cur \in 0..(Throughput - 1) /\ n = cur + (n - cur)
      BY <1>1, <1>2
    <3>3. \A i \in 0..(Throughput - 1) : cur + i \in cur..(cur + Throughput - 1)
      BY <1>1, <1>2
    <3> QED BY <3>1, <3>2, <3>3
  <2>4. (cur % (LowMask + 1)) <= LowMask - Throughput
    <3> DEFINE k == cur - b
    <3>1. /\ k \in Nat /\ k < LowMask + 1 /\ b + k = cur /\ k <= LowMask - Throughput
          /\ LowMask + 1 \in Nat \ {0}
      BY <1>1, <1>2, <1>3, <1>5
    <3> HIDE DEF k
    <3>2. ((b + k) % (LowMask + 1)) = k
      BY <1>2, <3>1, ModOfSum
    <3> QED BY <3>1, <3>2
  <2>5. ((cur + Throughput) % Width) = cur + Throughput
    BY <1>2, <2>1, ModFacts
  <2>6. ~((cur % (LowMask + 1)) > LowMask - Throughput)
    <3>1. (cur % (LowMask + 1)) \in Int /\ LowMask - Throughput \in Int
      <4> DEFINE n == LowMask + 1
      <4>1. n \in Nat \ {0}
        BY <1>2
      <4> HIDE DEF n
      <4>2. (cur % n) \in 0..(n - 1)
        BY <1>1, <4>1, ModInRange
      <4>3. (cur % n) \in Int
        BY <4>1, <4>2
      <4> QED BY <1>2, <4>3 DEF n
    <3> QED BY <2>4, <3>1
  <2>7. NextNonce = cur + Throughput
    BY <2>5, <2>6 DEF NextNonce
  <2> QED BY <2>1, <2>3, <2>7
<1> QED
  BY <1>1, <1>2, <1>4, <1>5

LEMMA RunKeepsRange ==
    ASSUME TypeOK, RangeInv, RunBatch
    PROVE  RangeInv'
<1>0. PICK found \in Reports :
         BatchRuns(found) /\ \E slots \in Slots(found) :
            Hits(slots) \/ \E told \in BOOLEAN : Misses(slots, told)
  BY DEF RunBatch
<1>1. PICK slots \in Slots(found) :
         BatchRuns(found) /\ (Hits(slots) \/ \E told \in BOOLEAN : Misses(slots, told))
  BY <1>0
<1>2. /\ UNCHANGED startVars /\ pc = "scan" /\ dev \in Pools
      /\ dev' = dev /\ job' = job /\ nonce' = nonce
      /\ tried' = [tried EXCEPT ![dev] = @ \cup Batch]
      /\ twice' = [twice EXCEPT ![dev] = @ \/ Batch \cap tried[dev] # {}]
  BY <1>1 DEF BatchRuns, TypeOK
<1>3. /\ tried \in [Pools -> SUBSET Nonces] /\ twice \in [Pools -> BOOLEAN]
      /\ done \in [Pools -> Nonces] /\ nonce \in [Pools -> Nonces]
  BY DEF TypeOK
<1>4. /\ tried'[dev] = tried[dev] \cup Batch
      /\ twice'[dev] = (twice[dev] \/ Batch \cap tried[dev] # {})
      /\ \A q \in Pools : q # dev => tried'[q] = tried[q] /\ twice'[q] = twice[q]
  <2>1. /\ tried'[dev] = tried[dev] \cup Batch
        /\ \A q \in Pools : q # dev => tried'[q] = tried[q] /\ twice'[q] = twice[q]
    BY <1>2, <1>3
  <2>2. twice'[dev] = (twice[dev] \/ Batch \cap tried[dev] # {})
    BY <1>2, <1>3
  <2> QED BY <2>1, <2>2
<1>5. \/ pc' = "scan" /\ cur' = NextNonce /\ done' = done
      \/ /\ pc' = "take" /\ done' = [done EXCEPT ![dev] = (NextNonce - nonce[dev]) % Width]
      \/ /\ pc' = "submit"
         /\ done' = [done EXCEPT ![dev] = (cur - nonce[dev] + Throughput) % Width]
  <2>1. CASE Hits(slots)
    BY <2>1 DEF Hits, ScanReturns
  <2>2. ASSUME NEW told \in BOOLEAN, Misses(slots, told)
        PROVE  \/ pc' = "scan" /\ cur' = NextNonce /\ done' = done
               \/ /\ pc' = "take"
                  /\ done' = [done EXCEPT ![dev] = (NextNonce - nonce[dev]) % Width]
    BY <1>2, <2>2 DEF Misses, ScanReturns
  <2> QED BY <1>1, <2>1, <2>2
<1>6. ASSUME NEW q \in AtWork', q # dev PROVE UsedUp(q)' \/ Underway(q)'
  <2>1. q \in Pools /\ q \in AtWork
    BY <1>2, <1>6 DEF AtWork
  <2>2. done'[q] = done[q]
    BY <1>3, <1>5, <1>6, <2>1
  <2>3. Position(q)' = Position(q)
    BY <1>2, <1>6, <2>2 DEF Position
  <2> QED BY <1>2, <1>4, <1>6, <2>1, <2>3, SamePlace DEF RangeInv
<1>7. ASSUME NEW q \in AtWork', q = dev PROVE UsedUp(q)' \/ Underway(q)'
  <2>1. q \in Pools /\ q \in AtWork /\ (UsedUp(q) \/ Underway(q))
    BY <1>2, <1>7 DEF AtWork, RangeInv
  <2>2. Own(q)' = Own(q) /\ Begin(q)' = Begin(q)
    BY <1>2 DEF Own, Begin, RangeBegin, RangeEnd, Share, startVars
  <2>3. CASE UsedUp(q) \/ Own(q) \subseteq tried[q] \cup Batch
    BY <1>2, <1>4, <1>7, <2>2, <2>3 DEF UsedUp
  <2>4. CASE /\ Underway(q)
             /\ Batch = cur..(cur + Throughput - 1)
             /\ NextNonce = cur + Throughput /\ cur + Throughput \in Nat
             /\ cur + Throughput < Width
    <3>1. /\ cur \in Nat /\ Throughput \in Nat \ {0} /\ Width \in Nat \ {0}
          /\ nonce[q] \in Nat /\ nonce[q] < Width /\ Begin(q) \in Nat
      <4>1. Begin(q) \in Nat
        BY <2>1, OwnFacts
      <4>2. cur \in Nonces /\ nonce[q] \in Nonces
        BY <2>1 DEF TypeOK
      <4> QED BY <4>1, <4>2, ParameterFacts DEF Nonces
    <3>2. /\ Begin(q) <= cur /\ tried[q] = Begin(q)..(cur - 1) /\ ~twice[q]
      BY <1>2, <1>7, <2>4 DEF Underway, Position
    <3>3. Position(q)' = cur + Throughput
      <4>1. CASE pc' = "scan" /\ cur' = NextNonce /\ done' = done
        BY <1>2, <1>7, <2>4, <4>1 DEF Position
      <4>2. CASE pc' # "scan"
        <5> DEFINE to == cur + Throughput
        <5>1. to \in Nat /\ to < Width /\ cur - nonce[q] + Throughput = to - nonce[q]
          BY <2>4, <3>1
        <5> HIDE DEF to
        <5>2. pc' # "slice" /\ done'[q] = (to - nonce[q]) % Width
          <6>1. NextNonce = to
            BY <2>4 DEF to
          <6> QED BY <1>2, <1>3, <1>5, <1>7, <4>2, <5>1, <6>1
        <5>3. ((nonce[q] + ((to - nonce[q]) % Width)) % Width) = to
          BY <3>1, <5>1, MoveTo
        <5>4. Position(q)' = (nonce[q] + done'[q]) % Width
          BY <1>2, <1>7, <4>2, <5>2 DEF Position
        <5> QED BY <5>2, <5>3, <5>4 DEF to
      <4> QED BY <1>5, <4>1, <4>2
    <3>4. tried'[q] = Begin(q)..((cur + Throughput) - 1)
      <4>1. tried'[q] = (Begin(q)..(cur - 1)) \cup (cur..(cur + Throughput - 1))
        BY <1>4, <1>7, <2>4, <3>2
      <4> QED BY <3>1, <3>2, <4>1
    <3>5. ~twice'[q]
      <4>1. Batch \cap tried[q] = {}
        BY <2>4, <3>1, <3>2
      <4> QED BY <1>4, <1>7, <3>2, <4>1
    <3>6. Begin(q) <= cur + Throughput
      BY <3>1, <3>2
    <3>7. Underway(q)'
      BY <1>2, <2>2, <3>3, <3>4, <3>5, <3>6 DEF Underway
    <3> QED BY <3>7
  <2> QED BY <1>2, <1>7, <2>1, <2>3, <2>4, BatchFacts
<1> QED
  BY <1>2, <1>6, <1>7 DEF RangeInv

LEMMA StepKeepsRange ==
    ASSUME TypeOK, RangeInv, [Next]_vars
    PROVE  RangeInv'
<1> USE DEF startVars, workVars, scanVars, history
<1>1. CASE UNCHANGED vars
  BY <1>1, SamePlace DEF vars, RangeInv, AtWork, Position
<1>2. ASSUME NEW p \in Pools, Publish(p) PROVE RangeInv'
  BY <1>2, SamePlace DEF Publish, RangeInv, AtWork, Position
<1>3. ASSUME NEW p \in Pools, NewWork(p) PROVE RangeInv'
  <2>1. /\ \A q \in Pools : q # p => /\ job'[q] = job[q] /\ tried'[q] = tried[q]
                                     /\ twice'[q] = twice[q] /\ nonce'[q] = nonce[q]
        /\ pc = "take" /\ pc' = "slice" /\ dev' = p /\ done' = done
        /\ UNCHANGED startVars
    BY <1>3 DEF NewWork, TypeOK
  <2>2. /\ nonce'[p] = RangeBegin(Base[p][board[p]]) /\ job'[p] = board[p]
        /\ tried'[p] = {} /\ ~twice'[p]
    BY <1>3 DEF NewWork, TypeOK
  <2>3. ASSUME NEW q \in AtWork', q # p PROVE UsedUp(q)' \/ Underway(q)'
    <3>1. q \in Pools /\ q \in AtWork
      BY <2>1, <2>3 DEF AtWork
    <3>2. Position(q)' = Position(q)
      BY <2>1, <2>3, <3>1 DEF Position
    <3> QED BY <2>1, <2>3, <3>1, <3>2, SamePlace DEF RangeInv
  <2>4. Underway(p)'
    <3>1. /\ Position(p)' = nonce'[p] /\ Begin(p)' = RangeBegin(Base[p][board[p]])
      BY <2>1, <2>2 DEF Position, Begin, RangeBegin, Share
    <3>2. RangeBegin(Base[p][board[p]]) \in Nat
      <4>1. Base[p][board[p]] \in Nat
        BY ParameterFacts DEF TypeOK, Nonces
      <4> QED BY <4>1, RangeFacts DEF TypeOK
    <3> DEFINE from == RangeBegin(Base[p][board[p]])
    <3>3. from \in Nat /\ Position(p)' = from /\ Begin(p)' = from
      BY <2>2, <3>1, <3>2
    <3> HIDE DEF from
    <3>4. from..(from - 1) = {} /\ from <= from
      BY <3>3
    <3> QED BY <2>2, <3>3, <3>4 DEF Underway
  <2> QED BY <2>3, <2>4 DEF RangeInv
<1>4. ASSUME NEW p \in Pools, KeepWork(p) PROVE RangeInv'
  <2>1. /\ pc = "take" /\ pc' = "slice" /\ dev' = p /\ done' = done
        /\ nonce'[p] = (nonce[p] + done[p]) % Width
        /\ \A q \in Pools : q # p => nonce'[q] = nonce[q]
        /\ UNCHANGED <<startVars, job, tried, twice>>
    BY <1>4 DEF KeepWork, TypeOK
  <2>2. \A q \in Pools : Position(q)' = Position(q)
    BY <2>1 DEF Position
  <2> QED BY <2>1, <2>2, SamePlace DEF RangeInv, AtWork
<1>5. ASSUME NEW size \in Slices, BeginScan(size) PROVE RangeInv'
  <2>1. /\ pc = "slice" /\ pc' = "scan" /\ cur' = nonce[dev]
        /\ \A q \in Pools : q # dev => done'[q] = done[q]
        /\ UNCHANGED <<startVars, dev, job, nonce, tried, twice>>
    BY <1>5 DEF BeginScan, TypeOK
  <2>2. \A q \in Pools : Position(q)' = Position(q)
    BY <2>1 DEF Position
  <2> QED BY <2>1, <2>2, SamePlace DEF RangeInv, AtWork
<1>6. CASE Submit
  <2>1. \A q \in Pools : Position(q)' = Position(q)
    BY <1>6 DEF Submit, Position
  <2> QED BY <1>6, <2>1, SamePlace DEF Submit, RangeInv, AtWork
<1> QED
  BY <1>1, <1>2, <1>3, <1>4, <1>5, <1>6, RunKeepsRange DEF Next, TakeWork, ScanStep

LEMMA RangeInvariant == Spec => [](TypeOK /\ RangeInv)
<1>1. Init => RangeInv
  BY DEF Init, RangeInv, AtWork
<1>2. TypeOK /\ RangeInv /\ [Next]_vars => RangeInv'
  BY StepKeepsRange
<1> QED
  BY <1>1, <1>2, TypeCorrect, PTL DEF Spec

\* A miner thread leaves no nonce of its range out: hits, restarts, short slices
\* and switches between pools that share end_nonce notwithstanding.
THEOREM RangeWithoutGap == Spec => []NoGap
<1>1. TypeOK /\ RangeInv => NoGap
  <2> SUFFICES ASSUME TypeOK, RangeInv, NEW p \in AtWork, NEW n \in Own(p), n < Position(p)
               PROVE  n \in tried[p]
    BY DEF NoGap
  <2>1. p \in Pools
    BY DEF AtWork
  <2>2. CASE UsedUp(p)
    BY <2>2 DEF UsedUp
  <2>3. CASE Underway(p)
    <3>1. Position(p) \in Nat
      BY <2>1, PositionFacts DEF Nonces
    <3> QED BY <2>1, <2>3, <3>1, OwnFacts DEF Underway
  <2> QED BY <2>2, <2>3 DEF RangeInv
<1> QED
  BY <1>1, RangeInvariant, PTL

\* Nor does it try one twice before the range is used up, so no share is found
\* and sent twice before that.
THEOREM RangeOnce == Spec => []NoEarlyRepeat
<1>1. TypeOK /\ RangeInv => NoEarlyRepeat
  BY DEF RangeInv, NoEarlyRepeat, Underway
<1> QED
  BY <1>1, RangeInvariant, PTL

\* Nor one of another thread's range.
THEOREM RangeFirst == Spec => []OwnRangeFirst
<1>1. TypeOK /\ RangeInv => OwnRangeFirst
  <2> SUFFICES ASSUME TypeOK, RangeInv, NEW p \in AtWork, ~UsedUp(p)
               PROVE  tried[p] \subseteq Own(p)
    BY DEF OwnRangeFirst
  <2>1. p \in Pools /\ Underway(p)
    BY DEF AtWork, RangeInv
  <2>2. Position(p) < End(p) /\ Position(p) \in Nat
    BY <2>1, NotThrough, PositionFacts DEF Nonces
  <2> QED BY <2>1, <2>2, OwnFacts DEF Underway
<1> QED
  BY <1>1, RangeInvariant, PTL
=============================================================================
