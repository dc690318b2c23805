-------------------------- MODULE MiningShareProofs --------------------------
(***************************************************************************)
(* Where the shares of module Mining are, for any number of miners and     *)
(* shares: none is lost, doubled or overtaken by a later one of its miner  *)
(* between scanhash_cryptonight and the socket, and the counters that      *)
(* decide about the donation count what was sent.                          *)
(***************************************************************************)
EXTENDS MiningProofs

\* The places on a share's way, behind one another.
Results(m) == 1..Len(pending[m])
Queued == {i \in 1..Len(queue) : queue[i] # NULL}
Held == wPc \in {"check", "send"}

\* Of one miner's shares the one ahead was found first.
InFront(s, t) == info[s].miner = info[t].miner => s < t

\* Shares are numbered as they are found.
Numbered == \E n \in 0..MaxShares : Unborn = (n + 1)..MaxShares

ResultsInv ==
    \A m \in Miners :
       /\ Len(pending[m]) <= 2
       /\ mPc[m] # "submit" => pending[m] = <<>>
       /\ \A i \in Results(m) :
             /\ fate[pending[m][i]] = "live"
             /\ info[pending[m][i]].miner = m
             /\ \A j \in Results(m) : i < j => pending[m][i] < pending[m][j]

QueueInv ==
    \A i \in Queued :
       /\ fate[queue[i]] = "live"
       /\ \A j \in Queued : i < j => InFront(queue[i], queue[j])
       /\ \A m \in Miners : \A j \in Results(m) : InFront(queue[i], pending[m][j])

HandInv ==
    Held => /\ hand \in ShareIds
            /\ fate[hand] = "live"
            /\ \A j \in Queued : InFront(hand, queue[j])
            /\ \A m \in Miners : \A j \in Results(m) : InFront(hand, pending[m][j])

\* A share whose fate is open is somewhere.
NoneLost ==
    \A s \in ShareIds :
       fate[s] = "live" => \/ Held /\ hand = s
                           \/ \E i \in Queued : queue[i] = s
                           \/ \E m \in Miners : \E i \in Results(m) : pending[m][i] = s

\* The live shares of a miner stand in one line, in the order of their numbers:
\* the one in the workio thread's hand, those in the queue, the miner's results.
LineInv == ResultsInv /\ QueueInv /\ HandInv /\ NoneLost
ShareInv == Numbered /\ LineInv /\ HandledInOrder

LEMMA ShareTypes ==
    ASSUME TypeOK
    PROVE  /\ fate \in [ShareIds -> Fates] /\ pending \in [Miners -> Seq(ShareIds)]
           /\ queue \in Seq(ShareIds \cup {NULL}) /\ mPc \in [Miners -> MinerPcs]
           /\ \A m \in Miners : /\ Results(m) = DOMAIN pending[m]
                                /\ \A i \in Results(m) : pending[m][i] \in ShareIds
           /\ \A i \in Queued : i \in 1..Len(queue) /\ queue[i] \in ShareIds
           /\ ShareIds \subseteq Int
<1>1. /\ fate \in [ShareIds -> Fates] /\ pending \in [Miners -> Seq(ShareIds)]
      /\ queue \in Seq(ShareIds \cup {NULL}) /\ mPc \in [Miners -> MinerPcs]
  BY DEF TypeOK
<1>2. \A m \in Miners : /\ Results(m) = DOMAIN pending[m]
                        /\ \A i \in Results(m) : pending[m][i] \in ShareIds
  BY <1>1 DEF Results
<1>3. \A i \in Queued : i \in 1..Len(queue) /\ queue[i] \in ShareIds
  BY <1>1 DEF Queued
<1>4. ShareIds \subseteq Int
  BY MiningAssumption DEF ShareIds
<1> QED
  BY <1>1, <1>2, <1>3, <1>4

-----------------------------------------------------------------------------
(* The moves of a share *)

\* Nothing moves.
LEMMA StandStill ==
    ASSUME ShareInv, UNCHANGED <<fate, info, pending, queue>>,
           Held' = Held, Held => hand' = hand,
           \A m \in Miners : mPc'[m] # "submit" => pending[m] = <<>>
    PROVE  ShareInv'
<1>1. Numbered' /\ HandledInOrder'
  BY DEF ShareInv, Numbered, Unborn, HandledInOrder
<1>2. ResultsInv' /\ QueueInv' /\ HandInv'
  BY DEF ShareInv, LineInv, ResultsInv, QueueInv, HandInv, Results, Queued, InFront
<1>3. NoneLost'
  BY DEF ShareInv, LineInv, NoneLost, Results, Queued
<1> QED
  BY <1>1, <1>2, <1>3 DEF ShareInv, LineInv

\* scanhash_cryptonight: the new shares come last.
LEMMA FindKeepsLine ==
    ASSUME TypeOK, ShareInv, NEW m \in Miners, NEW k \in 1..2, Find(m, k)
    PROVE  ShareInv'
<1>1. PICK n \in 0..MaxShares : Unborn = (n + 1)..MaxShares
  BY DEF ShareInv, Numbered
<1>2. n \in Nat /\ MaxShares \in Nat /\ n <= MaxShares
  BY <1>1, MiningAssumption
<1>3. MaxShares - Cardinality(Unborn) + 1 = n + 1
  <2>1. Cardinality((n + 1)..MaxShares) = MaxShares - n
    <3>1. n + 1 \in Int /\ MaxShares \in Int
      BY <1>2
    <3>2. Cardinality((n + 1)..MaxShares)
             = IF n + 1 > MaxShares THEN 0 ELSE MaxShares - (n + 1) + 1
      BY <3>1, FS_Interval
    <3> QED BY <1>2, <3>2
  <2> QED
    BY <1>1, <1>2, <2>1
<1> DEFINE new == (n + 1)..(n + 1 + k - 1)
           found == [i \in 1..k |-> n + 1 + i - 1]
<1>4. /\ new \subseteq ShareIds
      /\ info' = [s \in ShareIds |->
                    IF s \in new
                    THEN [miner |-> m, pool |-> mPool[m], job |-> mJob[m][mPool[m]]]
                    ELSE info[s]]
      /\ fate' = [s \in ShareIds |-> IF s \in new THEN "live" ELSE fate[s]]
      /\ pending' = [pending EXCEPT ![m] = found]
      /\ mPc' = [mPc EXCEPT ![m] = "submit"] /\ mPc[m] = "scan"
      /\ UNCHANGED <<queue, wPc, hand>>
  BY <1>3 DEF Find, MinerAt, MinerGoes, workioVars, queueVars
<1>5. pending[m] = <<>>
  BY <1>4 DEF ShareInv, LineInv, ResultsInv
<1> USE ShareTypes
<1>6. \A s \in ShareIds : /\ s <= n <=> fate[s] # "unborn"
                          /\ s <= n => s \notin new /\ fate'[s] = fate[s] /\ info'[s] = info[s]
                          /\ s \in new => /\ n < s /\ fate'[s] = "live"
                                          /\ info'[s].miner = m
  <2> TAKE s \in ShareIds
  <2>1. s \in Nat /\ s <= MaxShares
    BY <1>2 DEF ShareIds
  <2>2. s <= n <=> fate[s] # "unborn"
    <3>1. s \in Unborn <=> fate[s] = "unborn"
      BY DEF Unborn
    <3> QED BY <1>1, <1>2, <2>1, <3>1
  <2>3. s <= n => s \notin new
    BY <1>2, <2>1
  <2>4. s \in new => n < s
    BY <1>2, <2>1
  <2> HIDE DEF new
  <2> QED
    BY <1>4, <2>2, <2>3, <2>4
<1>7. /\ Len(found) = k /\ found \in Seq(new) /\ 1..Len(found) = 1..k
      /\ \A i \in 1..k : found[i] \in new
      /\ \A i, j \in 1..k : i < j => found[i] < found[j]
  <2>1. \A i \in 1..k : n + 1 + i - 1 \in new
    BY <1>2
  <2> HIDE DEF new
  <2>2. \A i \in 1..k : found[i] \in new
    BY <2>1
  <2>3. \A i, j \in 1..k : i < j => found[i] < found[j]
    BY <1>2
  <2> QED BY <2>1, <2>2, <2>3
<1>8. \A s \in new : \E i \in 1..k : found[i] = s
  <2> TAKE s \in new
  <2>1. s - n \in 1..k /\ found[s - n] = s
    BY <1>2
  <2> QED BY <2>1
<1> HIDE DEF new, found
<1>9. /\ pending'[m] = found
      /\ \A x \in Miners : x # m => pending'[x] = pending[x]
      /\ \A x \in Miners : mPc'[x] # "submit" => x # m /\ mPc[x] # "submit"
  BY <1>4
<1>10. /\ \A x \in Miners : \A i \in Results(x) :
              x # m /\ pending[x][i] \in ShareIds /\ pending[x][i] <= n
       /\ \A i \in Queued : queue[i] \in ShareIds /\ queue[i] <= n
       /\ Held => hand \in ShareIds /\ hand <= n
  BY <1>5, <1>6 DEF ShareInv, LineInv, ResultsInv, QueueInv, HandInv, Results
<1>11. Numbered'
  <2>1. n + k \in 0..MaxShares
    <3>1. n + k \in new
      BY <1>2 DEF new
    <3> QED BY <1>2, <1>4, <3>1 DEF ShareIds
  <2>2. Unborn' = (n + k + 1)..MaxShares
    <3>1. ASSUME NEW s \in ShareIds PROVE s \in Unborn' <=> s \in (n + k + 1)..MaxShares
      <4>1. fate'[s] = "unborn" <=> s \notin new /\ fate[s] = "unborn"
        BY <1>4
      <4>2. s \in Nat /\ s <= MaxShares
        BY <1>2 DEF ShareIds
      <4>3. s \notin new /\ ~(s <= n) <=> s \in (n + k + 1)..MaxShares
        BY <1>2, <4>2 DEF new
      <4> QED BY <1>6, <4>1, <4>3 DEF Unborn
    <3>2. \A s : s \in (n + k + 1)..MaxShares => s \in ShareIds
      BY <1>2 DEF ShareIds
    <3> QED BY <3>1, <3>2 DEF Unborn
  <2> QED BY <2>1, <2>2 DEF Numbered
<1>12. ResultsInv'
  <2> SUFFICES ASSUME NEW x \in Miners
               PROVE  /\ Len(pending'[x]) <= 2
                      /\ mPc'[x] # "submit" => pending'[x] = <<>>
                      /\ \A i \in Results(x)' :
                            /\ fate'[pending'[x][i]] = "live"
                            /\ info'[pending'[x][i]].miner = x
                            /\ \A j \in Results(x)' :
                                  i < j => pending'[x][i] < pending'[x][j]
    BY DEF ResultsInv
  <2>1. CASE x = m
    BY <1>4, <1>6, <1>7, <1>9, <2>1 DEF Results
  <2>2. CASE x # m
    <3>1. pending'[x] = pending[x] /\ Results(x)' = Results(x)
      BY <1>9, <2>2 DEF Results
    <3>2. /\ Len(pending[x]) <= 2
          /\ mPc[x] # "submit" => pending[x] = <<>>
          /\ \A i \in Results(x) :
                /\ fate[pending[x][i]] = "live"
                /\ info[pending[x][i]].miner = x
                /\ \A j \in Results(x) : i < j => pending[x][i] < pending[x][j]
      BY DEF ShareInv, LineInv, ResultsInv
    <3>3. \A i \in Results(x) : /\ fate'[pending[x][i]] = fate[pending[x][i]]
                                /\ info'[pending[x][i]] = info[pending[x][i]]
      BY <1>6, <1>10
    <3>4. Len(pending'[x]) <= 2 /\ (mPc'[x] # "submit" => pending'[x] = <<>>)
      BY <1>9, <3>1, <3>2
    <3>5. ASSUME NEW i \in Results(x)'
          PROVE  /\ fate'[pending'[x][i]] = "live"
                 /\ info'[pending'[x][i]].miner = x
                 /\ \A j \in Results(x)' : i < j => pending'[x][i] < pending'[x][j]
      <4>1. i \in Results(x) /\ pending'[x][i] = pending[x][i]
        BY <3>1
      <4>2. \A j \in Results(x)' : i < j => pending'[x][i] < pending'[x][j]
        BY <3>1, <3>2, <4>1
      <4> QED BY <3>2, <3>3, <4>1, <4>2
    <3> QED BY <3>4, <3>5
  <2> QED BY <2>1, <2>2
<1> DEFINE After(s, t) == info'[s].miner = info'[t].miner => s < t
<1>13. ASSUME NEW s \in ShareIds, s <= n, NEW x \in Miners, NEW j \in Results(x)',
              \A i \in Results(x) : InFront(s, pending[x][i])
       PROVE  After(s, pending'[x][j])
  <2>1. CASE x = m
    <3>1. pending'[x][j] \in new
      BY <1>7, <1>9, <2>1 DEF Results
    <3>2. s < pending'[x][j]
      BY <1>2, <1>4, <1>6, <1>13, <3>1
    <3> QED BY <3>2 DEF InFront
  <2>2. CASE x # m
    <3>1. j \in Results(x) /\ pending'[x][j] = pending[x][j]
      BY <1>9, <2>2 DEF Results
    <3>2. info'[s] = info[s] /\ info'[pending[x][j]] = info[pending[x][j]]
      BY <1>6, <1>10, <1>13, <3>1
    <3> QED BY <1>13, <3>1, <3>2 DEF InFront
  <2> QED BY <2>1, <2>2
<1>14. QueueInv'
  <2> SUFFICES ASSUME NEW i \in Queued'
               PROVE  /\ fate'[queue'[i]] = "live"
                      /\ \A j \in Queued' : i < j => After(queue'[i], queue'[j])
                      /\ \A x \in Miners : \A j \in Results(x)' :
                            After(queue'[i], pending'[x][j])
    BY DEF QueueInv, InFront
  <2>1. i \in Queued /\ Queued' = Queued
    BY <1>4 DEF Queued
  <2>2. fate'[queue'[i]] = "live"
    BY <1>4, <1>6, <1>10, <2>1 DEF ShareInv, LineInv, QueueInv
  <2>3. \A j \in Queued' : i < j => After(queue'[i], queue'[j])
    BY <1>4, <1>6, <1>10, <2>1 DEF ShareInv, LineInv, QueueInv, InFront
  <2>4. \A x \in Miners : \A j \in Results(x)' : After(queue[i], pending'[x][j])
    BY <1>10, <1>13, <2>1 DEF ShareInv, LineInv, QueueInv
  <2> QED BY <1>4, <2>2, <2>3, <2>4 DEF InFront
<1>15. HandInv'
  <2> SUFFICES ASSUME Held'
               PROVE  /\ hand' \in ShareIds
                      /\ fate'[hand'] = "live"
                      /\ \A j \in Queued' : After(hand', queue'[j])
                      /\ \A x \in Miners : \A j \in Results(x)' :
                            After(hand', pending'[x][j])
    BY DEF HandInv, InFront
  <2>1. Held /\ hand' = hand /\ Queued' = Queued
    BY <1>4 DEF Queued, Held
  <2>2. hand \in ShareIds /\ fate'[hand] = "live"
    BY <1>6, <1>10, <2>1 DEF ShareInv, LineInv, HandInv
  <2>3. \A j \in Queued' : After(hand', queue'[j])
    BY <1>4, <1>6, <1>10, <2>1 DEF ShareInv, LineInv, HandInv, InFront
  <2>4. \A x \in Miners : \A j \in Results(x)' : After(hand, pending'[x][j])
    BY <1>10, <1>13, <2>1 DEF ShareInv, LineInv, HandInv
  <2> QED BY <2>1, <2>2, <2>3, <2>4 DEF InFront
<1>16. NoneLost'
  <2> SUFFICES ASSUME NEW s \in ShareIds, fate'[s] = "live"
               PROVE  \/ Held' /\ hand' = s
                      \/ \E i \in Queued' : queue'[i] = s
                      \/ \E x \in Miners : \E i \in Results(x)' : pending'[x][i] = s
    BY DEF NoneLost
  <2>1. CASE s \in new
    BY <1>7, <1>8, <1>9, <2>1 DEF Results
  <2>2. CASE s \notin new
    <3>1. fate[s] = "live"
      BY <1>4, <2>2
    <3>2. CASE Held /\ hand = s
      BY <1>4, <3>2 DEF Held
    <3>3. CASE \E i \in Queued : queue[i] = s
      BY <1>4, <3>3 DEF Queued
    <3>4. CASE \E x \in Miners : \E i \in Results(x) : pending[x][i] = s
      BY <1>9, <1>10, <3>4 DEF Results
    <3> QED
      BY <3>1, <3>2, <3>3, <3>4 DEF ShareInv, LineInv, NoneLost
  <2> QED BY <2>1, <2>2
<1>17. HandledInOrder'
  <2> SUFFICES ASSUME NEW s \in ShareIds, NEW t \in ShareIds, s < t,
                      fate'[t] \in {"sent", "stale", "givenUp"},
                      info'[s].miner = info'[t].miner
               PROVE  fate'[s] # "live"
    BY DEF HandledInOrder
  <2>1. t \notin new /\ fate[t] = fate'[t]
    BY <1>4
  <2>2. t <= n
    BY <1>6, <2>1
  <2>3. s <= n
    BY <1>2, <2>2
  <2> QED BY <1>6, <2>1, <2>2, <2>3 DEF ShareInv, HandledInOrder
<1> QED
  BY <1>11, <1>12, <1>14, <1>15, <1>16, <1>17 DEF ShareInv, LineInv

\* submit_work: the first result becomes the last command, or is refused.
LEMMA SubmitKeepsLine ==
    ASSUME TypeOK, ShareInv, NEW m \in Miners, Submit(m)
    PROVE  ShareInv'
<1> DEFINE new == Head(pending[m])
           After(s, t) == info'[s].miner = info'[t].miner => s < t
<1>1. /\ pending[m] \in Seq(ShareIds) /\ pending[m] # <<>>
      /\ pending' = [pending EXCEPT ![m] = Tail(pending[m])]
      /\ \/ frozen /\ queue' = queue /\ fate' = [fate EXCEPT ![new] = "refused"]
         \/ ~frozen /\ queue' = Append(queue, new) /\ fate' = fate
      /\ info' = info /\ wPc' = wPc /\ hand' = hand
      /\ mPc' = IF Len(pending[m]) = 1 THEN [mPc EXCEPT ![m] = "pick"] ELSE mPc
      /\ mPc[m] = "submit"
  BY ShareTypes DEF Submit, PushCommand, MinerAt, workioVars
<1>2. /\ new = pending[m][1] /\ new \in ShareIds /\ 1 \in Results(m)
      /\ pending'[m] = Tail(pending[m]) /\ Len(pending'[m]) = Len(pending[m]) - 1
      /\ \A i \in Results(m)' : i + 1 \in Results(m) /\ i + 1 > 1
                                /\ pending'[m][i] = pending[m][i + 1]
  <2>1. pending'[m] = Tail(pending[m])
    BY <1>1, ShareTypes
  <2> QED
    BY <1>1, <2>1, HeadTail, ShareTypes DEF Results
<1>3. \A x \in Miners : x # m => pending'[x] = pending[x] /\ Results(x)' = Results(x)
  BY <1>1, ShareTypes DEF Results
<1> USE ShareTypes
<1>4. \A x \in Miners : \A i \in Results(x)' :
         \E j \in Results(x) : /\ pending'[x][i] = pending[x][j]
                               /\ x = m => j = i + 1
                               /\ x # m => j = i
  BY <1>2, <1>3
<1>5. /\ fate[new] = "live" /\ info[new].miner = m
      /\ \A x \in Miners : \A i \in Results(x)' :
            pending'[x][i] # new /\ (info[pending'[x][i]].miner = m => new < pending'[x][i])
  <2>1. fate[new] = "live" /\ info[new].miner = m
    BY <1>2 DEF ShareInv, LineInv, ResultsInv
  <2>2. ASSUME NEW x \in Miners, NEW i \in Results(x)'
        PROVE  pending'[x][i] # new /\ (info[pending'[x][i]].miner = m => new < pending'[x][i])
    <3>1. CASE x = m
      <4>1. new < pending[m][i + 1] /\ pending'[m][i] = pending[m][i + 1]
            /\ new \in Int /\ pending[m][i + 1] \in Int
        BY <1>2, <2>2, <3>1 DEF ShareInv, LineInv, ResultsInv
      <4> QED BY <3>1, <4>1
    <3>2. CASE x # m
      <4>1. info[pending'[x][i]].miner = x
        BY <1>3, <2>2, <3>2 DEF ShareInv, LineInv, ResultsInv
      <4> QED BY <2>1, <3>2, <4>1
    <3> QED BY <3>1, <3>2
  <2> QED BY <2>1, <2>2
<1> HIDE DEF new
<1>6. /\ \A s \in ShareIds : s # new => fate'[s] = fate[s]
      /\ ~frozen => fate' = fate
      /\ frozen => fate'[new] = "refused"
      /\ \A i \in Queued : /\ queue[i] \in ShareIds /\ queue[i] # new
                           /\ InFront(queue[i], new)
      /\ Held => hand \in ShareIds /\ hand # new /\ InFront(hand, new)
  <2>1. \A i \in Queued : /\ queue[i] \in ShareIds /\ queue[i] # new
                          /\ InFront(queue[i], new)
    <3> TAKE i \in Queued
    <3>1. InFront(queue[i], new)
      BY <1>2 DEF ShareInv, LineInv, QueueInv
    <3> QED BY <3>1 DEF InFront
  <2>2. Held => hand \in ShareIds /\ hand # new /\ InFront(hand, new)
    <3>1. Held => hand \in ShareIds /\ InFront(hand, new)
      BY <1>2 DEF ShareInv, LineInv, HandInv
    <3> QED BY <3>1, <1>2 DEF InFront
  <2>3. /\ \A s \in ShareIds : s # new => fate'[s] = fate[s]
        /\ ~frozen => fate' = fate
        /\ frozen => fate'[new] = "refused"
    BY <1>1, <1>2
  <2> QED BY <2>1, <2>2, <2>3
<1>7. \A i \in Queued' : \/ i \in Queued /\ queue'[i] = queue[i]
                         \/ ~frozen /\ i = Len(queue) + 1 /\ queue'[i] = new
  <2>1. CASE queue' = queue
    BY <2>1 DEF Queued
  <2>2. CASE ~frozen /\ queue' = Append(queue, new)
    BY <1>2, <2>2, Appended DEF Queued
  <2> QED BY <1>1, <2>1, <2>2
<1>8. /\ \A i \in Queued : i \in Queued' /\ queue'[i] = queue[i]
      /\ ~frozen => \E i \in Queued' : queue'[i] = new
  <2>1. CASE queue' = queue /\ frozen
    BY <2>1 DEF Queued
  <2>2. CASE ~frozen /\ queue' = Append(queue, new)
    <3>1. Len(queue) \in Nat /\ Len(queue') = Len(queue) + 1 /\ queue'[Len(queue) + 1] = new
          /\ \A i \in 1..Len(queue) : queue'[i] = queue[i]
      BY <1>2, <2>2
    <3>2. new # NULL
      BY <1>2, MiningAssumption
    <3>3. Len(queue) + 1 \in Queued'
      BY <3>1, <3>2 DEF Queued
    <3> QED BY <3>1, <3>3 DEF Queued
  <2> QED BY <1>1, <2>1, <2>2
<1>9. ASSUME NEW s, \A x \in Miners : \A i \in Results(x) : InFront(s, pending[x][i])
       PROVE  \A x \in Miners : \A i \in Results(x)' : After(s, pending'[x][i])
  <2> SUFFICES ASSUME NEW x \in Miners, NEW i \in Results(x)'
               PROVE  After(s, pending'[x][i])
    OBVIOUS
  <2>1. PICK j \in Results(x) : pending'[x][i] = pending[x][j]
    BY <1>4
  <2>2. InFront(s, pending[x][j]) /\ info' = info
    BY <1>1, <1>9
  <2> QED BY <2>1, <2>2 DEF InFront
<1>10. Numbered'
  <2>1. Unborn' = Unborn
    <3>1. \A s \in ShareIds : fate'[s] = "unborn" <=> fate[s] = "unborn"
      BY <1>5, <1>6
    <3> QED BY <3>1 DEF Unborn
  <2> QED BY <2>1 DEF ShareInv, Numbered
<1>11. ResultsInv'
  <2> SUFFICES ASSUME NEW x \in Miners
               PROVE  /\ Len(pending'[x]) <= 2
                      /\ mPc'[x] # "submit" => pending'[x] = <<>>
                      /\ \A i \in Results(x)' :
                            /\ fate'[pending'[x][i]] = "live"
                            /\ info'[pending'[x][i]].miner = x
                            /\ \A j \in Results(x)' :
                                  i < j => pending'[x][i] < pending'[x][j]
    BY DEF ResultsInv
  <2>1. Len(pending'[x]) <= 2 /\ (mPc'[x] # "submit" => pending'[x] = <<>>)
    <3>1. CASE x = m
      <4>1. Len(pending[m]) \in Nat /\ Len(pending[m]) <= 2
        BY <1>1 DEF ShareInv, LineInv, ResultsInv
      <4>2. mPc'[m] # "submit" => Len(pending[m]) = 1
        BY <1>1
      <4>3. pending'[m] \in Seq(ShareIds)
        BY <1>1, <1>2
      <4>4. Len(pending'[m]) = 0 => pending'[m] = <<>>
        BY <4>3
      <4> QED BY <1>2, <3>1, <4>1, <4>2, <4>4
    <3>2. CASE x # m
      <4>1. mPc'[x] = mPc[x]
        BY <1>1, <3>2
      <4> QED BY <1>3, <3>2, <4>1 DEF ShareInv, LineInv, ResultsInv
    <3> QED BY <3>1, <3>2
  <2>2. ASSUME NEW i \in Results(x)'
        PROVE  /\ fate'[pending'[x][i]] = "live"
               /\ info'[pending'[x][i]].miner = x
               /\ \A j \in Results(x)' : i < j => pending'[x][i] < pending'[x][j]
    <3>1. PICK k \in Results(x) : /\ pending'[x][i] = pending[x][k]
                                  /\ x = m => k = i + 1
                                  /\ x # m => k = i
      BY <1>4
    <3>2. fate[pending[x][k]] = "live" /\ info[pending[x][k]].miner = x
      BY DEF ShareInv, LineInv, ResultsInv
    <3>3. fate'[pending'[x][i]] = "live" /\ info'[pending'[x][i]].miner = x
      <4>1. pending'[x][i] \in ShareIds /\ pending'[x][i] # new
        BY <1>5, <3>1
      <4>2. fate'[pending'[x][i]] = fate[pending'[x][i]] /\ info' = info
        BY <1>1, <1>6, <4>1
      <4> QED BY <3>1, <3>2, <4>2
    <3>4. ASSUME NEW j \in Results(x)', i < j PROVE pending'[x][i] < pending'[x][j]
      <4>1. PICK l \in Results(x) : /\ pending'[x][j] = pending[x][l]
                                    /\ x = m => l = j + 1
                                    /\ x # m => l = j
        BY <1>4
      <4>2. k < l
        BY <3>1, <3>4, <4>1 DEF Results
      <4> QED BY <3>1, <4>1, <4>2 DEF ShareInv, LineInv, ResultsInv
    <3> QED BY <3>3, <3>4
  <2> QED BY <2>1, <2>2
<1>12. QueueInv'
  <2> SUFFICES ASSUME NEW i \in Queued'
               PROVE  /\ fate'[queue'[i]] = "live"
                      /\ \A j \in Queued' : i < j => After(queue'[i], queue'[j])
                      /\ \A x \in Miners : \A j \in Results(x)' :
                            After(queue'[i], pending'[x][j])
    BY DEF QueueInv, InFront
  <2>1. CASE i \in Queued /\ queue'[i] = queue[i]
    <3>1. /\ fate[queue[i]] = "live"
          /\ \A j \in Queued : i < j => InFront(queue[i], queue[j])
          /\ \A x \in Miners : \A j \in Results(x) : InFront(queue[i], pending[x][j])
      BY <2>1 DEF ShareInv, LineInv, QueueInv
    <3>2. fate'[queue'[i]] = "live"
      BY <1>6, <2>1, <3>1
    <3>3. /\ \A x \in Miners : \A j \in Results(x)' : After(queue'[i], pending'[x][j])
          /\ After(queue'[i], new)
      <4>1. After(queue'[i], new)
        BY <1>1, <1>6, <2>1 DEF InFront
      <4> QED BY <1>9, <2>1, <3>1, <4>1
    <3>4. \A j \in Queued' : i < j => After(queue'[i], queue'[j])
      BY <1>1, <1>7, <2>1, <3>1, <3>3 DEF InFront
    <3> QED BY <3>2, <3>3, <3>4
  <2>2. CASE ~frozen /\ i = Len(queue) + 1 /\ queue'[i] = new
    <3>1. fate'[queue'[i]] = "live"
      BY <1>5, <1>6, <2>2
    <3>2. \A j \in Queued' : ~(i < j)
      <4>1. \A j \in Queued : j \in Nat /\ j <= Len(queue)
        BY DEF Queued
      <4>2. Len(queue) \in Nat
        OBVIOUS
      <4> SUFFICES ASSUME NEW j \in Queued' PROVE ~(i < j)
        OBVIOUS
      <4>3. j \in Queued \/ j = Len(queue) + 1
        BY <1>7
      <4> QED BY <2>2, <4>1, <4>2, <4>3
    <3>3. \A x \in Miners : \A j \in Results(x)' : After(queue'[i], pending'[x][j])
      BY <1>1, <1>5, <2>2
    <3> QED BY <3>1, <3>2, <3>3
  <2> QED BY <1>7, <2>1, <2>2
<1>13. HandInv'
  <2> SUFFICES ASSUME Held'
               PROVE  /\ hand' \in ShareIds
                      /\ fate'[hand'] = "live"
                      /\ \A j \in Queued' : After(hand', queue'[j])
                      /\ \A x \in Miners : \A j \in Results(x)' :
                            After(hand', pending'[x][j])
    BY DEF HandInv, InFront
  <2>1. Held /\ hand' = hand
    BY <1>1 DEF Held
  <2>2. /\ hand \in ShareIds /\ fate[hand] = "live"
        /\ \A j \in Queued : InFront(hand, queue[j])
        /\ \A x \in Miners : \A j \in Results(x) : InFront(hand, pending[x][j])
    BY <2>1 DEF ShareInv, LineInv, HandInv
  <2>3. fate'[hand'] = "live"
    BY <1>6, <2>1, <2>2
  <2>4. \A x \in Miners : \A j \in Results(x)' : After(hand', pending'[x][j])
    BY <1>9, <2>1, <2>2
  <2>5. \A j \in Queued' : After(hand', queue'[j])
    BY <1>1, <1>6, <1>7, <2>1, <2>2 DEF InFront
  <2> QED BY <2>1, <2>2, <2>3, <2>4, <2>5
<1>14. NoneLost'
  <2> SUFFICES ASSUME NEW s \in ShareIds, fate'[s] = "live"
               PROVE  \/ Held' /\ hand' = s
                      \/ \E i \in Queued' : queue'[i] = s
                      \/ \E x \in Miners : \E i \in Results(x)' : pending'[x][i] = s
    BY DEF NoneLost
  <2>1. CASE s = new
    BY <1>6, <1>8, <2>1
  <2>2. CASE s # new
    <3>1. fate[s] = "live"
      BY <1>6, <2>2
    <3>2. CASE Held /\ hand = s
      BY <1>1, <3>2 DEF Held
    <3>3. CASE \E i \in Queued : queue[i] = s
      BY <1>8, <3>3
    <3>4. ASSUME NEW x \in Miners, NEW i \in Results(x), pending[x][i] = s
          PROVE  \E j \in Results(x)' : pending'[x][j] = s
      <4>1. CASE x # m
        BY <1>3, <3>4, <4>1
      <4>2. CASE x = m
        <5>1. i # 1
          BY <1>2, <2>2, <3>4, <4>2
        <5>2. i - 1 \in Results(x)' /\ (i - 1) + 1 = i
          BY <1>1, <1>2, <3>4, <4>2, <5>1 DEF Results
        <5> QED BY <1>2, <3>4, <4>2, <5>2
      <4> QED BY <4>1, <4>2
    <3> QED
      BY <3>1, <3>2, <3>3, <3>4 DEF ShareInv, LineInv, NoneLost
  <2> QED BY <2>1, <2>2
<1>15. HandledInOrder'
  <2> SUFFICES ASSUME NEW s \in ShareIds, NEW t \in ShareIds, s < t,
                      fate'[t] \in {"sent", "stale", "givenUp"},
                      info'[s].miner = info'[t].miner
               PROVE  fate'[s] # "live"
    BY DEF HandledInOrder
  <2>1. fate[t] = fate'[t]
    BY <1>6
  <2>2. fate[s] # "live"
    BY <1>1, <2>1 DEF ShareInv, HandledInOrder
  <2> QED BY <1>6, <2>2, <1>5
<1> QED
  BY <1>10, <1>11, <1>12, <1>13, <1>14, <1>15 DEF ShareInv, LineInv

\* tq_pop: the first command, if it is a share, becomes the one in hand.
LEMMA PopKeepsLine ==
    ASSUME TypeOK, ShareInv, queue # <<>>, queue' = Tail(queue), ~Held,
           UNCHANGED <<fate, info, pending, mPc>>,
           IF Head(queue) = NULL THEN ~Held' ELSE Held' /\ hand' = Head(queue)
    PROVE  ShareInv'
<1> USE ShareTypes
<1>1. /\ Head(queue) = queue[1] /\ 1 \in 1..Len(queue)
      /\ \A i \in Queued' : i + 1 \in Queued /\ i \in Nat /\ queue'[i] = queue[i + 1]
      /\ \A i \in Queued : i # 1 => /\ i - 1 \in Queued'
                                    /\ queue'[i - 1] = queue[i]
  <2>1. /\ Head(queue) = queue[1] /\ 1 \in 1..Len(queue) /\ Len(queue) \in Nat
        /\ Len(Tail(queue)) = Len(queue) - 1
        /\ \A i \in 1..Len(Tail(queue)) : i + 1 \in 1..Len(queue)
                                          /\ Tail(queue)[i] = queue[i + 1]
    BY HeadTail
  <2>2. \A i \in Queued' : i + 1 \in Queued /\ i \in Nat /\ queue'[i] = queue[i + 1]
    BY <2>1 DEF Queued
  <2>3. ASSUME NEW i \in Queued, i # 1
        PROVE  i - 1 \in Queued' /\ queue'[i - 1] = queue[i]
    <3>1. i - 1 \in 1..Len(Tail(queue)) /\ (i - 1) + 1 = i
      BY <2>1, <2>3 DEF Queued
    <3> QED BY <2>1, <2>3, <3>1 DEF Queued
  <2> QED BY <2>1, <2>2, <2>3
<1>2. \A m \in Miners : Results(m)' = Results(m)
  BY DEF Results
<1>3. Numbered' /\ ResultsInv' /\ HandledInOrder'
  BY <1>2 DEF ShareInv, LineInv, Numbered, Unborn, ResultsInv, HandledInOrder
<1>4. QueueInv'
  <2> SUFFICES ASSUME NEW i \in Queued'
               PROVE  /\ fate[queue'[i]] = "live"
                      /\ \A j \in Queued' : i < j => InFront(queue'[i], queue'[j])
                      /\ \A x \in Miners : \A j \in Results(x) :
                            InFront(queue'[i], pending[x][j])
    BY <1>2 DEF QueueInv, InFront
  <2>1. i + 1 \in Queued /\ i \in Nat /\ queue'[i] = queue[i + 1]
    BY <1>1
  <2>2. \A j \in Queued' : i < j => InFront(queue'[i], queue'[j])
    <3> SUFFICES ASSUME NEW j \in Queued', i < j PROVE InFront(queue'[i], queue'[j])
      OBVIOUS
    <3>1. j + 1 \in Queued /\ queue'[j] = queue[j + 1] /\ i + 1 < j + 1
      BY <1>1, <2>1
    <3> QED BY <2>1, <3>1 DEF ShareInv, LineInv, QueueInv
  <2> QED
    BY <2>1, <2>2 DEF ShareInv, LineInv, QueueInv
<1>5. HandInv'
  <2> SUFFICES ASSUME Held'
               PROVE  /\ hand' \in ShareIds
                      /\ fate[hand'] = "live"
                      /\ \A j \in Queued' : InFront(hand', queue'[j])
                      /\ \A x \in Miners : \A j \in Results(x) :
                            InFront(hand', pending[x][j])
    BY <1>2 DEF HandInv, InFront
  <2>1. hand' = queue[1] /\ 1 \in Queued
    BY <1>1 DEF Queued
  <2>2. \A j \in Queued' : InFront(hand', queue'[j])
    <3> SUFFICES ASSUME NEW j \in Queued' PROVE InFront(hand', queue'[j])
      OBVIOUS
    <3>1. j + 1 \in Queued /\ queue'[j] = queue[j + 1] /\ 1 < j + 1
      BY <1>1 DEF Queued
    <3> QED BY <2>1, <3>1 DEF ShareInv, LineInv, QueueInv
  <2> QED
    BY <2>1, <2>2 DEF ShareInv, LineInv, QueueInv
<1>6. NoneLost'
  <2> SUFFICES ASSUME NEW s \in ShareIds, fate[s] = "live"
               PROVE  \/ Held' /\ hand' = s
                      \/ \E i \in Queued' : queue'[i] = s
                      \/ \E x \in Miners : \E i \in Results(x) : pending[x][i] = s
    BY <1>2 DEF NoneLost
  <2>1. ASSUME NEW i \in Queued, queue[i] = s
        PROVE  \/ Held' /\ hand' = s
               \/ \E j \in Queued' : queue'[j] = s
    <3>1. CASE i = 1
      BY <1>1, <2>1, <3>1 DEF Queued
    <3>2. CASE i # 1
      BY <1>1, <2>1, <3>2
    <3> QED BY <3>1, <3>2
  <2> QED BY <2>1 DEF ShareInv, LineInv, NoneLost
<1> QED
  BY <1>3, <1>4, <1>5, <1>6 DEF ShareInv, LineInv

\* The share in hand is disposed of: all that its miner found before it has been.
LEMMA DisposeKeepsLine ==
    ASSUME TypeOK, ShareInv, Held, ~Held', UNCHANGED <<queue, info, pending, mPc>>,
           NEW f \in {"sent", "stale", "givenUp"}, fate' = [fate EXCEPT ![hand] = f]
    PROVE  ShareInv'
<1> USE ShareTypes
<1>1. /\ hand \in ShareIds /\ fate[hand] = "live"
      /\ \A j \in Queued : InFront(hand, queue[j])
      /\ \A m \in Miners : \A j \in Results(m) : InFront(hand, pending[m][j])
  BY DEF ShareInv, LineInv, HandInv
<1>2. \A s \in ShareIds : fate'[s] = IF s = hand THEN f ELSE fate[s]
  BY <1>1
<1>3. /\ Queued' = Queued /\ \A m \in Miners : Results(m)' = Results(m)
      /\ \A j \in Queued : queue[j] # hand /\ queue[j] \in ShareIds
      /\ \A m \in Miners : \A j \in Results(m) :
            pending[m][j] # hand /\ pending[m][j] \in ShareIds
  <2>1. \A s \in ShareIds : InFront(hand, s) => s # hand
    BY <1>1 DEF InFront
  <2> QED BY <1>1, <2>1 DEF Queued, Results
<1>4. Numbered'
  <2>1. Unborn' = Unborn
    BY <1>1, <1>2 DEF Unborn
  <2> QED BY <2>1 DEF ShareInv, Numbered
<1>5. ResultsInv'
  BY <1>2, <1>3 DEF ShareInv, LineInv, ResultsInv
<1>6. QueueInv'
  BY <1>2, <1>3 DEF ShareInv, LineInv, QueueInv, InFront
<1>7. HandInv'
  BY DEF HandInv
<1>8. NoneLost'
  BY <1>2, <1>3 DEF ShareInv, LineInv, NoneLost
<1>9. HandledInOrder'
  <2> SUFFICES ASSUME NEW s \in ShareIds, NEW t \in ShareIds, s < t,
                      fate'[t] \in {"sent", "stale", "givenUp"},
                      info[s].miner = info[t].miner
               PROVE  fate'[s] # "live"
    BY DEF HandledInOrder
  <2>1. CASE t # hand
    BY <1>2, <2>1 DEF ShareInv, HandledInOrder
  <2>2. CASE t = hand
    <3>1. ASSUME fate[s] = "live", s # hand PROVE FALSE
      <4>1. InFront(hand, s)
        BY <1>1, <3>1 DEF ShareInv, LineInv, NoneLost
      <4> QED BY <2>2, <4>1 DEF InFront
    <3> QED BY <1>2, <3>1
  <2> QED BY <2>1, <2>2
<1> QED
  BY <1>4, <1>5, <1>6, <1>7, <1>8, <1>9 DEF ShareInv, LineInv

\* The NULL that ends the workio thread joins the queue as no share does.
LEMMA NullKeepsLine ==
    ASSUME TypeOK, ShareInv, queue' = Append(queue, NULL),
           UNCHANGED <<fate, info, pending, mPc, wPc, hand>>
    PROVE  ShareInv'
<1>1. Queued' = Queued /\ \A i \in Queued : queue'[i] = queue[i]
  <2>1. /\ Len(queue) \in Nat /\ Len(queue') = Len(queue) + 1
        /\ queue'[Len(queue) + 1] = NULL
        /\ \A i \in 1..Len(queue) : queue'[i] = queue[i]
    BY ShareTypes
  <2> QED BY <2>1 DEF Queued
<1>2. \A m \in Miners : Results(m)' = Results(m)
  BY DEF Results
<1>3. Held' = Held
  BY DEF Held
<1>4. Numbered' /\ HandledInOrder' /\ ResultsInv'
  BY <1>2 DEF ShareInv, LineInv, Numbered, Unborn, HandledInOrder, ResultsInv
<1>5. QueueInv'
  <2> SUFFICES ASSUME NEW i \in Queued'
               PROVE  /\ fate[queue'[i]] = "live"
                      /\ \A j \in Queued' : i < j => InFront(queue'[i], queue'[j])
                      /\ \A m \in Miners : \A j \in Results(m) :
                            InFront(queue'[i], pending[m][j])
    BY <1>2 DEF QueueInv, InFront
  <2>1. i \in Queued /\ queue'[i] = queue[i]
    BY <1>1
  <2>2. \A j \in Queued' : i < j => InFront(queue'[i], queue'[j])
    BY <1>1, <2>1 DEF ShareInv, LineInv, QueueInv
  <2> QED BY <2>1, <2>2 DEF ShareInv, LineInv, QueueInv
<1>6. HandInv'
  BY <1>1, <1>2, <1>3 DEF ShareInv, LineInv, HandInv, InFront
<1>7. NoneLost'
  BY <1>1, <1>2, <1>3 DEF ShareInv, LineInv, NoneLost
<1> QED
  BY <1>4, <1>5, <1>6, <1>7 DEF ShareInv, LineInv

-----------------------------------------------------------------------------
(* Every step is one of these moves *)

LEMMA MinerKeepsLine ==
    ASSUME TypeOK, ShareInv, NEW m \in Miners, MinerNext(m)
    PROVE  ShareInv'
<1>1. wPc' = wPc /\ hand' = hand
  BY MinerLeaves DEF workioVars
<1>2. CASE \E k \in 1..2 : Find(m, k)
  BY <1>2, FindKeepsLine
<1>3. CASE Submit(m)
  BY <1>3, SubmitKeepsLine
<1>4. ASSUME NEW l \in MinerPcs, l # "submit", mPc[m] # "submit",
             mPc' = [mPc EXCEPT ![m] = l], UNCHANGED <<fate, info, pending, queue>>
      PROVE  ShareInv'
  <2>1. \A x \in Miners : mPc'[x] # "submit" => pending[x] = <<>>
    BY <1>4, ShareTypes DEF ShareInv, LineInv, ResultsInv
  <2> QED BY <1>1, <1>4, <2>1, StandStill DEF Held
<1>5. \/ \E k \in 1..2 : Find(m, k)
      \/ Submit(m)
      \/ \E l \in MinerPcs : /\ l # "submit" /\ mPc[m] # "submit"
                             /\ mPc' = [mPc EXCEPT ![m] = l]
                             /\ UNCHANGED <<fate, info, pending, queue>>
  BY DEF MinerNext, MinerAt, MinerGoes, PickPool, TakeWork, BeginRefill, EndRefill,
         ClearRestart, ScanInterrupted, ScanOver, ScanEnd, queueVars, shareVars, MinerPcs
<1> QED
  BY <1>2, <1>3, <1>4, <1>5

LEMMA WorkioKeepsLine ==
    ASSUME TypeOK, ShareInv, WorkioNext
    PROVE  ShareInv'
<1> USE DEF WorkioAt, StopWorkio, minerVars, queueVars, shareVars
<1>1. UNCHANGED <<pending, mPc, info>>
  BY DEF WorkioNext, PopShare, PopNull, PopNothing, Discard, Keep, SendOk, SendRetry,
         SendGiveUp, ReadWeight, StoreWeight, Decide, Commit
<1>2. CASE PopShare \/ PopNull
  BY <1>1, <1>2, PopKeepsLine DEF PopShare, PopNull, Held
<1>3. CASE Discard
  BY <1>1, <1>3, DisposeKeepsLine DEF Discard, Held
<1>4. CASE SendOk
  BY <1>1, <1>4, DisposeKeepsLine DEF SendOk, Held
<1>5. CASE SendGiveUp
  BY <1>1, <1>5, DisposeKeepsLine DEF SendGiveUp, Held
<1>6. CASE PopNothing \/ Keep \/ SendRetry \/ ReadWeight \/ StoreWeight \/ Decide \/ Commit
  <2>1. UNCHANGED <<fate, queue>> /\ Held' = Held /\ (Held => hand' = hand)
    <3>1. CASE Keep \/ SendRetry
      <4>1. /\ wPc \in {"check", "send"} /\ wPc' \in {"check", "send"}
            /\ UNCHANGED <<fate, queue, hand>>
        BY <3>1 DEF Keep, SendRetry
      <4> QED BY <4>1 DEF Held
    <3>2. CASE PopNothing \/ ReadWeight \/ StoreWeight \/ Decide \/ Commit
      <4>1. /\ wPc \in {"pop", "weigh", "store", "decide", "commit"}
            /\ wPc' \in {"exit", "store", "decide", "commit", "pop"}
            /\ UNCHANGED <<fate, queue>>
        BY <3>2 DEF PopNothing, ReadWeight, StoreWeight, Decide, Commit
      <4> QED BY <4>1 DEF Held
    <3> QED BY <1>6, <3>1, <3>2
  <2>2. \A m \in Miners : mPc'[m] # "submit" => pending[m] = <<>>
    BY <1>1 DEF ShareInv, LineInv, ResultsInv
  <2> QED BY <1>1, <2>1, <2>2, StandStill
<1> QED
  BY <1>2, <1>3, <1>4, <1>5, <1>6 DEF WorkioNext

LEMMA SharesKeepLine ==
    ASSUME TypeOK, ShareInv, [Next]_vars
    PROVE  ShareInv'
<1> USE DEF minerVars, queueVars, workioVars, shareVars
<1>1. ASSUME UNCHANGED <<fate, info, pending, mPc, queue, wPc, hand>>
      PROVE  ShareInv'
  <2>1. \A m \in Miners : mPc'[m] # "submit" => pending[m] = <<>>
    BY <1>1 DEF ShareInv, LineInv, ResultsInv
  <2> QED BY <1>1, <2>1, StandStill DEF Held
<1>2. CASE UNCHANGED vars \/ ProcessExit
  BY <1>1, <1>2 DEF vars, ProcessExit
<1>3. ASSUME NEW p \in Pools, StratumNext(p) PROVE ShareInv'
  BY <1>1, <1>3, StratumLeaves, NullKeepsLine
<1> QED
  BY <1>2, <1>3, MinerKeepsLine, WorkioKeepsLine DEF Next, Terminated

\* Init => ShareInv, and with SharesKeepLine it is an invariant.
LEMMA SharesInLine == Spec => [](TypeOK /\ ShareInv)
<1>1. Init => ShareInv
  <2> SUFFICES ASSUME Init PROVE ShareInv
    OBVIOUS
  <2>1. Numbered
    <3>1. Unborn = (0 + 1)..MaxShares /\ 0 \in 0..MaxShares
      BY MiningAssumption DEF Init, Unborn, ShareIds
    <3> QED BY <3>1 DEF Numbered
  <2>2. \A s \in ShareIds : fate[s] = "unborn"
    BY DEF Init
  <2>3. /\ \A m \in Miners : pending[m] = <<>>
        /\ queue = <<>> /\ wPc = "pop"
    BY DEF Init
  <2>4. LineInv
    BY <2>2, <2>3 DEF LineInv, ResultsInv, QueueInv, HandInv, NoneLost, Results, Queued,
       Held
  <2>5. HandledInOrder
    BY <2>2 DEF HandledInOrder
  <2> QED BY <2>1, <2>4, <2>5 DEF ShareInv
<1>2. TypeOK /\ ShareInv /\ [Next]_vars => ShareInv'
  BY SharesKeepLine
<1> QED
  BY <1>1, <1>2, TypeCorrect, PTL DEF Spec

\* The shares of one miner are disposed of in the order in which it found them,
\* whatever the retries: the way of a share has no place where a later one could
\* overtake it.
THEOREM SharesInOrder == Spec => []HandledInOrder
BY SharesInLine, PTL DEF ShareInv

-----------------------------------------------------------------------------
(* One place per share *)

\* Of a set without two elements the cardinality tells whether it is empty.
LEMMA NoTwoElements ==
    ASSUME NEW S, \A a, b \in S : a = b
    PROVE  Cardinality(S) = IF S = {} THEN 0 ELSE 1
<1>1. CASE S = {}
  BY <1>1, FS_EmptySet
<1>2. CASE S # {}
  <2>1. PICK a \in S : S = {a}
    BY <1>2
  <2> QED BY <1>2, <2>1, FS_Singleton
<1> QED BY <1>1, <1>2

\* No share is lost or doubled between scanhash_cryptonight and the socket: one
\* whose fate is open is in exactly one place, one whose fate is settled in none.
THEOREM SharesNeitherLostNorDoubled == Spec => []OnePlacePerShare
<1>1. TypeOK /\ ShareInv => OnePlacePerShare
  <2> SUFFICES ASSUME TypeOK, ShareInv, NEW s \in ShareIds
               PROVE  (Cardinality({i \in DOMAIN queue : queue[i] = s})
                       + Cardinality({x \in Miners \X {1, 2} :
                                        /\ x[2] \in DOMAIN pending[x[1]]
                                        /\ pending[x[1]][x[2]] = s})
                       + Cardinality({s} \cap InHand))
                      = (IF fate[s] = "live" THEN 1 ELSE 0)
    BY DEF OnePlacePerShare
  <2> USE ShareTypes
  <2> DEFINE A == {i \in DOMAIN queue : queue[i] = s}
             B == {x \in Miners \X {1, 2} : /\ x[2] \in DOMAIN pending[x[1]]
                                            /\ pending[x[1]][x[2]] = s}
             C == {s} \cap InHand
  <2>1. s \in Int /\ s # NULL
    BY MiningAssumption
  <2>2. ~InFront(s, s)
    BY <2>1 DEF InFront
  <2>3. \A i \in A : i \in Queued /\ queue[i] = s /\ i \in Nat
    BY <2>1 DEF Queued
  <2>4. \A x \in B : x[1] \in Miners /\ x[2] \in Results(x[1]) /\ pending[x[1]][x[2]] = s
                     /\ x[2] \in Nat
    BY DEF Results
  <2>5. \A x \in C : Held /\ hand = s /\ x = s
    BY DEF InHand, Held
  <2>6. \A i, j \in A : i = j
    BY <2>2, <2>3 DEF ShareInv, LineInv, QueueInv
  <2>7. \A x, y \in B : x = y
    <3> SUFFICES ASSUME NEW x \in B, NEW y \in B PROVE x = y
      OBVIOUS
    <3>1. x[1] = info[s].miner /\ y[1] = info[s].miner
      BY <2>4 DEF ShareInv, LineInv, ResultsInv
    <3>2. x[2] = y[2]
      <4>1. ~(x[2] < y[2]) /\ ~(y[2] < x[2])
        BY <2>1, <2>4, <3>1 DEF ShareInv, LineInv, ResultsInv
      <4>2. x[2] \in Nat /\ y[2] \in Nat
        BY <2>4, Zenon
      <4> QED BY ONLY <4>1, <4>2
    <3>3. \A z \in Miners \X {1, 2} : z = <<z[1], z[2]>>
      BY ONLY TRUE
    <3>4. x = <<x[1], x[2]>> /\ y = <<y[1], y[2]>>
      <4>1. x \in Miners \X {1, 2} /\ y \in Miners \X {1, 2}
        OBVIOUS
      <4> QED BY ONLY <3>3, <4>1
    <3> HIDE DEF B
    <3> QED BY ONLY <3>1, <3>2, <3>4
  <2>8. \A x, y \in C : x = y
    OBVIOUS
  <2>9. (A = {} \/ B = {}) /\ (A = {} \/ C = {}) /\ (B = {} \/ C = {})
    <3> HIDE DEF A, B, C
    <3>1. ASSUME NEW i \in A, NEW x \in B PROVE FALSE
      <4>1. i \in Queued /\ x[1] \in Miners /\ x[2] \in Results(x[1])
        BY ONLY <2>3, <2>4, <3>1, Zenon
      <4>2. InFront(queue[i], pending[x[1]][x[2]])
        BY <4>1 DEF ShareInv, LineInv, QueueInv
      <4> QED BY <2>2, <2>3, <2>4, <3>1, <4>2
    <3>2. ASSUME NEW i \in A, NEW x \in C PROVE FALSE
      BY <2>2, <2>3, <2>5, <3>2 DEF ShareInv, LineInv, HandInv
    <3>3. ASSUME NEW x \in B, NEW y \in C PROVE FALSE
      <4>1. /\ x[1] \in Miners /\ x[2] \in Results(x[1]) /\ pending[x[1]][x[2]] = s
            /\ Held /\ hand = s
        BY ONLY <2>4, <2>5, <3>3, Zenon
      <4>2. InFront(hand, pending[x[1]][x[2]])
        BY <4>1, Zenon DEF ShareInv, LineInv, HandInv
      <4> QED BY ONLY <2>2, <4>1, <4>2
    <3>4. A = {} \/ B = {}
      BY ONLY <3>1
    <3>5. A = {} \/ C = {}
      BY ONLY <3>2
    <3>6. B = {} \/ C = {}
      BY ONLY <3>3
    <3> QED BY <3>4, <3>5, <3>6
  <2>10. fate[s] = "live" <=> A # {} \/ B # {} \/ C # {}
    <3>1. ASSUME fate[s] = "live" PROVE A # {} \/ B # {} \/ C # {}
      <4>1. CASE Held /\ hand = s
        BY <4>1 DEF InHand, Held
      <4>2. CASE \E i \in Queued : queue[i] = s
        BY <4>2 DEF Queued
      <4>3. ASSUME NEW m \in Miners, NEW i \in Results(m), pending[m][i] = s
            PROVE  B # {}
        <5>1. Len(pending[m]) <= 2 /\ i \in DOMAIN pending[m] /\ pending[m] \in Seq(ShareIds)
          BY <4>3 DEF ShareInv, LineInv, ResultsInv
        <5>2. i \in {1, 2}
          BY <5>1
        <5>3. <<m, i>> \in B
          BY <4>3, <5>1, <5>2
        <5> QED BY <5>3
      <4> QED BY <3>1, <4>1, <4>2, <4>3 DEF ShareInv, LineInv, NoneLost
    <3>2. ASSUME A # {} \/ B # {} \/ C # {} PROVE fate[s] = "live"
      <4> HIDE DEF A, B, C
      <4>1. ASSUME NEW i \in A PROVE fate[s] = "live"
        BY <2>3, <4>1 DEF ShareInv, LineInv, QueueInv
      <4>2. ASSUME NEW x \in B PROVE fate[s] = "live"
        <5>1. /\ x[1] \in Miners /\ x[2] \in Results(x[1])
              /\ pending[x[1]][x[2]] = s
          BY <2>4, <4>2
        <5>2. fate[pending[x[1]][x[2]]] = "live"
          BY <5>1 DEF ShareInv, LineInv, ResultsInv
        <5> QED BY <5>1, <5>2
      <4>3. ASSUME NEW x \in C PROVE fate[s] = "live"
        BY <2>5, <4>3 DEF ShareInv, LineInv, HandInv
      <4> QED BY <3>2, <4>1, <4>2, <4>3
    <3> QED BY <3>1, <3>2
  <2> HIDE DEF A, B, C
  <2>11. /\ Cardinality(A) = IF A = {} THEN 0 ELSE 1
         /\ Cardinality(B) = IF B = {} THEN 0 ELSE 1
         /\ Cardinality(C) = IF C = {} THEN 0 ELSE 1
    BY <2>6, <2>7, <2>8, NoTwoElements
  <2>12. (Cardinality(A) + Cardinality(B) + Cardinality(C))
            = (IF fate[s] = "live" THEN 1 ELSE 0)
    BY <2>9, <2>10, <2>11
  <2> QED BY <2>12 DEF A, B, C
<1> QED
  BY <1>1, SharesInLine, PTL

-----------------------------------------------------------------------------
(* The counters of the donation *)

\* From the send on, a share is in hand until the decision about it is stored.
SentInv == wPc \in {"weigh", "store", "decide", "commit"}
              => hand \in ShareIds /\ fate[hand] = "sent"

CountInv == SentInv /\ CountsMatchSent

\* What the two counters count.
Counted == Sent \ Uncounted
CountedFor(p) == {s \in Counted : info[s].pool = p}

LEMMA CountedFinite == IsFiniteSet(Counted) /\ IsFiniteSet(CountedFor(Dev))
<1>1. IsFiniteSet(ShareIds)
  BY MiningAssumption, FS_Interval DEF ShareIds
<1>2. Counted \subseteq ShareIds /\ CountedFor(Dev) \subseteq ShareIds
  BY DEF Counted, CountedFor, Sent
<1> QED
  BY <1>1, <1>2, FS_Subset

\* Nothing that is counted changes.
LEMMA SameCounts ==
    ASSUME CountInv, SentInv', UNCHANGED <<shareCount, countDev>>, Counted' = Counted,
           \A s \in Counted : info'[s] = info[s]
    PROVE  CountInv'
<1>1. CountedFor(Dev)' = CountedFor(Dev)
  BY DEF CountedFor
<1> QED
  BY <1>1 DEF CountInv, CountsMatchSent, Counted, CountedFor

LEMMA MinerKeepsCounts ==
    ASSUME TypeOK, ShareInv, CountInv, NEW m \in Miners, MinerNext(m)
    PROVE  CountInv'
<1>1. UNCHANGED <<wPc, hand, shareCount, countDev>>
  BY MinerLeaves DEF workioVars, donationVars, countVars
<1>2. \A s \in ShareIds : /\ fate'[s] = "sent" <=> fate[s] = "sent"
                          /\ fate[s] = "sent" => info'[s] = info[s]
  <2>1. CASE \E k \in 1..2 : Find(m, k)
    <3>1. PICK k \in 1..2 : Find(m, k)
      BY <2>1
    <3> DEFINE first == MaxShares - Cardinality(Unborn) + 1
               new == first..(first + k - 1)
    <3>2. PICK n \in 0..MaxShares : Unborn = (n + 1)..MaxShares
      BY DEF ShareInv, Numbered
    <3>3. \A s \in ShareIds : s \in new => fate[s] = "unborn"
      <4>1. n \in Nat /\ MaxShares \in Nat /\ n <= MaxShares
        BY <3>2, MiningAssumption
      <4>2. Cardinality(Unborn) = IF n + 1 > MaxShares THEN 0 ELSE MaxShares - (n + 1) + 1
        BY <3>2, <4>1, FS_Interval
      <4>3. first = n + 1
        BY <4>1, <4>2
      <4>4. \A s \in ShareIds : s \in new => s \in Unborn
        BY <3>2, <4>1, <4>3, ShareTypes DEF ShareIds
      <4> QED BY <4>4 DEF Unborn
    <3>4. /\ info' = [s \in ShareIds |->
                        IF s \in new
                        THEN [miner |-> m, pool |-> mPool[m], job |-> mJob[m][mPool[m]]]
                        ELSE info[s]]
          /\ fate' = [s \in ShareIds |-> IF s \in new THEN "live" ELSE fate[s]]
      BY <3>1 DEF Find
    <3> HIDE DEF new
    <3> QED BY <3>3, <3>4
  <2>2. CASE Submit(m)
    <3>1. /\ info' = info /\ pending[m] # <<>>
          /\ fate' = fate \/ fate' = [fate EXCEPT ![Head(pending[m])] = "refused"]
      BY <2>2 DEF Submit
    <3>2. fate[Head(pending[m])] = "live" /\ Head(pending[m]) \in ShareIds
      <4>1. pending[m] \in Seq(ShareIds)
        BY ShareTypes
      <4>2. Head(pending[m]) = pending[m][1] /\ 1 \in Results(m)
            /\ Head(pending[m]) \in ShareIds
        BY <3>1, <4>1, HeadTail, ShareTypes
      <4> QED BY <4>2 DEF ShareInv, LineInv, ResultsInv
    <3> QED BY <3>1, <3>2, ShareTypes
  <2>3. CASE UNCHANGED <<fate, info>>
    BY <2>3
  <2>4. (\E k \in 1..2 : Find(m, k)) \/ Submit(m) \/ UNCHANGED <<fate, info>>
    BY DEF MinerNext, PickPool, TakeWork, BeginRefill, EndRefill, ClearRestart,
           ScanInterrupted, ScanOver, ScanEnd, shareVars
  <2> QED BY <2>1, <2>2, <2>3, <2>4
<1>3. SentInv'
  BY <1>1, <1>2 DEF CountInv, SentInv
<1>4. Counted' = Counted /\ \A s \in Counted : info'[s] = info[s]
  <2>1. Sent' = Sent
    BY <1>2 DEF Sent
  <2>2. Uncounted' = Uncounted
    BY <1>1 DEF Uncounted
  <2> QED BY <1>2, <2>1, <2>2 DEF Counted, Sent
<1> QED
  BY <1>1, <1>3, <1>4, SameCounts

LEMMA WorkioKeepsCounts ==
    ASSUME TypeOK, ShareInv, CountInv, WorkioNext
    PROVE  CountInv'
<1> USE DEF WorkioAt, StopWorkio, shareVars, donationVars, switchVars, countVars
<1>1. info' = info /\ hand \in ShareIds \cup {NULL} /\ fate \in [ShareIds -> Fates]
  BY DEF WorkioNext, TypeOK, PopShare, PopNull, PopNothing, Discard, Keep, SendOk,
         SendRetry, SendGiveUp, ReadWeight, StoreWeight, Decide, Commit
<1>2. /\ wPc \in {"check", "send"} => hand \in ShareIds /\ fate[hand] = "live"
      /\ wPc \in {"weigh", "store", "decide", "commit"}
            => hand \in ShareIds /\ fate[hand] = "sent"
  BY DEF ShareInv, LineInv, HandInv, Held, CountInv, SentInv
<1>3. CASE PopShare \/ PopNull \/ PopNothing \/ Keep \/ SendRetry
  <2>1. UNCHANGED <<fate, shareCount, countDev>>
    BY <1>3 DEF PopShare, PopNull, PopNothing, Keep, SendRetry
  <2>2. /\ wPc \notin {"weigh", "store", "decide", "commit"}
        /\ wPc' \notin {"weigh", "store", "decide", "commit"}
    BY <1>3 DEF PopShare, PopNull, PopNothing, Keep, SendRetry
  <2>3. Counted' = Counted /\ SentInv'
    BY <2>1, <2>2 DEF Counted, Sent, Uncounted, SentInv
  <2> QED BY <1>1, <2>1, <2>3, SameCounts
<1>4. CASE Discard \/ SendGiveUp
  <2>1. /\ UNCHANGED <<shareCount, countDev>> /\ wPc \in {"check", "send"}
        /\ wPc' \in {"pop", "exit"}
        /\ \E f \in {"stale", "givenUp"} : fate' = [fate EXCEPT ![hand] = f]
    BY <1>4 DEF Discard, SendGiveUp
  <2>2. Sent' = Sent
    BY <1>1, <1>2, <2>1 DEF Sent
  <2>3. Counted' = Counted /\ SentInv'
    BY <2>1, <2>2 DEF Counted, Uncounted, SentInv
  <2> QED BY <1>1, <2>1, <2>3, SameCounts
<1>5. CASE SendOk
  <2>1. /\ UNCHANGED <<shareCount, countDev, hand>> /\ wPc = "send" /\ wPc' = "weigh"
        /\ fate' = [fate EXCEPT ![hand] = "sent"]
    BY <1>5 DEF SendOk
  <2>2. Sent' = Sent \cup {hand} /\ hand \notin Sent
    BY <1>1, <1>2, <2>1 DEF Sent
  <2>3. Counted' = Counted
    BY <2>1, <2>2 DEF Counted, Uncounted
  <2>4. SentInv'
    BY <1>1, <1>2, <2>1 DEF SentInv
  <2> QED BY <1>1, <2>1, <2>3, <2>4, SameCounts
<1>6. CASE ReadWeight \/ StoreWeight
  <2>1. /\ UNCHANGED <<fate, shareCount, countDev, hand>>
        /\ wPc \in {"weigh", "store"} /\ wPc' \in {"store", "decide"}
    BY <1>6 DEF ReadWeight, StoreWeight
  <2>2. Counted' = Counted /\ SentInv'
    BY <1>2, <2>1 DEF Counted, Sent, Uncounted, SentInv
  <2> QED BY <1>1, <2>1, <2>2, SameCounts
<1>7. CASE Commit
  <2>1. UNCHANGED <<fate, shareCount, countDev>> /\ wPc = "commit" /\ wPc' = "pop"
    BY <1>7 DEF Commit
  <2>2. Counted' = Counted /\ SentInv'
    BY <2>1 DEF Counted, Sent, Uncounted, SentInv
  <2> QED BY <1>1, <2>1, <2>2, SameCounts
<1>8. CASE Decide
  <2>1. /\ UNCHANGED <<fate, hand>> /\ wPc = "decide" /\ wPc' = "commit"
        /\ shareCount' = shareCount + 1
        /\ countDev' = IF info[hand].pool = Dev THEN countDev + 1 ELSE countDev
    BY <1>8 DEF Decide
  <2>2. /\ Counted' = Counted \cup {hand} /\ hand \notin Counted
    BY <1>2, <2>1 DEF Counted, Sent, Uncounted
  <2>3. CountedFor(Dev)' = IF info[hand].pool = Dev THEN CountedFor(Dev) \cup {hand}
                           ELSE CountedFor(Dev)
    BY <1>1, <2>2 DEF CountedFor
  <2>4. hand \notin CountedFor(Dev)
    BY <2>2 DEF CountedFor
  <2>5. /\ Cardinality(Counted') = Cardinality(Counted) + 1
        /\ Cardinality(CountedFor(Dev)') = IF info[hand].pool = Dev
                                           THEN Cardinality(CountedFor(Dev)) + 1
                                           ELSE Cardinality(CountedFor(Dev))
    BY <2>2, <2>3, <2>4, CountedFinite, FS_AddElement
  <2>6. /\ shareCount = Cardinality(Counted)
        /\ countDev = Cardinality(CountedFor(Dev))
    BY DEF CountInv, CountsMatchSent, Counted, CountedFor
  <2>7. CountsMatchSent'
    BY <2>1, <2>5, <2>6 DEF CountsMatchSent, Counted, CountedFor
  <2>8. SentInv'
    BY <1>2, <2>1 DEF SentInv
  <2> QED BY <2>7, <2>8 DEF CountInv
<1> QED
  BY <1>3, <1>4, <1>5, <1>6, <1>7, <1>8 DEF WorkioNext

\* share_count and count_dev, which decide about the donation, count what was
\* sent, all of it and to the dev pool: discarded and retried shares leave no
\* trace in them, and none is counted twice.
THEOREM CountsCorrect == Spec => []CountsMatchSent
<1>1. Init => CountInv
  <2> SUFFICES ASSUME Init PROVE CountInv
    OBVIOUS
  <2>1. Sent = {} /\ shareCount = 0 /\ countDev = 0 /\ wPc = "pop"
    BY DEF Init, Sent
  <2> QED BY <2>1, FS_EmptySet DEF CountInv, SentInv, CountsMatchSent
<1>2. TypeOK /\ ShareInv /\ CountInv /\ [Next]_vars => CountInv'
  <2> SUFFICES ASSUME TypeOK, ShareInv, CountInv, [Next]_vars PROVE CountInv'
    OBVIOUS
  <2> USE DEF minerVars, queueVars, workioVars, shareVars, donationVars, countVars
  <2>1. ASSUME UNCHANGED <<fate, info, wPc, hand, shareCount, countDev>>
        PROVE  CountInv'
    BY <2>1 DEF CountInv, SentInv, CountsMatchSent, Sent, Uncounted
  <2>2. CASE UNCHANGED vars \/ ProcessExit
    BY <2>1, <2>2 DEF vars, ProcessExit
  <2>3. ASSUME NEW p \in Pools, StratumNext(p) PROVE CountInv'
    BY <2>1, <2>3, StratumLeaves
  <2> QED
    BY <2>2, <2>3, MinerKeepsCounts, WorkioKeepsCounts DEF Next, Terminated
<1> QED
  BY <1>1, <1>2, SharesInLine, PTL DEF Spec, CountInv
==============================================================================
