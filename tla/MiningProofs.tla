---------------------------- MODULE MiningProofs ----------------------------
(***************************************************************************)
(* Proofs about the running miner, for any number of miner threads, jobs   *)
(* and shares, any retry limit, donation and difficulties.                 *)
(***************************************************************************)
EXTENDS Mining, FiniteSetTheorems, TLAPS

LEMMA UnbornCount == MaxShares - Cardinality(Unborn) \in Int
<1>1. IsFiniteSet(ShareIds)
  BY MiningAssumption, FS_Interval DEF ShareIds
<1>2. Cardinality(Unborn) \in Nat
  BY <1>1, FS_Subset, FS_CardinalityType DEF Unborn
<1> QED
  BY <1>2, MiningAssumption

LEMMA PushKeepsType ==
    ASSUME queue \in Seq(ShareIds \cup {NULL}), NEW c \in ShareIds \cup {NULL},
           PushCommand(c)
    PROVE  queue' \in Seq(ShareIds \cup {NULL})
BY DEF PushCommand

LEMMA CountNat ==
    ASSUME NEW n \in Nat PROVE Count(n) \in Nat
BY DEF Count

\* Type correctness, one lemma per thread.
LEMMA MinerKeepsType ==
    ASSUME TypeOK, NEW m \in Miners, MinerNext(m)
    PROVE  TypeOK'
<1> USE DEF TypeOK, MinerAt, MinerGoes, donationVars, switchVars, countVars, boardVars,
            stratumVars, queueVars, workioVars, shareVars, MinerPcs, minerVars
<1>1. CASE PickPool(m)
  BY <1>1 DEF PickPool
<1>2. CASE TakeWork(m)
  BY <1>2 DEF TakeWork
<1>3. CASE BeginRefill(m)
  BY <1>3 DEF BeginRefill
<1>4. CASE EndRefill(m)
  BY <1>4 DEF EndRefill
<1>5. CASE ClearRestart(m)
  BY <1>5 DEF ClearRestart
<1>6. CASE ScanEnd(m)
  BY <1>6 DEF ScanEnd, ForgetPool, Pools
<1>7. ASSUME NEW k \in 1..2, Find(m, k) PROVE TypeOK'
  <2> DEFINE first == MaxShares - Cardinality(Unborn) + 1
             new == first..(first + k - 1)
  <2>1. first \in Int
    BY UnbornCount
  <2>2. new \subseteq ShareIds
    BY <1>7 DEF Find
  <2>3. [i \in 1..k |-> first + i - 1] \in Seq(ShareIds)
    <3> HIDE DEF first
    <3>1. \A i \in 1..k : first + i - 1 \in ShareIds
      BY <2>1, <2>2
    <3> QED
      BY <3>1
  <2>4. pending' = [pending EXCEPT ![m] = [i \in 1..k |-> first + i - 1]]
    BY <1>7 DEF Find
  <2>5. pending' \in [Miners -> Seq(ShareIds)]
    BY <2>3, <2>4
  <2>6. fate' \in [ShareIds -> Fates]
    BY <1>7 DEF Find, Fates
  <2>7. info' \in [ShareIds -> [miner : Miners, pool : Pools, job : Jobs] \cup {NULL}]
    <3>1. [miner |-> m, pool |-> mPool[m], job |-> mJob[m][mPool[m]]]
             \in [miner : Miners, pool : Pools, job : Jobs]
      OBVIOUS
    <3> QED
      BY <1>7, <3>1 DEF Find
  <2> QED
    BY <1>7, <2>5, <2>6, <2>7 DEF Find, ForgetPool, Pools
<1>8. CASE Submit(m)
  <2>1. Head(pending[m]) \in ShareIds /\ Tail(pending[m]) \in Seq(ShareIds)
    BY <1>8 DEF Submit
  <2>2. queue' \in Seq(ShareIds \cup {NULL})
    BY <1>8, <2>1, PushKeepsType DEF Submit
  <2>3. fate' \in [ShareIds -> Fates]
    BY <1>8 DEF Submit, Fates
  <2> QED
    BY <1>8, <2>1, <2>2, <2>3 DEF Submit
<1> QED
  BY <1>1, <1>2, <1>3, <1>4, <1>5, <1>6, <1>7, <1>8
     DEF MinerNext, ScanInterrupted, ScanOver

LEMMA PopKeepsType ==
    ASSUME queue \in Seq(ShareIds \cup {NULL}), queue # <<>>
    PROVE  /\ Head(queue) \in ShareIds \cup {NULL}
           /\ Tail(queue) \in Seq(ShareIds \cup {NULL})
OBVIOUS

LEMMA WorkioKeepsType ==
    ASSUME TypeOK, WorkioNext
    PROVE  TypeOK'
<1> USE DEF TypeOK, WorkioAt, StopWorkio, donationVars, switchVars, countVars,
            boardVars, stratumVars, queueVars, minerVars, shareVars, WorkioPcs, Fates
<1>1. CASE PopShare
  BY <1>1, PopKeepsType DEF PopShare
<1>2. CASE PopNull
  BY <1>2, PopKeepsType DEF PopNull
<1>3. CASE PopNothing
  BY <1>3 DEF PopNothing
<1>4. CASE Discard
  BY <1>4 DEF Discard
<1>5. CASE Keep
  BY <1>5 DEF Keep
<1>6. CASE SendOk
  BY <1>6 DEF SendOk
<1>7. CASE SendRetry
  BY <1>7, CountNat DEF SendRetry
<1>8. CASE SendGiveUp
  BY <1>8 DEF SendGiveUp
<1>9. CASE ReadWeight
  <2>1. \A p \in Pools : Difficulty(p) \in Nat
    BY MiningAssumption DEF Difficulty
  <2>2. <<donate * Difficulty(User), 100 * Difficulty(Dev)>> \in Nat \X Nat
    <3>1. User \in Pools /\ Dev \in Pools
      BY DEF Pools
    <3>2. Difficulty(User) \in Nat /\ Difficulty(Dev) \in Nat /\ donate \in Nat
      BY <2>1, <3>1
    <3> HIDE DEF Difficulty, TypeOK
    <3>3. \A a, b \in Nat : a * b \in Nat
      OBVIOUS
    <3> QED
      BY <3>2, <3>3
  <2>3. wWeight' \in Nat \X Nat
    BY <1>9, <2>2 DEF ReadWeight
  <2> QED
    BY <1>9, <2>3 DEF ReadWeight
<1>10. CASE StoreWeight
  BY <1>10 DEF StoreWeight
<1>11. CASE Decide
  <2>1. shareCount' \in Nat /\ countDev' \in Nat
    BY <1>11 DEF Decide
  <2>2. wNext' \in Pools
    BY <1>11 DEF Decide, Pools
  <2> QED
    BY <1>11, <2>1, <2>2 DEF Decide
<1>12. CASE Commit
  BY <1>12 DEF Commit, RestartThreads, Pools
<1> QED
  BY <1>1, <1>2, <1>3, <1>4, <1>5, <1>6, <1>7, <1>8, <1>9, <1>10, <1>11, <1>12
     DEF WorkioNext

LEMMA StratumKeepsType ==
    ASSUME TypeOK, NEW p \in Pools, StratumNext(p)
    PROVE  TypeOK'
<1> USE DEF TypeOK, StratumAt, Goto, switchVars, countVars, boardVars, minerVars,
            workioVars, shareVars, StratumPcs, RestartThreads
<1>1. CASE ReadDev(p)
  BY <1>1 DEF ReadDev
<1>2. CASE ResetBoard(p)
  BY <1>2 DEF ResetBoard
<1>3. CASE Connect(p)
  BY <1>3 DEF Connect
<1>4. CASE JobBeforeLogin(p)
  <2>1. sWork' \in [Pools -> Jobs]
    BY <1>4 DEF JobBeforeLogin
  <2> QED
    BY <1>4, <2>1 DEF JobBeforeLogin
<1>5. CASE Login(p)
  BY <1>5 DEF Login, NextWork
<1>6. CASE ConnectFails(p)
  <2>1. sFail' \in [Pools -> Nat]
    BY <1>6, CountNat DEF ConnectFails
  <2>2. sPc' \in [Pools -> StratumPcs] /\ sDev' \in [Pools -> Pools]
    BY <1>6 DEF ConnectFails, ForgetDev, Pools
  <2>3. conn' \in [Pools -> {"down", "login", "up"}]
    BY <1>6 DEF ConnectFails
  <2>4. UNCHANGED <<alive, countVars, minerVars, frozen, workioVars, shareVars,
                   switchVars, boardVars, sWork, thrUp, restart, queue>>
    <3>1. CASE StratumAt(p, "connect")
      BY <1>6, <3>1 DEF ConnectFails
    <3>2. CASE StratumAt(p, "login")
      BY <1>6, <3>2 DEF ConnectFails
    <3> QED
      BY <1>6, <3>1, <3>2 DEF ConnectFails
  <2> QED
    BY <2>1, <2>2, <2>3, <2>4
<1>7. CASE Backoff(p)
  BY <1>7 DEF Backoff, Pools
<1>8. CASE CheckBoard(p)
  <2>1. sPc' \in [Pools -> StratumPcs]
    <3>1. sPc' \in {[sPc EXCEPT ![p] = "lock"], [sPc EXCEPT ![p] = "recv"]}
      BY <1>8 DEF CheckBoard
    <3> QED
      BY <3>1
  <2>2. sDev' \in [Pools -> Pools]
    BY <1>8 DEF CheckBoard, ForgetDev, Pools
  <2> HIDE DEF Goto
  <2> QED
    BY <1>8, <2>1, <2>2 DEF CheckBoard
<1>9. CASE LockBoard(p)
  BY <1>9 DEF LockBoard
<1>10. CASE Publish(p)
  BY <1>10 DEF Publish
<1>11. CASE RestartMiners(p)
  BY <1>11 DEF RestartMiners, ForgetDev, Pools
<1>12. CASE Receive(p)
  BY <1>12 DEF Receive, NextWork
<1>13. CASE ConnectionLost(p)
  BY <1>13 DEF ConnectionLost
<1>14. CASE DisableDonation(p)
  <2>1. mineForDev' \in Pools /\ donate' \in 0..100
    <3>1. mineForDev' \in {User, mineForDev} /\ donate' \in {0, donate}
      BY <1>14 DEF DisableDonation
    <3> QED
      BY <3>1 DEF Pools
  <2>2. weighted' \in Nat \X Nat
    <3>1. weighted' = weighted \/ weighted' = <<0, 100>>
      BY <1>14 DEF DisableDonation
    <3> QED
      BY <3>1
  <2>3. \E l \in StratumPcs : sPc' = [sPc EXCEPT ![p] = l]
    BY <1>14 DEF DisableDonation
  <2> QED
    BY <1>14, <2>1, <2>2, <2>3 DEF DisableDonation
<1>15. CASE Quit(p)
  BY <1>15, PushKeepsType DEF Quit
<1>16. CASE Leave(p)
  BY <1>16 DEF Leave
<1> QED
  BY <1>1, <1>2, <1>3, <1>4, <1>5, <1>6, <1>7, <1>8, <1>9, <1>10, <1>11, <1>12,
     <1>13, <1>14, <1>15, <1>16 DEF StratumNext

\* Every variable keeps its type: in particular no counter, job number, label or
\* queue entry of any thread ever leaves its range.
THEOREM TypeCorrect == Spec => []TypeOK
<1>1. Init => TypeOK
  <2> SUFFICES ASSUME Init PROVE TypeOK
    OBVIOUS
  <2>1. User \in Pools /\ 0 \in Jobs
    BY MiningAssumption DEF Pools, Jobs
  <2>2. /\ mineForDev \in Pools /\ shareCount \in Nat /\ countDev \in Nat
        /\ donate \in 0..100 /\ wNext \in Pools
        /\ weighted \in Nat \X Nat /\ wWeight \in Nat \X Nat
    BY MiningAssumption, <2>1 DEF Init
  <2>3. /\ gWork \in [Pools -> Jobs] /\ sWork \in [Pools -> Jobs]
        /\ mJob \in [Miners -> [Pools -> Jobs]] /\ mPool \in [Miners -> Pools]
        /\ sDev \in [Pools -> Pools] /\ sFail \in [Pools -> Nat]
    BY <2>1 DEF Init
  <2>4. thrUp \in [Pools -> BOOLEAN]
    BY MiningAssumption DEF Init
  <2>5. sPc \in [Pools -> StratumPcs]
    BY DEF Init, StratumPcs
  <2>6. /\ info \in [ShareIds -> [miner : Miners, pool : Pools, job : Jobs] \cup {NULL}]
        /\ fate \in [ShareIds -> Fates]
        /\ pending \in [Miners -> Seq(ShareIds)]
        /\ queue \in Seq(ShareIds \cup {NULL})
    BY DEF Init, Fates
  <2> QED
    BY <2>2, <2>3, <2>4, <2>5, <2>6 DEF Init, TypeOK, MinerPcs, WorkioPcs
<1>2. TypeOK /\ [Next]_vars => TypeOK'
  <2> SUFFICES ASSUME TypeOK, [Next]_vars PROVE TypeOK'
    OBVIOUS
  <2>1. CASE UNCHANGED vars
    BY <2>1 DEF TypeOK, vars, donationVars, switchVars, countVars, boardVars,
       stratumVars, minerVars, queueVars, workioVars, shareVars
  <2>2. CASE ProcessExit
    BY <2>2 DEF TypeOK, ProcessExit, donationVars, switchVars, countVars, boardVars,
       stratumVars, minerVars, queueVars, workioVars, shareVars
  <2> QED
    BY <2>1, <2>2, MinerKeepsType, WorkioKeepsType, StratumKeepsType
       DEF Next, Terminated
<1> QED
  BY <1>1, <1>2, PTL DEF Spec

-----------------------------------------------------------------------------
(* The donation stays off *)

\* What a decision under way needs to know once disableDonation has begun: the
\* donation is zero, or the thread is gone, before mine_for_dev is reset; and a
\* decision holds dev_lock until it is stored.
DonationInv ==
    /\ devLocked <=> wPc = "commit"
    /\ sPc[Dev] # "quit"
    /\ sPc[Dev] \in {"disable2", "disable3", "out"} => donate = 0
    /\ sPc[Dev] = "gone" => ~thrUp[Dev]
    /\ sPc[Dev] \in {"out", "gone"}
          => mineForDev = User /\ (wPc = "commit" => wNext = User)

LEMMA MinerLeaves ==
    ASSUME NEW m \in Miners, MinerNext(m)
    PROVE  UNCHANGED <<alive, donationVars, stratumVars, workioVars>>
BY DEF MinerNext, MinerAt, PickPool, TakeWork, BeginRefill, EndRefill, ClearRestart,
       ScanInterrupted, ScanOver, ScanEnd, Find, Submit

LEMMA WorkioKeepsDonationInv ==
    ASSUME TypeOK, DonationInv, WorkioNext
    PROVE  DonationInv'
<1> USE DEF WorkioAt, StopWorkio, DonationInv, stratumVars, donationVars, switchVars,
            countVars
<1>1. CASE PopShare \/ PopNull \/ PopNothing \/ Discard \/ Keep
  <2>1. UNCHANGED <<donationVars, stratumVars>> /\ wPc # "commit" /\ wPc' # "commit"
    BY <1>1 DEF PopShare, PopNull, PopNothing, Discard, Keep
  <2> QED
    BY <2>1
<1>2. CASE SendOk \/ SendRetry \/ SendGiveUp \/ ReadWeight \/ StoreWeight
  BY <1>2 DEF SendOk, SendRetry, SendGiveUp, ReadWeight, StoreWeight
<1>3. CASE Decide
  <2>1. UNCHANGED <<mineForDev, donate, sPc, thrUp>> /\ devLocked' /\ wPc' = "commit"
    BY <1>3 DEF Decide
  <2>2. ASSUME sPc[Dev] \in {"out", "gone"} PROVE wNext' = User
    <3>1. mineForDev = User /\ (donate = 0 \/ ~thrUp[Dev])
      BY <2>2
    <3>2. \A d, a : ~DonationDue(d, a)
      BY <3>1 DEF DonationDue
    <3> QED
      BY <1>3, <3>1, <3>2 DEF Decide
  <2> QED
    BY <2>1, <2>2
<1>4. CASE Commit
  BY <1>4 DEF Commit
<1> QED
  BY <1>1, <1>2, <1>3, <1>4 DEF WorkioNext

LEMMA StratumKeepsDonationInv ==
    ASSUME TypeOK, DonationInv, NEW p \in Pools, StratumNext(p)
    PROVE  DonationInv'
<1> DEFINE Ends == {"disable2", "disable3", "out", "gone", "quit"}
<1>1. UNCHANGED <<devLocked, wPc, wNext>>
  BY DEF StratumNext, StratumAt, countVars, workioVars, ReadDev, ResetBoard, Connect,
         JobBeforeLogin, Login, ConnectFails, Backoff, CheckBoard, LockBoard, Publish,
         RestartMiners, Receive, ConnectionLost, DisableDonation, Quit, Leave
<1>2. sPc \in [Pools -> StratumPcs] /\ thrUp \in [Pools -> BOOLEAN]
      /\ Dev \in Pools /\ User # Dev
  BY DEF TypeOK, Pools, User, Dev
<1> USE DEF StratumAt, Goto, switchVars, stratumVars
<1>3. CASE DisableDonation(p) /\ p = Dev
  BY <1>1, <1>2, <1>3 DEF DisableDonation, DonationInv
<1>4. CASE Leave(p) /\ p = Dev
  BY <1>1, <1>2, <1>4 DEF Leave, DonationInv
<1>5. CASE p # Dev
  <2>1. sPc'[Dev] = sPc[Dev] /\ thrUp'[Dev] = thrUp[Dev]
    BY <1>2, <1>5
       DEF StratumNext, ReadDev, ResetBoard, Connect, JobBeforeLogin, Login,
           ConnectFails, Backoff, CheckBoard, LockBoard, Publish, RestartMiners,
           Receive, ConnectionLost, DisableDonation, Quit, Leave
  <2>2. donate' \in {donate, 0} /\ mineForDev' \in {mineForDev, User}
    BY DEF StratumNext, ReadDev, ResetBoard, Connect, JobBeforeLogin, Login,
           ConnectFails, Backoff, CheckBoard, LockBoard, Publish, RestartMiners,
           Receive, ConnectionLost, DisableDonation, Quit, Leave
  <2> QED
    BY <1>1, <2>1, <2>2 DEF DonationInv
<1>6. CASE p = Dev /\ ~DisableDonation(p) /\ ~Leave(p)
  <2>1. sPc[Dev] \notin Ends /\ sPc'[Dev] \notin Ends
    BY <1>2, <1>6
       DEF DonationInv, StratumNext, ReadDev, ResetBoard, Connect, JobBeforeLogin,
           Login, ConnectFails, Backoff, CheckBoard, LockBoard, Publish,
           RestartMiners, Receive, ConnectionLost, Quit
  <2> QED
    BY <1>1, <2>1 DEF DonationInv
<1> QED
  BY <1>3, <1>4, <1>5, <1>6

\* disableDonation is final: whatever share decision was under way when the dev
\* pool was given up, mine_for_dev is and stays 0 once the function has returned.
THEOREM DonationStaysOff == Spec => []DonationOffIsFinal
<1>1. Init => DonationInv
  <2> SUFFICES ASSUME Init PROVE DonationInv
    OBVIOUS
  <2>1. Dev \in Pools /\ Dev # User
    BY DEF Pools, User, Dev
  <2>2. sPc[Dev] \in {"outer", "gone"} /\ (sPc[Dev] = "gone" => ~thrUp[Dev])
    BY <2>1, MiningAssumption DEF Init
  <2> QED
    BY <2>2 DEF Init, DonationInv
<1>2. TypeOK /\ DonationInv /\ [Next]_vars => DonationInv'
  <2> SUFFICES ASSUME TypeOK, DonationInv, [Next]_vars PROVE DonationInv'
    OBVIOUS
  <2> USE DEF donationVars, switchVars, countVars, stratumVars, workioVars
  <2>1. CASE UNCHANGED vars
    BY <2>1 DEF DonationInv, vars
  <2>2. CASE ProcessExit
    BY <2>2 DEF DonationInv, ProcessExit
  <2>3. ASSUME NEW m \in Miners, MinerNext(m) PROVE DonationInv'
    BY <2>3, MinerLeaves DEF DonationInv
  <2> QED
    BY <2>1, <2>2, <2>3, WorkioKeepsDonationInv, StratumKeepsDonationInv
       DEF Next, Terminated
<1>3. DonationInv => DonationOffIsFinal
  BY DEF DonationInv, DonationOffIsFinal
<1> QED
  BY <1>1, <1>2, <1>3, TypeCorrect, PTL DEF Spec

-----------------------------------------------------------------------------
(* Jobs only get newer *)

\* A job travels from the stratum thread to the board, from there to a miner and
\* into its shares; no stage is ever ahead of the one before.
JobInv ==
    /\ \A p \in Pools : gWork[p] <= sWork[p]
    /\ \A m \in Miners, p \in Pools : mJob[m][p] <= gWork[p]
    /\ \A s \in ShareIds :
          fate[s] # "unborn" =>
             /\ info[s] \in [miner : Miners, pool : Pools, job : Jobs]
             /\ info[s].job <= gWork[info[s].pool]

\* What a step may do to the jobs if JobInv is to survive.
JobStep ==
    /\ \A p \in Pools : sWork'[p] >= sWork[p] /\ gWork'[p] \in {gWork[p], sWork[p]}
    /\ \A m \in Miners, p \in Pools :
          mJob'[m][p] \in {mJob[m][p], gWork[p], gWork'[p]}
    /\ \A s \in ShareIds :
          fate'[s] # "unborn" =>
             \/ fate[s] # "unborn" /\ info'[s] = info[s]
             \/ /\ info'[s] \in [miner : Miners, pool : Pools, job : Jobs]
                /\ \E m \in Miners : info'[s].job = mJob[m][info'[s].pool]

LEMMA JobsAreInts == Jobs \subseteq Int
BY MiningAssumption DEF Jobs

LEMMA JobStepKeepsJobInv ==
    ASSUME TypeOK, TypeOK', JobInv, JobStep
    PROVE  JobInv'
<1>1. /\ \A p \in Pools : gWork[p] \in Int /\ sWork[p] \in Int
      /\ \A p \in Pools : gWork'[p] \in Int /\ sWork'[p] \in Int
      /\ \A m \in Miners, p \in Pools : mJob[m][p] \in Int
      /\ \A x \in [miner : Miners, pool : Pools, job : Jobs] :
            x.job \in Int /\ x.pool \in Pools
  BY JobsAreInts DEF TypeOK
<1>2. \A p \in Pools : gWork[p] <= gWork'[p] /\ gWork'[p] <= sWork'[p]
  BY <1>1 DEF JobInv, JobStep
<1>3. \A m \in Miners, p \in Pools : mJob'[m][p] <= gWork'[p]
  BY <1>1, <1>2 DEF JobInv, JobStep
<1>4. ASSUME NEW s \in ShareIds, fate'[s] # "unborn"
      PROVE  /\ info'[s] \in [miner : Miners, pool : Pools, job : Jobs]
             /\ info'[s].job <= gWork'[info'[s].pool]
  <2>1. CASE fate[s] # "unborn" /\ info'[s] = info[s]
    BY <1>1, <1>2, <2>1 DEF JobInv
  <2>2. CASE /\ info'[s] \in [miner : Miners, pool : Pools, job : Jobs]
             /\ \E m \in Miners : info'[s].job = mJob[m][info'[s].pool]
    BY <1>1, <1>2, <2>2 DEF JobInv
  <2> QED
    BY <1>4, <2>1, <2>2 DEF JobStep
<1> QED
  BY <1>2, <1>3, <1>4 DEF JobInv

\* A share in a miner's results, in the queue or in the workio thread's hand has
\* been found.
BornInv ==
    /\ \A m \in Miners : \A i \in DOMAIN pending[m] : fate[pending[m][i]] # "unborn"
    /\ \A i \in DOMAIN queue : queue[i] # NULL => fate[queue[i]] # "unborn"
    /\ wPc \in {"check", "send"} => hand \in ShareIds /\ fate[hand] # "unborn"

LEMMA HeadTail ==
    ASSUME NEW S, NEW q \in Seq(S), q # <<>>
    PROVE  /\ Head(q) = q[1] /\ Head(q) \in S
           /\ 1 \in DOMAIN q
           /\ Tail(q) \in Seq(S)
           /\ Len(Tail(q)) = Len(q) - 1
           /\ \A i \in DOMAIN Tail(q) : i + 1 \in DOMAIN q /\ Tail(q)[i] = q[i + 1]
OBVIOUS

LEMMA Appended ==
    ASSUME NEW S, NEW q \in Seq(S), NEW c \in S, NEW i \in DOMAIN Append(q, c)
    PROVE  \/ i = Len(q) + 1 /\ Append(q, c)[i] = c
           \/ i \in DOMAIN q /\ Append(q, c)[i] = q[i]
OBVIOUS

LEMMA MinerKeepsBorn ==
    ASSUME TypeOK, BornInv, NEW m \in Miners, MinerNext(m)
    PROVE  BornInv' /\ \A s \in ShareIds : fate[s] # "unborn" => fate'[s] # "unborn"
<1>1. UNCHANGED <<wPc, hand>>
  BY MinerLeaves DEF workioVars
<1>2. /\ fate \in [ShareIds -> Fates] /\ pending \in [Miners -> Seq(ShareIds)]
      /\ queue \in Seq(ShareIds \cup {NULL}) /\ mPc \in [Miners -> MinerPcs]
  BY DEF TypeOK
<1>3. CASE \E k \in 1..2 : Find(m, k)
  <2>1. PICK k \in 1..2 : Find(m, k)
    BY <1>3
  <2> DEFINE first == MaxShares - Cardinality(Unborn) + 1
             new == first..(first + k - 1)
             found == [i \in 1..k |-> first + i - 1]
  <2>2. /\ fate' = [s \in ShareIds |-> IF s \in new THEN "live" ELSE fate[s]]
        /\ pending' = [pending EXCEPT ![m] = found]
        /\ new \subseteq ShareIds
        /\ queue' = queue
    BY <2>1 DEF Find, queueVars
  <2>3. first \in Int
    BY UnbornCount
  <2> HIDE DEF first
  <2>4. \A i \in DOMAIN found : found[i] \in new
    BY <2>3
  <2> HIDE DEF new
  <2>5. \A s \in ShareIds : fate[s] # "unborn" => fate'[s] # "unborn"
    BY <2>2, <1>2
  <2>6. \A i \in DOMAIN found : fate'[found[i]] # "unborn"
    BY <2>2, <2>4
  <2> HIDE DEF found
  <2>7. ASSUME NEW n \in Miners, NEW i \in DOMAIN pending'[n]
        PROVE  fate'[pending'[n][i]] # "unborn"
    <3>1. CASE n = m
      BY <3>1, <2>2, <2>6, <1>2
    <3>2. CASE n # m
      <4>1. pending'[n] = pending[n] /\ pending[n][i] \in ShareIds
        BY <3>2, <2>2, <1>2
      <4> QED
        BY <4>1, <2>5 DEF BornInv
    <3> QED
      BY <3>1, <3>2
  <2>8. ASSUME NEW i \in DOMAIN queue', queue'[i] # NULL
        PROVE  fate'[queue'[i]] # "unborn"
    BY <2>2, <2>5, <2>8, <1>2 DEF BornInv
  <2> QED
    BY <2>5, <2>7, <2>8, <1>1 DEF BornInv
<1>4. CASE Submit(m)
  <2> DEFINE s == Head(pending[m])
  <2>1. /\ pending[m] \in Seq(ShareIds) /\ pending[m] # <<>>
        /\ queue' = queue \/ queue' = Append(queue, s)
        /\ fate' = [fate EXCEPT ![s] = "refused"] \/ fate' = fate
        /\ pending' = [pending EXCEPT ![m] = Tail(@)]
    BY <1>2, <1>4 DEF Submit, PushCommand
  <2>2. s \in ShareIds /\ fate[s] # "unborn"
    BY <2>1, HeadTail DEF BornInv
  <2>3. \A t \in ShareIds : fate[t] # "unborn" => fate'[t] # "unborn"
    BY <1>2, <2>1
  <2>4. ASSUME NEW n \in Miners, NEW i \in DOMAIN pending'[n]
        PROVE  fate'[pending'[n][i]] # "unborn"
    <3>1. CASE n = m
      <4>1. pending'[n] = Tail(pending[m])
        BY <3>1, <2>1, <1>2
      <4>2. i + 1 \in DOMAIN pending[m] /\ pending'[n][i] = pending[m][i + 1]
        BY <4>1, <2>1, <2>4, HeadTail
      <4>3. pending[m][i + 1] \in ShareIds
        BY <4>2, <2>1
      <4> QED
        BY <4>2, <4>3, <2>3 DEF BornInv
    <3>2. CASE n # m
      <4>1. pending'[n] = pending[n] /\ pending[n][i] \in ShareIds
        BY <3>2, <2>1, <1>2
      <4> QED
        BY <4>1, <2>3 DEF BornInv
    <3> QED
      BY <3>1, <3>2
  <2> HIDE DEF s
  <2>5. ASSUME NEW i \in DOMAIN queue', queue'[i] # NULL
        PROVE  fate'[queue'[i]] # "unborn"
    <3>1. queue'[i] = s \/ (i \in DOMAIN queue /\ queue'[i] = queue[i])
      <4>1. CASE queue' = queue
        BY <4>1, <2>5
      <4>2. CASE queue' = Append(queue, s)
        BY <4>2, <2>2, <2>5, <1>2, Appended
      <4> QED
        BY <4>1, <4>2, <2>1
    <3>2. queue'[i] \in ShareIds
      BY <3>1, <2>2, <2>5, <1>2
    <3> QED
      BY <3>1, <3>2, <2>2, <2>3, <2>5 DEF BornInv
  <2> QED
    BY <2>3, <2>4, <2>5, <1>1 DEF BornInv
<1>5. CASE UNCHANGED <<pending, queue, fate>>
  BY <1>1, <1>5 DEF BornInv
<1>6. (\E k \in 1..2 : Find(m, k)) \/ Submit(m) \/ UNCHANGED <<pending, queue, fate>>
  BY DEF MinerNext, PickPool, TakeWork, BeginRefill, EndRefill, ClearRestart,
         ScanInterrupted, ScanOver, ScanEnd, queueVars, shareVars
<1> QED
  BY <1>3, <1>4, <1>5, <1>6

LEMMA WorkioKeepsBorn ==
    ASSUME TypeOK, BornInv, WorkioNext
    PROVE  BornInv' /\ \A s \in ShareIds : fate[s] # "unborn" => fate'[s] # "unborn"
<1>1. UNCHANGED pending
  BY DEF WorkioNext, WorkioAt, minerVars, PopShare, PopNull, PopNothing, Discard, Keep,
         SendOk, SendRetry, SendGiveUp, ReadWeight, StoreWeight, Decide, Commit
<1>2. /\ fate \in [ShareIds -> Fates] /\ pending \in [Miners -> Seq(ShareIds)]
      /\ queue \in Seq(ShareIds \cup {NULL}) /\ hand \in ShareIds \cup {NULL}
  BY DEF TypeOK
<1>3. fate' = fate \/ \E f \in Fates \ {"unborn"} : fate' = [fate EXCEPT ![hand] = f]
  BY DEF WorkioNext, shareVars, PopShare, PopNull, PopNothing, Discard, Keep,
         SendOk, SendRetry, SendGiveUp, ReadWeight, StoreWeight, Decide, Commit, Fates
<1>4. \A s \in ShareIds : fate[s] # "unborn" => fate'[s] # "unborn"
  BY <1>2, <1>3
<1>5. queue' = queue \/ (queue # <<>> /\ queue' = Tail(queue))
  BY DEF WorkioNext, queueVars, PopShare, PopNull, PopNothing, Discard, Keep,
         SendOk, SendRetry, SendGiveUp, ReadWeight, StoreWeight, Decide, Commit,
         StopWorkio
<1>6. \A m \in Miners : \A i \in DOMAIN pending'[m] : fate'[pending'[m][i]] # "unborn"
  <2>1. \A m \in Miners : \A i \in DOMAIN pending[m] : pending[m][i] \in ShareIds
    BY <1>2
  <2> QED
    BY <1>1, <1>4, <2>1 DEF BornInv
<1>7. ASSUME NEW i \in DOMAIN queue', queue'[i] # NULL PROVE fate'[queue'[i]] # "unborn"
  <2>1. PICK j \in DOMAIN queue : queue'[i] = queue[j]
    <3>1. CASE queue' = queue
      BY <3>1, <1>7
    <3>2. CASE queue # <<>> /\ queue' = Tail(queue)
      BY <3>2, <1>2, <1>7, HeadTail
    <3> QED
      BY <3>1, <3>2, <1>5
  <2>2. queue[j] \in ShareIds
    BY <2>1, <1>2, <1>7
  <2> QED
    BY <2>1, <2>2, <1>4, <1>7 DEF BornInv
<1>8. wPc' \in {"check", "send"} => hand' \in ShareIds /\ fate'[hand'] # "unborn"
  <2>1. CASE PopShare
    <3>1. Head(queue) \in ShareIds \cup {NULL} /\ Head(queue) = queue[1]
          /\ 1 \in DOMAIN queue
      BY <2>1, <1>2, HeadTail DEF PopShare
    <3>2. hand' = queue[1] /\ queue[1] # NULL
      BY <2>1, <3>1 DEF PopShare
    <3>3. queue[1] \in ShareIds /\ fate[queue[1]] # "unborn"
      BY <3>1, <3>2 DEF BornInv
    <3> QED
      BY <3>2, <3>3, <1>4
  <2>2. CASE Keep \/ SendRetry
    <3>1. hand' = hand /\ hand \in ShareIds /\ fate[hand] # "unborn"
      BY <2>2 DEF Keep, SendRetry, WorkioAt, BornInv
    <3> QED
      BY <3>1, <1>4
  <2>3. CASE ~PopShare /\ ~Keep /\ ~SendRetry
    <3>1. wPc' \notin {"check", "send"}
      BY <2>3 DEF WorkioNext, PopNull, PopNothing, Discard, SendOk, SendGiveUp,
         ReadWeight, StoreWeight, Decide, Commit, StopWorkio, WorkioAt
    <3> QED
      BY <3>1
  <2> QED
    BY <2>1, <2>2, <2>3
<1> QED
  BY <1>4, <1>6, <1>7, <1>8 DEF BornInv

LEMMA StratumLeaves ==
    ASSUME NEW p \in Pools, StratumNext(p)
    PROVE  /\ UNCHANGED <<alive, countVars, minerVars, frozen, workioVars, shareVars>>
           /\ queue' = queue \/ queue' = Append(queue, NULL)
BY DEF StratumNext, StratumAt, ReadDev, ResetBoard, Connect, JobBeforeLogin, Login,
       ConnectFails, Backoff, CheckBoard, LockBoard, Publish, RestartMiners, Receive,
       ConnectionLost, DisableDonation, Quit, Leave, PushCommand

LEMMA StratumKeepsBorn ==
    ASSUME TypeOK, BornInv, NEW p \in Pools, StratumNext(p)
    PROVE  BornInv' /\ \A s \in ShareIds : fate[s] # "unborn" => fate'[s] # "unborn"
<1>1. UNCHANGED <<fate, wPc, hand, pending>>
  BY StratumLeaves DEF minerVars, workioVars, shareVars
<1>2. queue \in Seq(ShareIds \cup {NULL})
  BY DEF TypeOK
<1>3. ASSUME NEW i \in DOMAIN queue', queue'[i] # NULL
      PROVE  i \in DOMAIN queue /\ queue'[i] = queue[i]
  <2>1. CASE queue' = queue
    BY <1>3, <2>1
  <2>2. CASE queue' = Append(queue, NULL)
    BY <1>2, <1>3, <2>2, Appended
  <2> QED
    BY <2>1, <2>2, StratumLeaves
<1> QED
  BY <1>1, <1>3 DEF BornInv

LEMMA MinerJobStep ==
    ASSUME TypeOK, BornInv, NEW m \in Miners, MinerNext(m)
    PROVE  JobStep
<1>1. UNCHANGED sWork
  BY MinerLeaves DEF stratumVars
<1>2. /\ gWork \in [Pools -> Jobs] /\ sWork \in [Pools -> Jobs]
      /\ mPool \in [Miners -> Pools] /\ mJob \in [Miners -> [Pools -> Jobs]]
      /\ fate \in [ShareIds -> Fates]
      /\ \A p \in Pools : sWork[p] \in Int
  BY JobsAreInts DEF TypeOK
<1>3. /\ \A p \in Pools : sWork'[p] >= sWork[p] /\ gWork'[p] \in {gWork[p], sWork[p]}
      /\ \A n \in Miners, p \in Pools : mJob'[n][p] \in {mJob[n][p], gWork[p], gWork'[p]}
  <2>1. CASE EndRefill(m)
    BY <1>1, <1>2, <2>1 DEF EndRefill
  <2>2. CASE TakeWork(m)
    BY <1>1, <1>2, <2>2 DEF TakeWork, boardVars
  <2>3. CASE UNCHANGED <<gWork, mJob>>
    BY <1>1, <1>2, <2>3
  <2>4. EndRefill(m) \/ TakeWork(m) \/ UNCHANGED <<gWork, mJob>>
    BY DEF MinerNext, PickPool, BeginRefill, ClearRestart, ScanInterrupted, ScanOver,
           ScanEnd, Find, Submit, boardVars
  <2> QED
    BY <2>1, <2>2, <2>3, <2>4
<1>4. ASSUME NEW s \in ShareIds, fate'[s] # "unborn"
      PROVE  \/ fate[s] # "unborn" /\ info'[s] = info[s]
             \/ /\ info'[s] \in [miner : Miners, pool : Pools, job : Jobs]
                /\ \E n \in Miners : info'[s].job = mJob[n][info'[s].pool]
  <2>1. CASE \E k \in 1..2 : Find(m, k)
    <3>1. PICK k \in 1..2 : Find(m, k)
      BY <2>1
    <3> DEFINE new == (MaxShares - Cardinality(Unborn) + 1)
                         ..(MaxShares - Cardinality(Unborn) + 1 + k - 1)
    <3>2. CASE s \in new
      <4>1. info'[s] = [miner |-> m, pool |-> mPool[m], job |-> mJob[m][mPool[m]]]
        BY <3>1, <3>2 DEF Find
      <4> QED
        BY <4>1, <1>2
    <3>3. CASE s \notin new
      BY <3>1, <3>3, <1>4 DEF Find
    <3> QED
      BY <3>2, <3>3
  <2>2. CASE Submit(m)
    <3>1. /\ info' = info /\ pending[m] # <<>>
          /\ fate' = fate \/ fate' = [fate EXCEPT ![Head(pending[m])] = "refused"]
      BY <2>2 DEF Submit
    <3>2. fate[Head(pending[m])] # "unborn"
      BY <3>1, HeadTail DEF TypeOK, BornInv
    <3> QED
      BY <3>1, <3>2, <1>2, <1>4
  <2>3. CASE UNCHANGED <<fate, info>>
    BY <2>3, <1>4
  <2>4. (\E k \in 1..2 : Find(m, k)) \/ Submit(m) \/ UNCHANGED <<fate, info>>
    BY DEF MinerNext, PickPool, TakeWork, BeginRefill, EndRefill, ClearRestart,
           ScanInterrupted, ScanOver, ScanEnd, shareVars
  <2> QED
    BY <2>1, <2>2, <2>3, <2>4
<1> QED
  BY <1>3, <1>4 DEF JobStep

LEMMA WorkioJobStep ==
    ASSUME TypeOK, BornInv, WorkioNext
    PROVE  JobStep
<1>1. UNCHANGED <<gWork, sWork, mJob, info>>
  BY DEF WorkioNext, WorkioAt, boardVars, stratumVars, minerVars, shareVars, PopShare,
         PopNull, PopNothing, Discard, Keep, SendOk, SendRetry, SendGiveUp, ReadWeight,
         StoreWeight, Decide, Commit
<1>2. fate' = fate \/ (wPc \in {"check", "send"}
                       /\ \E f \in Fates : fate' = [fate EXCEPT ![hand] = f])
  BY DEF WorkioNext, WorkioAt, shareVars, PopShare, PopNull, PopNothing, Discard, Keep,
         SendOk, SendRetry, SendGiveUp, ReadWeight, StoreWeight, Decide, Commit, Fates
<1>3. fate \in [ShareIds -> Fates] /\ \A p \in Pools : sWork[p] \in Int
  BY JobsAreInts DEF TypeOK
<1>4. \A s \in ShareIds : fate'[s] # "unborn" => fate[s] # "unborn"
  BY <1>2, <1>3 DEF BornInv
<1> QED
  BY <1>1, <1>3, <1>4 DEF JobStep

LEMMA StratumJobStep ==
    ASSUME TypeOK, NEW p \in Pools, StratumNext(p)
    PROVE  JobStep
<1>1. UNCHANGED <<mJob, info, fate>>
  BY StratumLeaves DEF minerVars, shareVars
<1>2. /\ gWork \in [Pools -> Jobs] /\ sWork \in [Pools -> Jobs]
      /\ \A q \in Pools : sWork[q] \in Int
  BY JobsAreInts DEF TypeOK
<1>3. gWork' = gWork \/ gWork' = [gWork EXCEPT ![p] = sWork[p]]
  BY DEF StratumNext, boardVars, ReadDev, ResetBoard, Connect, JobBeforeLogin, Login,
         ConnectFails, Backoff, CheckBoard, LockBoard, Publish, RestartMiners, Receive,
         ConnectionLost, DisableDonation, Quit, Leave
<1>4. sWork' = sWork \/ \E j \in {sWork[p], sWork[p] + 1} : sWork' = [sWork EXCEPT ![p] = j]
  BY DEF StratumNext, NextWork, ReadDev, ResetBoard, Connect, JobBeforeLogin, Login,
         ConnectFails, Backoff, CheckBoard, LockBoard, Publish, RestartMiners, Receive,
         ConnectionLost, DisableDonation, Quit, Leave
<1>5. \A q \in Pools : sWork'[q] >= sWork[q]
  BY <1>2, <1>4
<1>6. \A q \in Pools : gWork'[q] \in {gWork[q], sWork[q]}
  BY <1>2, <1>3
<1> QED
  BY <1>1, <1>5, <1>6 DEF JobStep

LEMMA EveryStep ==
    ASSUME TypeOK, BornInv, [Next]_vars
    PROVE  BornInv' /\ JobStep
<1> USE DEF boardVars, stratumVars, minerVars, queueVars, workioVars, shareVars
<1>1. CASE UNCHANGED <<pending, queue, wPc, hand, fate, gWork, sWork, mJob, info>>
  <2>1. BornInv'
    BY <1>1 DEF BornInv
  <2>2. \A p \in Pools : sWork[p] \in Int
    BY JobsAreInts DEF TypeOK
  <2> QED
    BY <1>1, <2>1, <2>2 DEF JobStep
<1>2. CASE UNCHANGED vars \/ ProcessExit
  BY <1>1, <1>2 DEF vars, ProcessExit
<1> QED
  BY <1>2, MinerKeepsBorn, MinerJobStep, WorkioKeepsBorn, WorkioJobStep,
     StratumKeepsBorn, StratumJobStep DEF Next, Terminated

LEMMA JobsInOrder == Spec => [](TypeOK /\ BornInv /\ JobInv)
<1>1. Init => BornInv /\ JobInv
  <2> SUFFICES ASSUME Init PROVE BornInv /\ JobInv
    OBVIOUS
  <2>1. BornInv
    BY DEF Init, BornInv
  <2>2. JobInv
    BY DEF Init, JobInv
  <2> QED
    BY <2>1, <2>2
<1>2. TypeOK /\ TypeOK' /\ BornInv /\ JobInv /\ [Next]_vars => BornInv' /\ JobInv'
  BY EveryStep, JobStepKeepsJobInv
<1> QED
  BY <1>1, <1>2, TypeCorrect, PTL DEF Spec

\* The board only moves forward: whichever thread copies to it, the job copied is
\* at least as new as the job it replaces.
THEOREM BoardMovesForward == Spec => BoardNeverGoesBack
<1>1. TypeOK /\ TypeOK' /\ BornInv /\ JobInv /\ [Next]_vars
      => [\A p \in Pools : gWork'[p] >= gWork[p]]_vars
  <2> SUFFICES ASSUME TypeOK, TypeOK', BornInv, JobInv, [Next]_vars
               PROVE  \A p \in Pools : gWork'[p] >= gWork[p]
    OBVIOUS
  <2>1. \A p \in Pools : gWork[p] \in Int /\ sWork[p] \in Int
    BY JobsAreInts DEF TypeOK
  <2> QED
    BY <2>1, EveryStep DEF JobStep, JobInv
<1> QED
  BY <1>1, JobsInOrder, TypeCorrect, PTL DEF Spec, BoardNeverGoesBack

\* The stale check of submit_upstream_work reads the board without its lock, yet
\* a share it throws away is never one built on the newest block received.
THEOREM CurrentShareKept == Spec => NoCurrentShareDiscarded
<1> DEFINE Step == \A s \in ShareIds :
                      fate[s] = "live" /\ fate'[s] = "stale"
                      => PrevHash[info[s].job] # PrevHash[sWork[info[s].pool]]
<1>1. TypeOK /\ BornInv /\ JobInv /\ [Next]_vars => [Step]_vars
  <2> SUFFICES ASSUME TypeOK, BornInv, JobInv, [Next]_vars,
                      NEW s \in ShareIds, fate[s] = "live", fate'[s] = "stale"
               PROVE  PrevHash[info[s].job] # PrevHash[sWork[info[s].pool]]
    OBVIOUS
  <2>1. fate \in [ShareIds -> Fates]
    BY DEF TypeOK
  <2>2. Discard /\ s = hand
    <3>1. ~UNCHANGED fate
      OBVIOUS
    <3>2. ASSUME NEW m \in Miners PROVE ~MinerNext(m)
      BY <2>1 DEF MinerNext, PickPool, TakeWork, BeginRefill, EndRefill, ClearRestart,
             ScanInterrupted, ScanOver, ScanEnd, Find, Submit, shareVars
    <3>3. ASSUME NEW p \in Pools PROVE ~StratumNext(p)
      BY <3>1, StratumLeaves DEF shareVars
    <3>4. WorkioNext
      BY <3>1, <3>2, <3>3 DEF Next, Terminated, ProcessExit, vars, shareVars
    <3> QED
      BY <3>4, <2>1 DEF WorkioNext, shareVars, PopShare, PopNull, PopNothing, Discard,
         Keep, SendOk, SendRetry, SendGiveUp, ReadWeight, StoreWeight, Decide, Commit
  <2> DEFINE j == info[s].job
             p == info[s].pool
  <2>3. /\ j \in Jobs /\ p \in Pools /\ gWork[p] \in Jobs /\ sWork[p] \in Jobs
        /\ j <= gWork[p] /\ gWork[p] <= sWork[p]
    BY DEF JobInv, TypeOK
  <2>4. /\ PrevHash[j] <= PrevHash[gWork[p]] /\ PrevHash[gWork[p]] <= PrevHash[sWork[p]]
        /\ PrevHash[j] \in Int /\ PrevHash[gWork[p]] \in Int /\ PrevHash[sWork[p]] \in Int
    BY <2>3, MiningAssumption
  <2>5. PrevHash[j] # PrevHash[gWork[p]] \/ PrevHash[j] # PrevHash[sWork[p]]
    BY <2>2 DEF Discard, MayDiffer
  <2> QED
    BY <2>4, <2>5
<1> QED
  BY <1>1, JobsInOrder, PTL DEF Spec, NoCurrentShareDiscarded

-----------------------------------------------------------------------------
(* The board has one writer *)

LockInv ==
    \A p \in Pools : IF boardLocked[p] THEN \E x : BoardWriters(p) = {x}
                                       ELSE BoardWriters(p) = {}

\* The three things a step may do to the lock and the writers of a pool's board.
Enters(p, x) == ~boardLocked[p] /\ boardLocked'[p] /\ BoardWriters(p)' = BoardWriters(p) \cup {x}
Leaves(p, x) == /\ x \in BoardWriters(p) /\ ~boardLocked'[p]
                /\ BoardWriters(p)' = BoardWriters(p) \ {x}
Stays(p) == boardLocked'[p] = boardLocked[p] /\ BoardWriters(p)' = BoardWriters(p)

LEMMA LockStepKeepsLockInv ==
    ASSUME TypeOK, TypeOK', LockInv, NEW p \in Pools,
           Stays(p) \/ \E x : Enters(p, x) \/ Leaves(p, x)
    PROVE  IF boardLocked'[p] THEN \E x : BoardWriters(p)' = {x} ELSE BoardWriters(p)' = {}
<1>1. CASE Stays(p)
  BY <1>1 DEF LockInv, Stays
<1>2. ASSUME NEW x, Enters(p, x)
      PROVE  boardLocked'[p] /\ BoardWriters(p)' = {x}
  BY <1>2 DEF LockInv, Enters
<1>3. ASSUME NEW x, Leaves(p, x)
      PROVE  ~boardLocked'[p] /\ BoardWriters(p)' = {}
  <2>1. PICK y : BoardWriters(p) = {y}
    BY <1>3 DEF LockInv, Leaves
  <2> QED
    BY <1>3, <2>1 DEF Leaves
<1> QED
  BY <1>1, <1>2, <1>3

LEMMA MinerLockStep ==
    ASSUME TypeOK, NEW m \in Miners, MinerNext(m), NEW p \in Pools
    PROVE  Stays(p) \/ \E x : Enters(p, x) \/ Leaves(p, x)
<1>1. UNCHANGED sPc
  BY MinerLeaves DEF stratumVars
<1>2. /\ mPc \in [Miners -> MinerPcs] /\ mPool \in [Miners -> Pools]
      /\ boardLocked \in [Pools -> BOOLEAN]
  BY DEF TypeOK
<1>3. CASE BeginRefill(m)
  <2>1. /\ mPc[m] = "take" /\ mPool' = mPool /\ mPc' = [mPc EXCEPT ![m] = "refill"]
        /\ ~boardLocked[mPool[m]]
        /\ boardLocked' = [boardLocked EXCEPT ![mPool[m]] = TRUE]
    BY <1>3 DEF BeginRefill, MinerAt, MinerGoes
  <2>2. CASE p = mPool[m]
    <3>1. ~boardLocked[p] /\ boardLocked'[p]
      BY <1>2, <2>1, <2>2
    <3>2. \A n \in Miners : mPc'[n] = "refill" <=> mPc[n] = "refill" \/ n = m
      BY <1>2, <2>1
    <3>3. BoardWriters(p)' = BoardWriters(p) \cup {m}
      BY <1>1, <2>1, <2>2, <3>2 DEF BoardWriters
    <3> QED
      BY <3>1, <3>3 DEF Enters
  <2>3. CASE p # mPool[m]
    BY <1>1, <1>2, <2>1, <2>3 DEF Stays, BoardWriters
  <2> QED
    BY <2>2, <2>3
<1>4. CASE EndRefill(m)
  <2>1. /\ mPc[m] = "refill" /\ mPool' = mPool /\ mPc' = [mPc EXCEPT ![m] = "clear"]
        /\ boardLocked' = [boardLocked EXCEPT ![mPool[m]] = FALSE]
    BY <1>4 DEF EndRefill, MinerAt, MinerGoes
  <2>2. CASE p = mPool[m]
    <3>1. m # p
      BY MiningAssumption
    <3> QED
      BY <1>1, <1>2, <2>1, <2>2, <3>1 DEF Leaves, BoardWriters
  <2>3. CASE p # mPool[m]
    BY <1>1, <1>2, <2>1, <2>3 DEF Stays, BoardWriters
  <2> QED
    BY <2>2, <2>3
<1>5. CASE ~BeginRefill(m) /\ ~EndRefill(m)
  <2>1. /\ boardLocked' = boardLocked /\ mPc[m] # "refill" /\ mPc'[m] # "refill"
        /\ \A n \in Miners \ {m} : mPc'[n] = mPc[n] /\ mPool'[n] = mPool[n]
    BY <1>2, <1>5
       DEF MinerNext, MinerAt, MinerGoes, boardVars, PickPool, TakeWork, ClearRestart,
           ScanInterrupted, ScanOver, ScanEnd, Find, Submit, ForgetPool
  <2> QED
    BY <1>1, <2>1 DEF Stays, BoardWriters
<1> QED
  BY <1>3, <1>4, <1>5

LEMMA StratumLockStep ==
    ASSUME TypeOK, NEW q \in Pools, StratumNext(q), NEW p \in Pools
    PROVE  Stays(p) \/ \E x : Enters(p, x) \/ Leaves(p, x)
<1>1. UNCHANGED <<mPc, mPool>>
  BY StratumLeaves DEF minerVars
<1>2. sPc \in [Pools -> StratumPcs] /\ boardLocked \in [Pools -> BOOLEAN]
  BY DEF TypeOK
<1>3. p \notin Miners
  BY MiningAssumption
<1>4. CASE LockBoard(q)
  <2>1. /\ sPc[q] = "lock" /\ sPc' = [sPc EXCEPT ![q] = "publish"]
        /\ ~boardLocked[q] /\ boardLocked' = [boardLocked EXCEPT ![q] = TRUE]
    BY <1>4 DEF LockBoard, StratumAt, Goto
  <2>2. CASE p = q
    BY <1>1, <1>2, <2>1, <2>2 DEF Enters, BoardWriters
  <2>3. CASE p # q
    BY <1>1, <1>2, <2>1, <2>3 DEF Stays, BoardWriters
  <2> QED
    BY <2>2, <2>3
<1>5. CASE Publish(q)
  <2>1. /\ sPc[q] = "publish" /\ sPc' = [sPc EXCEPT ![q] = "restart"]
        /\ boardLocked' = [boardLocked EXCEPT ![q] = FALSE]
    BY <1>5 DEF Publish, StratumAt, Goto
  <2>2. CASE p = q
    BY <1>1, <1>2, <1>3, <2>1, <2>2 DEF Leaves, BoardWriters
  <2>3. CASE p # q
    BY <1>1, <1>2, <2>1, <2>3 DEF Stays, BoardWriters
  <2> QED
    BY <2>2, <2>3
<1>6. CASE ~LockBoard(q) /\ ~Publish(q)
  <2>1. /\ boardLocked' = boardLocked
        /\ \A r \in Pools : sPc'[r] = "publish" <=> sPc[r] = "publish"
    BY <1>2, <1>6
       DEF StratumNext, StratumAt, Goto, boardVars, ReadDev, ResetBoard, Connect,
           JobBeforeLogin, Login, ConnectFails, Backoff, CheckBoard, RestartMiners,
           Receive, ConnectionLost, DisableDonation, Quit, Leave
  <2> QED
    BY <1>1, <2>1 DEF Stays, BoardWriters
<1> QED
  BY <1>4, <1>5, <1>6

\* The miners that refill and the stratum thread that publishes never write a
\* board at the same time, and the lock is held exactly while one of them does.
THEOREM OneWriter == Spec => []OneBoardWriter
<1>1. Init => LockInv
  BY DEF Init, LockInv, BoardWriters, Pools
<1>2. TypeOK /\ TypeOK' /\ LockInv /\ [Next]_vars => LockInv'
  <2> SUFFICES ASSUME TypeOK, TypeOK', LockInv, [Next]_vars, NEW p \in Pools
               PROVE  Stays(p) \/ \E x : Enters(p, x) \/ Leaves(p, x)
    BY LockStepKeepsLockInv DEF LockInv
  <2>1. CASE UNCHANGED <<boardLocked, mPc, mPool, sPc>>
    BY <2>1 DEF Stays, BoardWriters
  <2>2. CASE UNCHANGED vars \/ ProcessExit
    BY <2>1, <2>2 DEF vars, ProcessExit, boardVars, minerVars, stratumVars
  <2>3. CASE WorkioNext
    <3>1. UNCHANGED <<boardVars, stratumVars, minerVars>>
      BY <2>3 DEF WorkioNext, WorkioAt, PopShare, PopNull, PopNothing, Discard, Keep,
         SendOk, SendRetry, SendGiveUp, ReadWeight, StoreWeight, Decide, Commit
    <3> QED
      BY <2>1, <3>1 DEF boardVars, stratumVars, minerVars
  <2> QED
    BY <2>2, <2>3, MinerLockStep, StratumLockStep DEF Next, Terminated
<1>3. LockInv => OneBoardWriter
  BY FS_EmptySet, FS_Singleton DEF LockInv, OneBoardWriter
<1> QED
  BY <1>1, <1>2, <1>3, TypeCorrect, PTL DEF Spec
=============================================================================
