------------------------------- MODULE Mining -------------------------------
(***************************************************************************)
(* The running miner of xmrMiner.c in stratum mode: the miner threads, the *)
(* workio thread with its command queue, and the two stratum threads, one  *)
(* for the user's pool and one for the developer's, around the state they  *)
(* share: the work board (g_work2), the restart flags (work_restart), the  *)
(* share counters and mine_for_dev.                                        *)
(*                                                                         *)
(* A lock that the code holds from the first to the last access of an      *)
(* action is implicit in that action's atomicity.  Two locks are held      *)
(* across steps because unlocked readers see what happens inside:          *)
(* g_work_lock2 while a job is copied to the board (boardLocked), and      *)
(* dev_lock while a share decides which pool is mined next (devLocked).    *)
(***************************************************************************)
EXTENDS Integers, Sequences, FiniteSets

CONSTANTS
    Miners,       \* the GPU threads
    DevPool,      \* whether the dev pool's stratum thread is started
    MaxJobs,      \* bound: jobs a pool sends, numbered 1..MaxJobs in order
    MaxShares,    \* bound: shares found, numbered 1..MaxShares in order
    Blob,         \* Blob[j]: the block template of job j, nonce left out
    PrevHash,     \* PrevHash[j]: the 32 bytes of it that date a share
    PoolDiff,     \* PoolDiff[p][j]: difficulty of job j of pool p
    Donate,       \* option -z, in percent
    Retries,      \* option -r, -1 for ever
    DebugDev,     \* option -Z
    Spurious,     \* whether pthread_cond_wait may wake up unsignalled
    NULL          \* the NULL command that ends the workio thread

User == 0
Dev == 1
Pools == {User, Dev}
Jobs == 0..MaxJobs        \* 0: the zeroed work of the start, never a pool's
ShareIds == 1..MaxShares

ASSUME MiningAssumption ==
    /\ IsFiniteSet(Miners)
    /\ Miners \cap Pools = {}
    /\ DevPool \in BOOLEAN
    /\ MaxJobs \in Nat
    /\ MaxShares \in Nat
    /\ Blob \in [Jobs -> Nat]
    /\ \A j \in Jobs : Blob[j] = Blob[0] => j = 0
    /\ PrevHash \in [Jobs -> Nat]
    /\ \A i, j \in Jobs : Blob[i] = Blob[j] => PrevHash[i] = PrevHash[j]
    /\ \A i, j \in Jobs : i <= j => PrevHash[i] <= PrevHash[j]
    /\ PoolDiff \in [Pools -> [Jobs -> Nat]]
    /\ \A p \in Pools : PoolDiff[p][0] = 0
    /\ Donate \in 0..100
    /\ Retries \in Nat \cup {-1}
    /\ DebugDev \in BOOLEAN
    /\ Spurious \in BOOLEAN
    /\ NULL \notin ShareIds

VARIABLES
    alive,        \* the process runs
    mineForDev,   \* mine_for_dev: the pool to mine for
    devLocked,    \* dev_lock is held by the workio thread
    shareCount,   \* share_count
    countDev,     \* count_dev
    donate,       \* donate, in percent
    weighted,     \* weightedDonate, a fraction <<numerator, denominator>>
    gWork,        \* g_work2[p]: the job on the board of pool p
    gFresh,       \* g_work_time2[p] # 0
    boardLocked,  \* g_work_lock2[p] is held and g_work2[p] is being written
    sWork,        \* stratumStorage[p].work: the last job received
    conn,         \* stratumStorage[p]: no session, logging in, or in session
    thrUp,        \* stratum_thr_id2[p] # -1
    sPc, sDev, sFail,      \* a stratum thread: control, its dev, its failures
    mPc, mPool, mJob,      \* a miner: control, its dev, its work2[2]
    restart,      \* work_restart[m].restart
    pending,      \* shares a miner has found and not yet submitted
    queue,        \* the workio thread's command queue ...
    frozen,       \* ... and whether it is closed
    wPc, hand, wFail,      \* workio: control, share in hand, its failures
    wWeight, wNext,        \* workio: computed and not yet stored; reset after it
    info,         \* info[s]: miner, pool and job of share s
    fate          \* fate[s]: what became of share s

switchVars == <<mineForDev, donate, weighted>>
countVars == <<devLocked, shareCount, countDev>>
donationVars == <<switchVars, countVars>>
boardVars == <<gWork, gFresh, boardLocked>>
stratumVars == <<sWork, conn, thrUp, sPc, sDev, sFail>>
minerVars == <<mPc, mPool, mJob, pending>>
queueVars == <<queue, frozen>>
workioVars == <<wPc, hand, wFail, wWeight, wNext>>
shareVars == <<info, fate>>
vars == <<alive, donationVars, boardVars, stratumVars, minerVars, restart,
          queueVars, workioVars, shareVars>>

Fates == {"unborn", "live", "sent", "stale", "refused", "givenUp"}
MinerPcs == {"pick", "take", "refill", "clear", "scan", "submit"}
WorkioPcs == {"pop", "check", "send", "weigh", "store", "decide", "commit", "exit"}
StratumPcs == {"outer", "reset", "connect", "login", "backoff", "check",
               "lock", "publish", "restart", "recv", "disable1", "disable2",
               "disable3", "quit", "out", "gone"}

TypeOK ==
    /\ alive \in BOOLEAN
    /\ mineForDev \in Pools
    /\ devLocked \in BOOLEAN
    /\ shareCount \in Nat
    /\ countDev \in Nat
    /\ donate \in 0..100
    /\ weighted \in Nat \X Nat
    /\ gWork \in [Pools -> Jobs]
    /\ gFresh \in [Pools -> BOOLEAN]
    /\ boardLocked \in [Pools -> BOOLEAN]
    /\ sWork \in [Pools -> Jobs]
    /\ conn \in [Pools -> {"down", "login", "up"}]
    /\ thrUp \in [Pools -> BOOLEAN]
    /\ sPc \in [Pools -> StratumPcs]
    /\ sDev \in [Pools -> Pools]
    /\ sFail \in [Pools -> Nat]
    /\ mPc \in [Miners -> MinerPcs]
    /\ mPool \in [Miners -> Pools]
    /\ mJob \in [Miners -> [Pools -> Jobs]]
    /\ restart \in [Miners -> BOOLEAN]
    /\ pending \in [Miners -> Seq(ShareIds)]
    /\ queue \in Seq(ShareIds \cup {NULL})
    /\ frozen \in BOOLEAN
    /\ wPc \in WorkioPcs
    /\ hand \in ShareIds \cup {NULL}
    /\ wFail \in Nat
    /\ wWeight \in Nat \X Nat
    /\ wNext \in Pools
    /\ info \in [ShareIds -> [miner : Miners, pool : Pools, job : Jobs] \cup {NULL}]
    /\ fate \in [ShareIds -> Fates]

\* main: locks, zeroed work boards, threads created, their queues filled.
Init ==
    /\ alive = TRUE
    /\ mineForDev = User
    /\ devLocked = FALSE
    /\ shareCount = 0
    /\ countDev = 0
    /\ donate = Donate
    /\ weighted = <<Donate, 100>>
    /\ gWork = [p \in Pools |-> 0]
    /\ gFresh = [p \in Pools |-> TRUE]
    /\ boardLocked = [p \in Pools |-> FALSE]
    /\ sWork = [p \in Pools |-> 0]
    /\ conn = [p \in Pools |-> "down"]
    /\ thrUp = [p \in Pools |-> p = User \/ DevPool]
    /\ sPc = [p \in Pools |-> IF p = User \/ DevPool THEN "outer" ELSE "gone"]
    /\ sDev = [p \in Pools |-> User]
    /\ sFail = [p \in Pools |-> 0]
    /\ mPc = [m \in Miners |-> "pick"]
    /\ mPool = [m \in Miners |-> User]
    /\ mJob = [m \in Miners |-> [p \in Pools |-> 0]]
    /\ restart = [m \in Miners |-> FALSE]
    /\ pending = [m \in Miners |-> <<>>]
    /\ queue = <<>>
    /\ frozen = FALSE
    /\ wPc = "pop"
    /\ hand = NULL
    /\ wFail = 0
    /\ wWeight = <<0, 100>>
    /\ wNext = User
    /\ info = [s \in ShareIds |-> NULL]
    /\ fate = [s \in ShareIds |-> "unborn"]

\* restart_threads
RestartThreads == restart' = [m \in Miners |-> TRUE]

\* pool_difficulty[p], set by the first job and by every retarget.
Difficulty(p) == PoolDiff[p][sWork[p]]

\* Mutation: list_add instead of list_add_tail.
PushFront(c) == queue' = IF frozen THEN queue ELSE <<c>> \o queue

\* tq_push on the workio queue: refused without effect once frozen.
PushCommand(c) == queue' = IF frozen THEN queue ELSE Append(queue, c)

\* Mutation: the failures are counted down.
CountDown(failures) == IF Retries >= 0 THEN failures - 1 ELSE failures

\* failures, counted only when the number of retries is limited ...
Count(failures) == IF Retries >= 0 THEN failures + 1 ELSE failures
\* ... and exhausted when it exceeds the limit.
Exhausted(failures) == Retries >= 0 /\ failures + 1 > Retries

-----------------------------------------------------------------------------
(* miner_thread *)

\* Miner m is at a label; none of its steps touches what is listed.
MinerAt(m, label) ==
    /\ mPc[m] = label
    /\ UNCHANGED <<alive, donationVars, stratumVars, workioVars>>

MinerGoes(m, label) == mPc' = [mPc EXCEPT ![m] = label]

\* Mutation: the pool is chosen once and for all.
PickSamePool(m) ==
    /\ MinerAt(m, "pick")
    /\ ~devLocked
    /\ MinerGoes(m, "take")
    /\ UNCHANGED <<boardVars, mPool, mJob, pending, restart, queueVars, shareVars>>

\* dev = mine_for_dev under dev_lock.
PickPool(m) ==
    /\ MinerAt(m, "pick")
    /\ ~devLocked
    /\ mPool' = [mPool EXCEPT ![m] = mineForDev]
    /\ MinerGoes(m, "take")
    /\ UNCHANGED <<boardVars, mJob, pending, restart, queueVars, shareVars>>

SameBlob(m) == Blob[mJob[m][mPool[m]]] = Blob[gWork[mPool[m]]]

\* Mutation: the board is looked at only when the range in hand is used up.
KeepWork(m) ==
    /\ MinerAt(m, "take")
    /\ ~boardLocked[mPool[m]]
    /\ mJob[m][mPool[m]] # 0
    /\ MinerGoes(m, "clear")
    /\ UNCHANGED <<boardVars, mPool, mJob, pending, restart, queueVars, shareVars>>

\* Under g_work_lock2: the board holds other work, which is copied, or the
\* work in hand, which is scanned on.
TakeWork(m) ==
    /\ MinerAt(m, "take")
    /\ ~boardLocked[mPool[m]]
    /\ mJob' = IF SameBlob(m) THEN mJob
               ELSE [mJob EXCEPT ![m][mPool[m]] = gWork[mPool[m]]]
    /\ MinerGoes(m, "clear")
    /\ UNCHANGED <<boardVars, mPool, pending, restart, queueVars, shareVars>>

\* Mutation: the refill does not wait for g_work_lock2.
RefillUnlocked(m) ==
    /\ MinerAt(m, "take")
    /\ SameBlob(m)
    /\ boardLocked' = [boardLocked EXCEPT ![mPool[m]] = TRUE]
    /\ MinerGoes(m, "refill")
    /\ UNCHANGED <<gWork, gFresh, mPool, mJob, pending, restart, queueVars,
                   shareVars>>

\* The nonce range of the work in hand is used up and the board has no other
\* work: stratum_gen_work fetches what the stratum thread received last.
BeginRefill(m) ==
    /\ MinerAt(m, "take")
    /\ ~boardLocked[mPool[m]]
    /\ SameBlob(m)
    /\ boardLocked' = [boardLocked EXCEPT ![mPool[m]] = TRUE]
    /\ MinerGoes(m, "refill")
    /\ UNCHANGED <<gWork, gFresh, mPool, mJob, pending, restart, queueVars,
                   shareVars>>

\* The copy is done; the miner takes it if it is other work.  Nobody else is
\* told to restart.
EndRefill(m) ==
    LET p == mPool[m] IN
    /\ MinerAt(m, "refill")
    /\ gWork' = [gWork EXCEPT ![p] = sWork[p]]
    /\ boardLocked' = [boardLocked EXCEPT ![p] = FALSE]
    /\ mJob' = IF Blob[mJob[m][p]] = Blob[sWork[p]] THEN mJob
               ELSE [mJob EXCEPT ![m][p] = sWork[p]]
    /\ MinerGoes(m, "clear")
    /\ UNCHANGED <<gFresh, mPool, pending, restart, queueVars, shareVars>>

\* work_restart[thr_id].restart = 0, after g_work_lock2 was released.
ClearRestart(m) ==
    /\ MinerAt(m, "clear")
    /\ restart' = [restart EXCEPT ![m] = FALSE]
    /\ MinerGoes(m, "scan")
    /\ UNCHANGED <<boardVars, mPool, mJob, pending, queueVars, shareVars>>

\* dev is gone with the round of the loop; what was found on it is in info.
ForgetPool(m) == mPool' = [mPool EXCEPT ![m] = User]

\* scanhash_cryptonight returns without a hit.
ScanEnd(m) ==
    /\ MinerAt(m, "scan")
    /\ ForgetPool(m)
    /\ MinerGoes(m, "pick")
    /\ UNCHANGED <<boardVars, mJob, pending, restart, queueVars, shareVars>>

\* Mutation: the scan loop does not look at the restart flag.
NeverInterrupted(m) == FALSE /\ ScanEnd(m)

\* ... because the restart flag is set, ...
ScanInterrupted(m) == restart[m] /\ ScanEnd(m)

\* ... or because max_nonce is reached.
ScanOver(m) == ~restart[m] /\ ScanEnd(m)

Unborn == {s \in ShareIds : fate[s] = "unborn"}

\* ... or with k hits of one batch.  The zeroed work of the start has target 0.
Find(m, k) ==
    LET first == MaxShares - Cardinality(Unborn) + 1
        new == first..(first + k - 1)
    IN  /\ MinerAt(m, "scan")
        /\ mJob[m][mPool[m]] # 0
        /\ new \subseteq ShareIds
        /\ info' = [s \in ShareIds |->
                       IF s \in new
                       THEN [miner |-> m, pool |-> mPool[m], job |-> mJob[m][mPool[m]]]
                       ELSE info[s]]
        /\ fate' = [s \in ShareIds |-> IF s \in new THEN "live" ELSE fate[s]]
        /\ pending' = [pending EXCEPT ![m] = [i \in 1..k |-> first + i - 1]]
        /\ ForgetPool(m)
        /\ MinerGoes(m, "submit")
        /\ UNCHANGED <<boardVars, mJob, restart, queueVars>>

\* Mutation: every submission carries the nonce of the last result.
SubmitLast(m) ==
    /\ MinerAt(m, "submit")
    /\ pending[m] # <<>>
    /\ PushCommand(pending[m][Len(pending[m])])
    /\ fate' = IF frozen THEN [fate EXCEPT ![Head(pending[m])] = "refused"] ELSE fate
    /\ pending' = [pending EXCEPT ![m] = Tail(@)]
    /\ mPc' = IF Len(pending[m]) = 1 THEN [mPc EXCEPT ![m] = "pick"] ELSE mPc
    /\ UNCHANGED <<boardVars, mPool, mJob, restart, frozen, info>>

\* submit_work, once per result; its answer is ignored.
Submit(m) ==
    LET s == Head(pending[m]) IN
    /\ MinerAt(m, "submit")
    /\ pending[m] # <<>>
    /\ PushCommand(s)
    /\ fate' = IF frozen THEN [fate EXCEPT ![s] = "refused"] ELSE fate
    /\ pending' = [pending EXCEPT ![m] = Tail(@)]
    /\ mPc' = IF Len(pending[m]) = 1 THEN [mPc EXCEPT ![m] = "pick"] ELSE mPc
    /\ UNCHANGED <<boardVars, mPool, mJob, restart, frozen, info>>

MinerNext(m) ==
    \/ PickPool(m) \/ TakeWork(m) \/ BeginRefill(m) \/ EndRefill(m)
    \/ ClearRestart(m) \/ ScanInterrupted(m) \/ ScanOver(m)
    \/ \E k \in 1..2 : Find(m, k)
    \/ Submit(m)

-----------------------------------------------------------------------------
(* workio_thread *)

\* The workio thread is at a label; none of its steps touches what is listed.
WorkioAt(label) ==
    /\ wPc = label
    /\ UNCHANGED <<alive, boardVars, stratumVars, minerVars>>

\* tq_freeze on leaving the loop.
StopWorkio == /\ frozen' = TRUE
              /\ wPc' = "exit"

\* tq_pop returns a share ...
PopShare ==
    /\ WorkioAt("pop")
    /\ queue # <<>>
    /\ Head(queue) # NULL
    /\ hand' = Head(queue)
    /\ queue' = Tail(queue)
    /\ wFail' = 0
    /\ wPc' = "check"
    /\ UNCHANGED <<donationVars, restart, frozen, wWeight, wNext, shareVars>>

\* ... or the NULL that was pushed ...
PopNull ==
    /\ WorkioAt("pop")
    /\ queue # <<>>
    /\ Head(queue) = NULL
    /\ queue' = Tail(queue)
    /\ StopWorkio
    /\ UNCHANGED <<donationVars, restart, hand, wFail, wWeight, wNext, shareVars>>

\* ... or NULL because its single wait ended with the queue still empty.
PopNothing ==
    /\ Spurious
    /\ WorkioAt("pop")
    /\ queue = <<>>
    /\ StopWorkio
    /\ UNCHANGED <<donationVars, restart, queue, hand, wFail, wWeight, wNext,
                   shareVars>>

\* Mutation: the whole block template is compared.
MayDifferInTemplate(s) ==
    LET p == info[s].pool
        differs(j) == Blob[info[s].job] # Blob[j]
    IN  {differs(gWork[p])} \cup (IF boardLocked[p] THEN {differs(sWork[p])} ELSE {})

\* What the unlocked memcmp with g_work2[pool] may answer: while the board is
\* being written the bytes read may be old, new or a mix of both.
MayDiffer(s) ==
    LET p == info[s].pool
        differs(j) == PrevHash[info[s].job] # PrevHash[j]
    IN  {differs(gWork[p])} \cup (IF boardLocked[p] THEN {differs(sWork[p])} ELSE {})

\* submit_upstream_work, first lines: a stale share is dropped and reported as
\* handled.
Discard ==
    /\ WorkioAt("check")
    /\ TRUE \in MayDiffer(hand)
    /\ fate' = [fate EXCEPT ![hand] = "stale"]
    /\ hand' = NULL
    /\ wPc' = "pop"
    /\ UNCHANGED <<donationVars, restart, queueVars, wFail, wWeight, wNext, info>>

Keep ==
    /\ WorkioAt("check")
    /\ FALSE \in MayDiffer(hand)
    /\ wPc' = "send"
    /\ UNCHANGED <<donationVars, restart, queueVars, hand, wFail, wWeight, wNext,
                   shareVars>>

\* stratum_send_line: a connected socket is needed, a login is not.
SendOk ==
    /\ WorkioAt("send")
    /\ conn[info[hand].pool] # "down"
    /\ fate' = [fate EXCEPT ![hand] = "sent"]
    /\ wPc' = "weigh"
    /\ UNCHANGED <<donationVars, restart, queueVars, hand, wFail, wWeight, wNext,
                   info>>

\* Mutation: after the pause the next command is fetched.
SendForget ==
    /\ WorkioAt("send")
    /\ ~Exhausted(wFail)
    /\ wFail' = Count(wFail)
    /\ hand' = NULL
    /\ wPc' = "pop"
    /\ UNCHANGED <<donationVars, restart, queueVars, wWeight, wNext, shareVars>>

\* workio_submit_work: pause and start again, ...
SendRetry ==
    /\ WorkioAt("send")
    /\ ~Exhausted(wFail)
    /\ wFail' = Count(wFail)
    /\ wPc' = "check"
    /\ UNCHANGED <<donationVars, restart, queueVars, hand, wWeight, wNext,
                   shareVars>>

\* ... or give up and end the workio thread.
SendGiveUp ==
    /\ WorkioAt("send")
    /\ Exhausted(wFail)
    /\ fate' = [fate EXCEPT ![hand] = "givenUp"]
    /\ hand' = NULL
    /\ StopWorkio
    /\ UNCHANGED <<donationVars, restart, queue, wFail, wWeight, wNext, info>>

\* weightedDonate = donate * (pool_difficulty[0] / pool_difficulty[1]), read
\* without a lock ...
ReadWeight ==
    /\ WorkioAt("weigh")
    /\ IF Difficulty(User) > 0 /\ Difficulty(Dev) > 0
       THEN /\ wWeight' = <<donate * Difficulty(User), 100 * Difficulty(Dev)>>
            /\ wPc' = "store"
       ELSE /\ wPc' = "decide"
            /\ UNCHANGED wWeight
    /\ UNCHANGED <<donationVars, restart, queueVars, hand, wFail, wNext, shareVars>>

\* ... and written without one.
StoreWeight ==
    /\ WorkioAt("store")
    /\ weighted' = wWeight
    /\ wWeight' = <<0, 100>>
    /\ wPc' = "decide"
    /\ UNCHANGED <<mineForDev, devLocked, shareCount, countDev, donate, restart,
                   queueVars, hand, wFail, wNext, shareVars>>

\* dev / all < w, in integers.
Below(dev, all, w) == dev * w[2] < w[1] * all

DonationDue(dev, all) == /\ Below(dev, all, weighted)
                         /\ donate > 0
                         /\ thrUp[Dev]
                         /\ Difficulty(Dev) > 0

\* Mutation: the share is booked on the pool that is being mined.
DecideOnCurrentPool ==
    /\ WorkioAt("decide")
    /\ ~devLocked
    /\ devLocked' = TRUE
    /\ shareCount' = shareCount + 1
    /\ countDev' = IF mineForDev = Dev THEN countDev + 1 ELSE countDev
    /\ wNext' = IF shareCount' <= 1 THEN mineForDev
                ELSE IF DonationDue(countDev', shareCount') THEN Dev ELSE User
    /\ wPc' = "commit"
    /\ UNCHANGED <<mineForDev, donate, weighted, restart, queueVars, hand, wFail,
                   wWeight, shareVars>>

\* Under dev_lock: count the share and decide.
Decide ==
    /\ WorkioAt("decide")
    /\ ~devLocked
    /\ devLocked' = TRUE
    /\ shareCount' = shareCount + 1
    /\ countDev' = IF info[hand].pool = Dev THEN countDev + 1 ELSE countDev
    /\ wNext' = IF shareCount' <= 1 THEN mineForDev
                ELSE IF DonationDue(countDev', shareCount') THEN Dev ELSE User
    /\ wPc' = "commit"
    /\ UNCHANGED <<mineForDev, donate, weighted, restart, queueVars, hand, wFail,
                   wWeight, shareVars>>

\* Still under it: switch, and restart the miners if the pool of THIS share is
\* not the one to mine for.
Commit ==
    /\ WorkioAt("commit")
    /\ mineForDev' = wNext
    /\ IF info[hand].pool # wNext THEN RestartThreads ELSE UNCHANGED restart
    /\ devLocked' = FALSE
    /\ hand' = NULL
    /\ wNext' = User
    /\ wPc' = "pop"
    /\ UNCHANGED <<shareCount, countDev, donate, weighted, queueVars, wFail,
                   wWeight, shareVars>>

WorkioNext ==
    \/ PopShare \/ PopNull \/ PopNothing \/ Discard \/ Keep
    \/ SendOk \/ SendRetry \/ SendGiveUp
    \/ ReadWeight \/ StoreWeight \/ Decide \/ Commit

\* main: pthread_join on the workio thread, then the process ends.
ProcessExit ==
    /\ wPc = "exit"
    /\ alive' = FALSE
    /\ UNCHANGED <<donationVars, boardVars, stratumVars, minerVars, restart,
                   queueVars, workioVars, shareVars>>

-----------------------------------------------------------------------------
(* stratum_thread of pool p *)

\* The thread is at a label; none of its steps touches what is listed.
StratumAt(p, label) ==
    /\ sPc[p] = label
    /\ UNCHANGED <<alive, countVars, minerVars, frozen, workioVars, shareVars>>

Goto(p, label) == sPc' = [sPc EXCEPT ![p] = label]

\* dev is not looked at any more in this round of the loop.
ForgetDev(p) == sDev' = [sDev EXCEPT ![p] = User]

\* Top of the loop: failures = 0, dev = mine_for_dev under dev_lock.
ReadDev(p) ==
    /\ StratumAt(p, "outer")
    /\ ~devLocked
    /\ sDev' = [sDev EXCEPT ![p] = mineForDev]
    /\ sFail' = [sFail EXCEPT ![p] = 0]
    /\ Goto(p, IF conn[p] = "down" THEN "reset" ELSE "check")
    /\ UNCHANGED <<switchVars, boardVars, sWork, conn, thrUp, restart, queue>>

\* Mutation: the board is zeroed together with its time.
ZeroBoard(p) ==
    /\ StratumAt(p, "reset")
    /\ ~boardLocked[p]
    /\ gFresh' = [gFresh EXCEPT ![p] = FALSE]
    /\ gWork' = [gWork EXCEPT ![p] = 0]
    /\ IF sDev[p] = p THEN RestartThreads ELSE UNCHANGED restart
    /\ Goto(p, "connect")
    /\ UNCHANGED <<switchVars, boardLocked, sWork, conn, thrUp, sDev, sFail, queue>>

\* No connection: the board is marked outdated and, if dev says that this pool
\* is being mined, the miners are restarted.
ResetBoard(p) ==
    /\ StratumAt(p, "reset")
    /\ ~boardLocked[p]
    /\ gFresh' = [gFresh EXCEPT ![p] = FALSE]
    /\ IF sDev[p] = p THEN RestartThreads ELSE UNCHANGED restart
    /\ Goto(p, "connect")
    /\ UNCHANGED <<switchVars, gWork, boardLocked, sWork, conn, thrUp, sDev, sFail,
                   queue>>

\* stratum_connect; stratum_subscribe does nothing in JSON-RPC 2.0 mode.
Connect(p) ==
    /\ StratumAt(p, "connect")
    /\ conn' = [conn EXCEPT ![p] = "login"]
    /\ Goto(p, "login")
    /\ UNCHANGED <<switchVars, boardVars, sWork, thrUp, sDev, sFail, restart,
                   queue>>

\* The jobs a line of the pool may leave in stratumStorage[p].work: the one
\* already there (an answer, a repetition, no job at all) or the next.
NextWork(p) == {sWork[p], sWork[p] + 1} \cap Jobs

\* stratumStorage[p].work_lock is held by a miner that copies from it.
WorkLocked(p) == \E m \in Miners : mPc[m] = "refill" /\ mPool[m] = p

\* A line of the pool is handled while the login is awaited: stays there.
JobBeforeLogin(p) ==
    /\ StratumAt(p, "login")
    /\ ~WorkLocked(p)
    /\ sWork' = [sWork EXCEPT ![p] = @ + 1]
    /\ sWork'[p] \in Jobs
    /\ UNCHANGED <<switchVars, boardVars, conn, thrUp, sPc, sDev, sFail, restart,
                   queue>>

\* stratum_authorize succeeds; the reply may carry a job.
Login(p) ==
    /\ StratumAt(p, "login")
    /\ ~WorkLocked(p)
    /\ conn' = [conn EXCEPT ![p] = "up"]
    /\ \E j \in NextWork(p) : sWork' = [sWork EXCEPT ![p] = j]
    /\ Goto(p, "check")
    /\ UNCHANGED <<switchVars, boardVars, thrUp, sDev, sFail, restart, queue>>

\* Either fails: stratum_disconnect, then another attempt or the end of it.
ConnectFails(p) ==
    /\ StratumAt(p, "connect") \/ StratumAt(p, "login")
    /\ conn' = [conn EXCEPT ![p] = "down"]
    /\ sFail' = [sFail EXCEPT ![p] = Count(@)]
    /\ IF Exhausted(sFail[p])
       THEN Goto(p, IF p = Dev THEN "disable1" ELSE "quit") /\ ForgetDev(p)
       ELSE Goto(p, "backoff") /\ UNCHANGED sDev
    /\ UNCHANGED <<switchVars, boardVars, sWork, thrUp, restart, queue>>

\* Mutation: option -Z no longer makes the retry look past its stale dev.
BackoffTrustsDev(p) ==
    /\ StratumAt(p, "backoff")
    /\ IF p = Dev /\ sDev[p] = p
       THEN ~devLocked /\ mineForDev' = User
       ELSE UNCHANGED mineForDev
    /\ Goto(p, "reset")
    /\ UNCHANGED <<donate, weighted, boardVars, sWork, conn, thrUp, sDev, sFail,
                   restart, queue>>

\* Before the pause: an unreachable dev pool is not mined for, if dev says it
\* was when this thread last looked.
Backoff(p) ==
    /\ StratumAt(p, "backoff")
    /\ IF p = Dev /\ (DebugDev \/ sDev[p] = p)
       THEN ~devLocked /\ mineForDev' = User
       ELSE UNCHANGED mineForDev
    /\ Goto(p, "reset")
    /\ UNCHANGED <<donate, weighted, boardVars, sWork, conn, thrUp, sDev, sFail,
                   restart, queue>>

\* Unlocked comparison of the received job with the board.  A miner may be
\* writing the board: what it writes is the received job, so the comparison
\* may already find them equal.
CheckBoard(p) ==
    /\ StratumAt(p, "check")
    /\ \/ /\ ~gFresh[p] \/ sWork[p] # gWork[p]
          /\ Goto(p, "lock") /\ UNCHANGED sDev
       \/ /\ gFresh[p]
          /\ sWork[p] = gWork[p] \/ boardLocked[p]
          /\ Goto(p, "recv") /\ ForgetDev(p)
    /\ UNCHANGED <<switchVars, boardVars, sWork, conn, thrUp, sFail, restart, queue>>

LockBoard(p) ==
    /\ StratumAt(p, "lock")
    /\ ~boardLocked[p]
    /\ boardLocked' = [boardLocked EXCEPT ![p] = TRUE]
    /\ Goto(p, "publish")
    /\ UNCHANGED <<switchVars, gWork, gFresh, sWork, conn, thrUp, sDev, sFail,
                   restart, queue>>

\* stratum_gen_work and time(&g_work_time2[p]).
Publish(p) ==
    /\ StratumAt(p, "publish")
    /\ gWork' = [gWork EXCEPT ![p] = sWork[p]]
    /\ gFresh' = [gFresh EXCEPT ![p] = TRUE]
    /\ boardLocked' = [boardLocked EXCEPT ![p] = FALSE]
    /\ Goto(p, "restart")
    /\ UNCHANGED <<switchVars, sWork, conn, thrUp, sDev, sFail, restart, queue>>

RestartMiners(p) ==
    /\ StratumAt(p, "restart")
    /\ IF sDev[p] = p THEN RestartThreads ELSE UNCHANGED restart
    /\ Goto(p, "recv")
    /\ ForgetDev(p)
    /\ UNCHANGED <<switchVars, boardVars, sWork, conn, thrUp, sFail, queue>>

\* A line arrives and is handled; it may be a job.
Receive(p) ==
    /\ StratumAt(p, "recv")
    /\ ~WorkLocked(p)
    /\ \E j \in NextWork(p) : sWork' = [sWork EXCEPT ![p] = j]
    /\ Goto(p, "outer")
    /\ UNCHANGED <<switchVars, boardVars, conn, thrUp, sDev, sFail, restart, queue>>

\* Time-out or broken connection.
ConnectionLost(p) ==
    /\ StratumAt(p, "recv")
    /\ conn' = [conn EXCEPT ![p] = "down"]
    /\ Goto(p, "outer")
    /\ UNCHANGED <<switchVars, boardVars, sWork, thrUp, sDev, sFail, restart,
                   queue>>

\* Mutation: mine_for_dev is reset before the donation is switched off.
DisableInWrongOrder(p) ==
    /\ \/ /\ StratumAt(p, "disable1") /\ ~devLocked
          /\ mineForDev' = User /\ UNCHANGED <<donate, weighted>>
          /\ Goto(p, "disable2")
       \/ /\ StratumAt(p, "disable2")
          /\ donate' = 0 /\ UNCHANGED <<weighted, mineForDev>>
          /\ Goto(p, "disable3")
       \/ /\ StratumAt(p, "disable3")
          /\ weighted' = <<0, 100>> /\ UNCHANGED <<donate, mineForDev>>
          /\ Goto(p, "out")
    /\ UNCHANGED <<boardVars, sWork, conn, thrUp, sDev, sFail, restart, queue>>

\* disableDonation: two unlocked writes, then one under dev_lock.
DisableDonation(p) ==
    /\ \/ /\ StratumAt(p, "disable1")
          /\ donate' = 0 /\ UNCHANGED <<weighted, mineForDev>>
          /\ Goto(p, "disable2")
       \/ /\ StratumAt(p, "disable2")
          /\ weighted' = <<0, 100>> /\ UNCHANGED <<donate, mineForDev>>
          /\ Goto(p, "disable3")
       \/ /\ StratumAt(p, "disable3") /\ ~devLocked
          /\ mineForDev' = User /\ UNCHANGED <<donate, weighted>>
          /\ Goto(p, "out")
    /\ UNCHANGED <<boardVars, sWork, conn, thrUp, sDev, sFail, restart, queue>>

\* Mutation: the thread leaves without a word.
QuitSilently(p) ==
    /\ StratumAt(p, "quit")
    /\ Goto(p, "out")
    /\ UNCHANGED <<switchVars, boardVars, sWork, conn, thrUp, sDev, sFail, restart,
                   queue>>

\* The user's pool is given up: the workio thread is told to end.
Quit(p) ==
    /\ StratumAt(p, "quit")
    /\ PushCommand(NULL)
    /\ Goto(p, "out")
    /\ UNCHANGED <<switchVars, boardVars, sWork, conn, thrUp, sDev, sFail, restart>>

\* The label out: stratum_thr_id2[p] = -1.
Leave(p) ==
    /\ StratumAt(p, "out")
    /\ thrUp' = [thrUp EXCEPT ![p] = FALSE]
    /\ Goto(p, "gone")
    /\ UNCHANGED <<switchVars, boardVars, sWork, conn, sDev, sFail, restart, queue>>

StratumNext(p) ==
    \/ ReadDev(p) \/ ResetBoard(p) \/ Connect(p) \/ JobBeforeLogin(p) \/ Login(p)
    \/ ConnectFails(p) \/ Backoff(p) \/ CheckBoard(p) \/ LockBoard(p) \/ Publish(p)
    \/ RestartMiners(p) \/ Receive(p) \/ ConnectionLost(p) \/ DisableDonation(p)
    \/ Quit(p) \/ Leave(p)

-----------------------------------------------------------------------------
Terminated == ~alive /\ UNCHANGED vars

Next ==
    \/ /\ alive
       /\ \/ \E m \in Miners : MinerNext(m)
          \/ WorkioNext
          \/ \E p \in Pools : StratumNext(p)
          \/ ProcessExit
    \/ Terminated

Spec == Init /\ [][Next]_vars

-----------------------------------------------------------------------------
(* Fairness.  Every thread is scheduled, and a mutex is granted in the end  *)
(* to whoever keeps asking for it: strong fairness of each thread's own     *)
(* steps.  Nothing forces a hit, a spurious wake-up or an unlucky network;  *)
(* a send on a connection that is up succeeds if it is tried for ever.      *)

SendTo(p) == hand # NULL /\ info[hand].pool = p /\ SendOk

MinerStep(m) ==
    \/ PickPool(m) \/ TakeWork(m) \/ BeginRefill(m) \/ EndRefill(m)
    \/ ClearRestart(m) \/ ScanInterrupted(m) \/ Submit(m)

WorkioStep ==
    \/ PopShare \/ PopNull \/ Discard \/ Keep \/ SendOk \/ SendRetry \/ SendGiveUp
    \/ ReadWeight \/ StoreWeight \/ Decide \/ Commit

WorkioFairness == /\ SF_vars(alive /\ WorkioStep)
                  /\ WF_vars(alive /\ ProcessExit)
StratumFairness == \A p \in Pools : SF_vars(alive /\ StratumNext(p))
MinerFairness == \A m \in Miners : SF_vars(alive /\ MinerStep(m))
NetworkFairness == \A p \in Pools : SF_vars(alive /\ SendTo(p))

\* Each property is checked under the least of it that it needs.
WorkioFairSpec == Spec /\ WorkioFairness
StratumFairSpec == Spec /\ WorkioFairness /\ StratumFairness

\* A scan may go on for ever unless its restart flag is set ...
FairSpec == StratumFairSpec /\ MinerFairness

\* ... or ends by itself: max_nonce is about LP_SCANTIME seconds away.
ScanFairSpec == FairSpec /\ \A m \in Miners : WF_vars(alive /\ ScanOver(m))

\* The whole program on a network that works if it is tried for ever.
FullFairSpec == ScanFairSpec /\ NetworkFairness

-----------------------------------------------------------------------------
(* Safety *)

\* The share the workio thread holds and has not disposed of.
InHand == IF wPc \in {"check", "send"} THEN {hand} ELSE {}

\* No share is lost or doubled between scanhash_cryptonight and the socket:
\* one whose fate is open is in exactly one of a miner's results, the command
\* queue and the workio thread's hand, one whose fate is settled in none.
OnePlacePerShare ==
    \A s \in ShareIds :
        LET places ==
              Cardinality({i \in DOMAIN queue : queue[i] = s})
              + Cardinality({x \in Miners \X {1, 2} :
                               x[2] \in DOMAIN pending[x[1]] /\ pending[x[1]][x[2]] = s})
              + Cardinality({s} \cap InHand)
        IN  places = IF fate[s] = "live" THEN 1 ELSE 0

Sent == {s \in ShareIds : fate[s] = "sent"}
Uncounted == IF wPc \in {"weigh", "store", "decide"} THEN {hand} ELSE {}

\* share_count and count_dev, which decide about the donation, count what was
\* sent, all of it and to the dev pool: discarded and retried shares leave no
\* trace in them.
CountsMatchSent ==
    /\ shareCount = Cardinality(Sent \ Uncounted)
    /\ countDev = Cardinality({s \in Sent \ Uncounted : info[s].pool = Dev})

\* The shares of one miner are disposed of in the order in which it found them,
\* whatever the retries.
HandledInOrder ==
    \A s, t \in ShareIds :
        /\ s < t
        /\ fate[t] \in {"sent", "stale", "givenUp"}
        /\ info[s].miner = info[t].miner
        => fate[s] # "live"

\* Once the dev pool has been given up (disableDonation has run), no share
\* decision that was under way brings it back: mine_for_dev stays 0.
DonationOffIsFinal == sPc[Dev] \in {"out", "gone"} => mineForDev = User

\* g_work2[p] is written by one thread at a time, the one that holds
\* g_work_lock2[p].
BoardWriters(p) ==
    {m \in Miners : mPc[m] = "refill" /\ mPool[m] = p}
    \cup (IF sPc[p] = "publish" THEN {p} ELSE {})

OneBoardWriter ==
    \A p \in Pools : Cardinality(BoardWriters(p)) = IF boardLocked[p] THEN 1 ELSE 0

\* A job on the board is never replaced by one received before it, although
\* miners and the stratum thread both write it.
BoardNeverGoesBack == [][\A p \in Pools : gWork'[p] >= gWork[p]]_vars

\* The unlocked stale check never throws away a share that is built on the
\* newest block the pool has announced, not even when it reads a half-written
\* board.
NoCurrentShareDiscarded ==
    [][\A s \in ShareIds :
          fate[s] = "live" /\ fate'[s] = "stale"
          => PrevHash[info[s].job] # PrevHash[sWork[info[s].pool]]]_vars

\* "wait for workio_cmd sent to us": the workio thread ends only when a NULL
\* was sent or its retries are exhausted.
WorkioEndsOnlyWhenTold ==
    wPc = "exit" => \/ sPc[User] \in {"out", "gone"}
                    \/ \E s \in ShareIds : fate[s] = "givenUp"

-----------------------------------------------------------------------------
(* Liveness *)

Started(p) == p = User \/ DevPool
StaysUp(p) == <>[](conn[p] = "up")

\* Scanning the newest work received for the pool that is to be mined.
Current(m) == /\ mPc[m] = "scan"
              /\ mPool[m] = mineForDev
              /\ Blob[mJob[m][mPool[m]]] = Blob[sWork[mPool[m]]]

\* While its pools stay connected, a miner gets to the newest job of the right
\* pool again and again, lost restarts, refills and switches notwithstanding
\* (the bound on the length of a scan makes up for a restart that is lost).
MinersCatchUp ==
    (\A p \in Pools : Started(p) => StaysUp(p))
    => \A m \in Miners : []<>(Current(m) \/ ~alive)

\* A restart ends even a scan without end, and the miner fetches work anew.
\* (The flag has to be set during the scan: one set between TakeWork and
\* ClearRestart is lost.)
RestartEndsScan ==
    \A m \in Miners : (restart[m] /\ mPc[m] = "scan") ~> (mPc[m] = "take" \/ ~alive)

\* While its pools stay connected, every share found is sent or discarded
\* unless the process ends.
SharesHandled ==
    (\A p \in Pools : Started(p) => StaysUp(p))
    => \A s \in ShareIds : fate[s] = "live" ~> (fate[s] # "live" \/ ~alive)

\* With a limited number of retries the program ends after the user's pool has
\* been given up: the NULL command is reached behind all queued shares.
GivenUpPoolEndsProgram == sPc[User] = "gone" ~> ~alive

\* "Stratum dev pool connection failed, mining without dev donation": a dev pool
\* that stays unreachable does not keep the miners from the user's pool.
UnreachableDevNotMined ==
    <>[](conn[Dev] # "up") => []<>(mineForDev = User \/ ~alive)
=============================================================================
