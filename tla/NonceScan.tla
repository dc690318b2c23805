----------------------------- MODULE NonceScan -----------------------------
(***************************************************************************)
(* The nonces one miner thread tries: the range miner_thread gives it, the *)
(* slices of it handed to scanhash_cryptonight, the batches that scans on  *)
(* the GPU, and the way of the hits through the two result slots to        *)
(* submit_work.  Module Mining leaves all of this to chance.  Threads do   *)
(* not touch each other's nonces, so one thread is modelled, whichever.    *)
(*                                                                         *)
(* A nonce has 32 bits in the code; a pool may use the top byte, and the   *)
(* threads share the lower 24.  Here LowMask stands for 0x00ffffff and     *)
(* Width for 2^32.                                                         *)
(***************************************************************************)
EXTENDS Integers, FiniteSets

CONSTANTS
    LowMask,      \* 0x00ffffff: what the threads divide among them
    Width,        \* 2^32
    Gap,          \* 0x20: a range ends that much before the next one begins
    Throughput,   \* nonces of one batch: blocks times threads of the kernel
    Slices,       \* max64: nonces a scan is given, from the last hash rate
    MaxThreads,   \* bound: opt_n_threads
    MaxJobs,      \* bound: jobs of a pool, numbered 1..MaxJobs
    Base,         \* Base[p][j]: the nonce in the blob of job j of pool p
    Winners,      \* Winners[p][j]: the nonces whose hash meets the target
    Faults,       \* bound: false reports of the GPU in one batch, 0 or 1
    None          \* 0xffffffff in a result slot

Pools == {0, 1}
Jobs == 0..MaxJobs        \* 0: the zeroed work of the start
Nonces == 0..(Width - 1)

ASSUME ScanAssumption ==
    /\ {LowMask, Width, Gap, Throughput, MaxThreads} \subseteq Nat \ {0}
    /\ Width % (LowMask + 1) = 0
    /\ Throughput <= LowMask
    /\ LowMask \div MaxThreads > Gap
    /\ Slices \subseteq Nat \ {0}
    /\ MaxJobs \in Nat
    /\ Base \in [Pools -> [Jobs -> Nonces]]
    /\ \A p \in Pools : \A j \in Jobs : Base[p][j] % (LowMask + 1) = 0
    /\ Winners \in [Pools -> [Jobs -> SUBSET Nonces]]
    /\ \A p \in Pools : Winners[p][0] = {}
    /\ Faults \in {0, 1}
    /\ None \notin Nonces

VARIABLES
    threads, id,  \* opt_n_threads and thr_id: chosen at the start
    board,        \* board[p]: the job in g_work2[p]
    pc, dev,      \* control, and the pool mined for
    job, nonce,   \* work2[p]: the job, and its nonce field
    end,          \* end_nonce, one for both pools
    done,         \* hashes_done2[p]
    cur, max,     \* nonce and max_nonce of a running scanhash_cryptonight
    results,      \* its results, first and second or None
    tried,        \* history: nonces tried on the job in hand ...
    twice,        \* ... whether one of them was tried twice ...
    owed          \* ... and winners not submitted yet, but for those in a batch
                  \* with a false or a third report

startVars == <<threads, id>>
workVars == <<job, nonce, end, done>>
scanVars == <<cur, max, results>>
history == <<tried, twice, owed>>
vars == <<startVars, board, pc, dev, workVars, scanVars, history>>

TypeOK ==
    /\ threads \in 1..MaxThreads
    /\ id \in 0..(threads - 1)
    /\ board \in [Pools -> Jobs]
    /\ pc \in {"take", "slice", "scan", "submit"}
    /\ dev \in Pools
    /\ job \in [Pools -> Jobs]
    /\ nonce \in [Pools -> Nonces]
    /\ end \in Nonces
    /\ done \in [Pools -> Nonces]
    /\ cur \in Nonces
    /\ max \in Nonces
    /\ results \in (Nonces \cup {None}) \X (Nonces \cup {None})
    /\ tried \in [Pools -> SUBSET Nonces]
    /\ twice \in [Pools -> BOOLEAN]
    /\ owed \in [Pools -> SUBSET Nonces]

\* 0x00ffffffU / opt_n_threads
Share == LowMask \div threads

\* Of the job in hand: where the range of this thread begins and ends.
RangeBegin(base) == base + Share * id
RangeEnd(base) == base + Share * (id + 1) - Gap

\* The first lines of miner_thread: zeroed work, a range without a base.
Init ==
    /\ threads \in 1..MaxThreads
    /\ id \in 0..(threads - 1)
    /\ board = [p \in Pools |-> 0]
    /\ pc = "take"
    /\ dev = 0
    /\ job = [p \in Pools |-> 0]
    /\ nonce = [p \in Pools |-> 0]
    /\ end = RangeEnd(0)
    /\ done = [p \in Pools |-> 0]
    /\ cur = 0
    /\ max = 0
    /\ results = <<None, None>>
    /\ tried = [p \in Pools |-> {}]
    /\ twice = [p \in Pools |-> FALSE]
    /\ owed = [p \in Pools |-> {}]

\* A new job on the board of a pool, put there by the stratum thread or by a
\* miner whose range is used up (stratum_gen_work).
Publish(p) ==
    /\ board[p] < MaxJobs
    /\ board' = [board EXCEPT ![p] = @ + 1]
    /\ UNCHANGED <<startVars, pc, dev, workVars, scanVars, history>>

\* Mutation: the job is new, its base is taken for the beginning.
NewWorkAtBase(p) ==
    /\ pc = "take"
    /\ job[p] # board[p]
    /\ dev' = p
    /\ job' = [job EXCEPT ![p] = board[p]]
    /\ end' = RangeEnd(Base[p][board[p]])
    /\ nonce' = [nonce EXCEPT ![p] = Base[p][board[p]]]
    /\ tried' = [tried EXCEPT ![p] = {}]
    /\ twice' = [twice EXCEPT ![p] = FALSE]
    /\ owed' = [owed EXCEPT ![p] = {}]
    /\ pc' = "slice"
    /\ UNCHANGED <<startVars, board, done, scanVars>>

\* Other work is copied from the board, the nonce of its blob with it ...
NewWork(p) ==
    /\ pc = "take"
    /\ job[p] # board[p]
    /\ dev' = p
    /\ job' = [job EXCEPT ![p] = board[p]]
    /\ end' = RangeEnd(Base[p][board[p]])
    /\ nonce' = [nonce EXCEPT ![p] = RangeBegin(Base[p][board[p]])]
    /\ tried' = [tried EXCEPT ![p] = {}]
    /\ twice' = [twice EXCEPT ![p] = FALSE]
    /\ owed' = [owed EXCEPT ![p] = {}]
    /\ pc' = "slice"
    /\ UNCHANGED <<startVars, board, done, scanVars>>

\* Mutation: the progress is added without the wrap of 32 bits.
KeepWorkWide(p) ==
    /\ pc = "take"
    /\ job[p] = board[p]
    /\ dev' = p
    /\ nonce' = [nonce EXCEPT ![p] = @ + done[p]]
    /\ pc' = "slice"
    /\ UNCHANGED <<startVars, board, job, end, done, scanVars, history>>

\* ... or the work in hand is scanned on: *nonceptr2[dev] += hashes_done2[dev].
KeepWork(p) ==
    /\ pc = "take"
    /\ job[p] = board[p]
    /\ dev' = p
    /\ nonce' = [nonce EXCEPT ![p] = (@ + done[p]) % Width]
    /\ pc' = "slice"
    /\ UNCHANGED <<startVars, board, job, end, done, scanVars, history>>

\* max_nonce, hashes_done2[dev] = 0, and the call of scanhash_cryptonight.
BeginScan(size) ==
    /\ pc = "slice"
    /\ cur' = nonce[dev]
    /\ max' = IF nonce[dev] + size > end THEN end ELSE nonce[dev] + size
    /\ done' = [done EXCEPT ![dev] = 0]
    /\ pc' = "scan"
    /\ UNCHANGED <<startVars, board, dev, job, nonce, end, results, history>>

Batch == {(cur + i) % Width : i \in 0..(Throughput - 1)}
Wins(p) == Winners[p][job[p]]

\* What the GPU reports of a batch: the winners, and at times a false one.
Reports == {(Wins(dev) \cap Batch) \cup wrong :
              wrong \in {w \in SUBSET Batch : Cardinality(w) <= Faults}}

\* Two slots filled with atomicExch by the kernel's threads in any order: the
\* last one comes to lie in the first slot, any other in the second.
Slots(found) ==
    IF found = {} THEN {<<None, None>>}
    ELSE IF Cardinality(found) = 1 THEN {<<x, None>> : x \in found}
    ELSE {s \in found \X found : s[1] # s[2]}

\* The check on the CPU, cryptonight_hash and fulltest.
Validates(x) == x \in Wins(dev)

\* The kernels have run on the batch and left these reports.
BatchRuns(found) ==
    /\ pc = "scan"
    /\ tried' = [tried EXCEPT ![dev] = @ \cup Batch]
    /\ twice' = [twice EXCEPT ![dev] = @ \/ Batch \cap tried[dev] # {}]
    /\ owed' = IF Cardinality(found) > 2 \/ \E x \in found : ~Validates(x) THEN owed
               ELSE [owed EXCEPT ![dev] = @ \cup (Batch \cap Wins(dev))]
    /\ UNCHANGED <<startVars, board, dev, job, nonce, end>>

\* Mutation: *hashes_done is not written.
ReturnsSilently(hashes) ==
    /\ cur' = 0
    /\ max' = 0
    /\ UNCHANGED done

\* The locals of scanhash_cryptonight go, hashes is *hashes_done.
ScanReturns(hashes) ==
    /\ cur' = 0
    /\ max' = 0
    /\ done' = [done EXCEPT ![dev] = hashes % Width]

\* Mutation: the batch with the hit does not count.
HitsAgain(slots) ==
    /\ slots[1] # None
    /\ Validates(slots[1])
    /\ results' = slots
    /\ ScanReturns(cur - nonce[dev])
    /\ pc' = "submit"

\* Mutation: a second result is returned only if it lies behind the first.
HitsInOrder(slots) ==
    /\ slots[1] # None
    /\ Validates(slots[1])
    /\ results' = IF slots[2] # None /\ Validates(slots[2]) /\ slots[2] > slots[1]
                  THEN slots ELSE <<slots[1], None>>
    /\ ScanReturns(cur - nonce[dev] + Throughput)
    /\ pc' = "submit"

\* The first slot validates: it is returned, with the second if that does too.
Hits(slots) ==
    /\ slots[1] # None
    /\ Validates(slots[1])
    /\ results' = IF slots[2] # None /\ Validates(slots[2])
                  THEN slots ELSE <<slots[1], None>>
    /\ ScanReturns(cur - nonce[dev] + Throughput)
    /\ pc' = "submit"

\* Mutation: the end of the lower bits is met before the batch that crosses it.
NextNonceEarly ==
    IF cur % (LowMask + 1) > LowMask - 3 * Throughput THEN max
    ELSE (cur + Throughput) % Width

\* After the batch that crosses the end of the lower bits a scan ends at once.
NextNonce ==
    IF cur % (LowMask + 1) > LowMask - Throughput THEN max
    ELSE (cur + Throughput) % Width

\* No report, or one that does not validate: on with the next batch until
\* max_nonce is reached or the miner was told to restart.
Misses(slots, told) ==
    /\ slots[1] = None \/ ~Validates(slots[1])
    /\ IF NextNonce < max /\ ~told
       THEN cur' = NextNonce /\ UNCHANGED <<pc, max, done>>
       ELSE ScanReturns(NextNonce - nonce[dev]) /\ pc' = "take"
    /\ UNCHANGED results

RunBatch ==
    \E found \in Reports :
        /\ BatchRuns(found)
        /\ \E slots \in Slots(found) :
              \/ Hits(slots)
              \/ \E told \in BOOLEAN : Misses(slots, told)

\* submit_work for each result, with it in the nonce field, which afterwards
\* is what it was.
Submit ==
    /\ pc = "submit"
    /\ owed' = [owed EXCEPT ![dev] = @ \ {results[1], results[2]}]
    /\ results' = <<None, None>>
    /\ pc' = "take"
    /\ UNCHANGED <<startVars, board, dev, workVars, cur, max, tried, twice>>

TakeWork(p) == KeepWork(p) \/ NewWork(p)
ScanStep == (\E size \in Slices : BeginScan(size)) \/ RunBatch \/ Submit

Next == (\E p \in Pools : Publish(p) \/ TakeWork(p)) \/ ScanStep

Spec == Init /\ [][Next]_vars

\* The thread runs, and both pools are mined for again and again.
FairSpec == Spec /\ WF_vars(ScanStep) /\ \A p \in Pools : SF_vars(TakeWork(p))

-----------------------------------------------------------------------------
Own(p) == RangeBegin(Base[p][job[p]])..(RangeEnd(Base[p][job[p]]) - 1)
UsedUp(p) == Own(p) \subseteq tried[p]
AtWork == {p \in Pools : job[p] # 0}

\* The nonce the next batch on pool p begins with.
Position(p) ==
    IF dev = p /\ pc = "scan" THEN cur
    ELSE IF dev = p /\ pc = "slice" THEN nonce[p]
    ELSE (nonce[p] + done[p]) % Width

\* A thread leaves no nonce of its range out: hits, restarts, short slices and
\* switches between the pools, which share end_nonce, notwithstanding.
NoGap ==
    \A p \in AtWork : \A n \in Own(p) : n < Position(p) => n \in tried[p]

\* No nonce of a job is tried twice, hence no share found twice, before the
\* range is used up.
NoEarlyRepeat == \A p \in AtWork : twice[p] => UsedUp(p)

\* Nor is a nonce outside of the range tried before, so that two threads on
\* one job do the same work only after one of them is through with its own.
OwnRangeFirst == \A p \in AtWork : tried[p] \subseteq Own(p) \/ UsedUp(p)

\* Every winner that was tried is submitted, unless its batch had a third or a
\* false report.
HitsSubmitted ==
    \A p \in Pools : owed[p] # {} => /\ pc = "submit" /\ dev = p
                                    /\ owed[p] \subseteq {results[1], results[2]}

\* While jobs do not change the thread comes to the end of its range, however
\* often it is told to restart and however short its slices are: a scan is at
\* least one batch, and a batch with a hit counts.
RangeUsedUp ==
    \A p \in Pools :
        []<>(board[p] # 0 => job[p] = board[p] /\ UsedUp(p))
=============================================================================
