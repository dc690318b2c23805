# xmrMiner: specifications, model checking and proofs

xmrMiner is a CUDA miner for CryptoNight coins.  A handful of threads share a
board of current work, a command queue and a few counters, and talk to two
stratum pools: the user's, and the developer's, which gets a donation.  This
directory models that concurrent core in TLA+, checks it with TLC and proves
its safety properties with TLAPS.

Paths and line numbers refer to the repository; `xmrMiner.c`, `util.c`,
`cryptonight/cryptonight.cu` are meant unless another file is named.

## 1. Inventory

The process starts in `main`: it fills the option variables, creates locks and
boards, and starts one workio thread, one stratum thread for the user's pool
(array index 0), one for the developer's pool (index 1, if a donation is
configured) and one miner thread per GPU.  Then it joins the workio thread: when
that ends, the process ends.  `jsonrpc_2` is always true (`xmrMiner.c:2109`),
which makes the Bitcoin half of the file dead code.

| Component | State | Operations | Talks to |
|---|---|---|---|
| Thread queue (`tq_*`, util.c, elist.h) | list, frozen flag, mutex, condition | push, pop, timed pop, freeze, thaw | everybody |
| Workio thread | the command in hand, its failures | pop, submit with retries, give up, freeze, end | queue, share submission |
| Share submission and donation | `share_count`, `count_dev`, `donate`, `weightedDonate`, `mine_for_dev`, `dev_lock` | stale check, send, weigh, count, decide, switch, `disableDonation` | boards, stratum sockets, restart flags |
| Miner threads | own copy of the work of each pool, nonce, end of its range, results | choose pool, copy, refill, clear restart flag, scan, submit | boards, queue |
| Nonce scan (`scanhash_cryptonight`) | nonce, batch, found nonces | scan to `max_nonce`, interrupt, return hits | miner thread, GPU |
| Work boards | `g_work2[2]`, `g_work_time2[2]`, `g_work_lock2[2]` | publish, refill, mark outdated | miners, stratum threads, submission |
| Stratum threads | `stratumStorage[2]`, copy of `mine_for_dev`, failures, `stratum_thr_id2` | connect, retry, publish, restart miners, receive, give up | boards, restart flags, queue |
| Stratum client (util.c) | socket, curl handle, receive buffer, session id | connect, login, send line, receive line, handle method | pool |
| Job and login decoding | `work` under `work_lock`, `rpc2_id2`, target, `pool_difficulty` | decode login, decode job | stratum client |
| Share accounting | `accepted_count`, `rejected_count` | share result | pool replies |
| JSON-RPC over HTTP | curl handles, session id, cached blob | login, get work, submit | workio thread |
| Pure helpers | none | hex conversions, `fulltest`, time subtraction, device list | all |

**What is hard here.**  Nothing in the repository tests any of this.  The locks
are many and narrow (`dev_lock`, one `g_work_lock2` and one `work_lock` per
pool, the queue's own), and several values are used after their lock was given
back or were never under one:

- the restart flag is cleared after the work was copied, outside the lock;
- two kinds of threads copy jobs to a board, from a source with a lock of its own;
- the stale check of a share reads the board without its lock;
- a stratum thread keeps a copy of `mine_for_dev` across a reconnect loop that
  may last for ever;
- `disableDonation` races with a donation decision;
- `stratum_send_line` writes to the socket number stored last, whether or not the
  connection is still there, and the workio thread calls it while the stratum
  thread connects, logs in or reads;
- logins and shares all carry `"id": 1`, so an answer is known only by its place;
- two pools share one `end_nonce` per miner and two counters under two locks;
- `tq_pop` waits once and does not loop;
- everything the miner finds goes through one queue whose head may be retried
  for ever.

**What makes each component correct.**

- *Thread queue*: first in first out, closable; nobody sleeps while an entry is
  left for him; every accepted entry is delivered.
- *Submission*: a share is neither lost, doubled nor overtaken; only what was
  sent is counted, on the pool it was sent to; a share on the newest block is
  not discarded; a donation switched off stays off.
- *Boards*: one writer at a time; never back to an older job.
- *Miners and stratum threads*: the newest job of the pool that is to be mined is
  reached again and again, an unreachable dev pool is not mined for, and giving
  up the user's pool ends the program.
- *Scan*: each miner tries its own range of nonces without gaps, once, before
  anything else, and what it finds is submitted.
- *Client*: a login's answer is the login's, a share goes to its own pool with the
  id of its session, lines are neither merged nor lost.
- *Decoding*: blob, target and id that are mined and submitted are of one job,
  whatever cannot be decoded, and the miners get the last one.
- *Accounting*: nothing is counted that was not answered.

`PROJECT.json` lists the hazards at their lines, each with the properties that
cover it, or with a note saying why none does.

## 2. Modules

| Module | Content |
|---|---|
| `FifoQueue` | abstract: a FIFO queue that can be closed |
| `ThreadQueue` | the `tq_*` functions with their mutex and condition variable; implements `FifoQueue` |
| `MCThreadQueue` | TLC instances of it |
| `ThreadQueueProofs` | its proofs |
| `Mining` | the running program in stratum mode: miners, workio thread, both stratum threads |
| `MCMining` | TLC instances: tables of jobs and difficulties, symmetry |
| `MiningProofs` | its proofs: types, donation, boards, stale shares |
| `MiningShareProofs` | its proofs: order, place and count of shares |
| `NonceScan` | the nonces one miner thread tries, for jobs of two pools |
| `MCNonceScan` | the TLC instance: 4 bits of nonce, a top bit, winning nonces |
| `NonceScanProofs` | its proofs |
| `Helpers` | `fulltest`, `timeval_subtract`, `bin2hex`, `hex2bin` as operators |
| `MCHelpers` | bounded inputs for them, evaluated with `MCNonceScan` |
| `HelpersProofs` | what they compute for every input |
| `StratumSession` | sockets, logins, shares and answers of both pools |
| `StratumSessionProofs` | its proofs |
| `StratumLine` | the bytes of one connection: `send_line` and `stratum_recv_line` |
| `StratumLineProofs` | its proofs |
| `JobFeed` | decoding of jobs, what is remembered of them, and their publication |
| `MCJobFeed` | the TLC instance: jobs whose ids come again |
| `JobFeedProofs` | its proofs |
| `HttpWork` | how a miner asks for work over HTTP |

`Mining` is the composition: it has every thread of stratum mode, with each of
their finer parts reduced to what the other parts see of it.  The modules below
it open those parts one at a time, with their surroundings reduced in turn:

| In `Mining` | Opened in |
|---|---|
| the workio queue is a sequence, a pop one step | `ThreadQueue`, `FifoQueue` |
| a scan may end or find something at any time | `NonceScan` |
| a session is a flag, a send succeeds or fails | `StratumSession` |
| (there too, a line is sent or read as a whole) | `StratumLine` |
| every job is good and moves to the board | `JobFeed` |
| both pools use stratum | `HttpWork` |

### ThreadQueue

One action per critical section.  `list` is `tq->q`, `frozen` is `tq->frozen`;
`pc` says whether a consumer is outside `tq_pop`, asleep in the wait, signalled
or timed out.  Because the mutex is handed back inside `pthread_cond_wait` and
the list is looked at once afterwards, a pop is either `PopNow`, or `PopWait`
followed by `PopResume` or `PopExpired`; another consumer may empty the list in
between.  `pthread_cond_signal` wakes one waiter, whichever; `Spurious` lets a
wait end unsignalled, as POSIX allows.  `accepted` and `delivered` are history.

### Mining

`Mining` is one state machine because all its parts meet in the same variables.
It has a section for each thread:

| Section | Code | Actions |
|---|---|---|
| miner | `miner_thread`, `stratum_gen_work`, `scanhash_cryptonight`, `submit_work` | `PickPool`, `TakeWork`, `BeginRefill`, `EndRefill`, `ClearRestart`, `ScanInterrupted`, `ScanOver`, `Find`, `Submit` |
| workio | `workio_thread`, `workio_submit_work`, `submit_upstream_work`, end of `main` | `PopShare`, `PopNull`, `PopNothing`, `Discard`, `Keep`, `SendOk`, `SendRetry`, `SendGiveUp`, `ReadWeight`, `StoreWeight`, `Decide`, `Commit`, `ProcessExit` |
| stratum | `stratum_thread`, `stratum_connect`, `stratum_authorize`, `rpc2_job_decode`, `stratum_handle_method`, `disableDonation` | `ReadDev`, `ResetBoard`, `Connect`, `JobBeforeLogin`, `Login`, `ConnectFails`, `Backoff`, `CheckBoard`, `LockBoard`, `Publish`, `RestartMiners`, `Receive`, `ConnectionLost`, `DisableDonation`, `Quit`, `Leave` |

State and code correspond by name: `mineForDev` is `mine_for_dev`, `gWork[p]` the
job in `g_work2[p]`, `sWork[p]` the job in `stratumStorage[p].work`, `sDev[p]` the
local `dev` of a stratum thread, `mJob[m][p]` a miner's `work2[p]`, `pending[m]`
its `results`, `hand` the command the workio thread works on.  `info` and `fate`
are history: who found a share, on what, and what became of it.

A section under a lock is one action unless someone looks at its data without
the lock.  That happens twice, and there the lock is a variable:
`boardLocked[p]` (`g_work_lock2[p]` while a job is copied; the stale check and
`CheckBoard` read the board meanwhile and may see old, new or mixed bytes) and
`devLocked` (`dev_lock` between the count of a share and the switch it decides;
`disableDonation` writes `donate` meanwhile).  A local that its thread will not read again
before writing it (a miner's or stratum thread's `dev`, the weight just stored) is reset, so
that states that cannot behave differently are one state.  `stratumStorage[p].work_lock` is
the condition `WorkLocked(p)`: a job cannot be received while a miner copies the
last one.

Abstractions, all of data or of what lies outside the program:

- A job is a number, in the order the pool sent it.  Three constant tables say
  what the code compares: `Blob` (the template without the nonce: whether a miner
  has this work already), `PrevHash` (the 32 bytes at `data + 1` of the stale
  check, taken, as the comment there does, for the previous block's hash) and
  `PoolDiff`.  Job 0 is the zeroed work before the first job.  A pool does not
  repeat an old template and does not return to an older block.
- The weight of the donation is a fraction; the code's doubles round.
- Nonces are left out (see `NonceScan`).  Where the code compares a nonce with the end of a range
  the model may go either way (`BeginRefill` or `TakeWork`, and when a scan ends).
  A scan returns one or two hits.
- A send succeeds or fails.  It succeeds only on a connected socket (login is
  not needed); success means that the line was handed to the socket.  A socket
  number is used by one connection only (`StratumSession` drops this).
- `restart_threads` sets all flags in one step.  Each flag is read by one thread,
  and only in its scan, so the steps in between are not told apart.
- Memory allocation does not fail; pauses, time-outs and the dev thread's wait for
  the user's difficulty (`xmrMiner.c:1465-1499`) are scheduling; keepalives and
  logging have no effect here.
- Both pools use stratum.

### NonceScan

One miner thread, for threads do not touch each other's nonces: `threads` and `id`
are chosen at the start and stand for all of them.  `nonce[p]` is the nonce in
`work2[p]`, `end` the one `end_nonce`, `done[p]` `hashes_done2[p]`, `cur` and `max` the
`nonce` and `max_nonce` of the running `scanhash_cryptonight`.  A batch is one step:
the kernels' reports are the winners in it and at times a false one; the slots are
filled in any order.  The wrap of 32 bits and the test against `0x00ffffff` are kept,
with `Width` and `LowMask` for the two masks.  Restarts may come after any batch; how
long a slice is comes from the hash rate and is a choice from `Slices`.

### StratumSession

`sock[p]` is `sctx->sock`, which `stratum_disconnect` leaves as it is; `file` is the
kernel's table of descriptors, which gives out the lowest free number, so that a
closed number comes back with the next connection, whoever makes it.  `Sent` asks
only the kernel.  `pc[p]` is where stratum thread `p` is, `hand` the share
`submit_upstream_work` is busy with, `answer[p]` the load half of `accepted_count++`.
Of a session id the model knows only whether it is the one the pool gave out last.
The answers a pool may give are told apart by what the two functions that read them
look at: a result, its status, an error, an id.  A pool answers lines in order,
welcomes a proper login or (a fault) refuses it, refuses who is not logged in, and may
refuse any share.  A job may come ahead of the welcome, where one that cannot be
decoded (a fault) is taken for the answer; in a session a job changes nothing here,
whether it can be decoded or not.

### StratumLine

Lines are short sequences of pieces and a newline.  `Send` hands over any part of the
rest; `SendFails` is the select without patience.  `sockbuf` is the C string in the
buffer, `size` the buffer's size; `Cut` does what `strtok` and `memmove` do to it,
including the NUL that `strtok` leaves and the newlines it skips.  Lengths of more than
a few bytes do not matter for framing; `RBufSize` and `Chunk` keep the relation of
`RBUFSIZE` and `RECVSIZE`.

### JobFeed

`cache` stands for `rpc2_blob2`, `rpc2_target2` and `rpc2_job_id2`, `work` for `sctx->work`,
`board` for `g_work2`, `dated` for `g_work_time2` not being 0.  A message brings a job
whole, without target, with an empty blob, or in a form that cannot be decoded.
Publishing is one step here; who holds which lock meanwhile is in `Mining`.

### Helpers

Operators without state.  `fulltest` looks for the most significant word that differs, as the
loop does; `Number` is the number the words stand for, in any base.  `timeval_subtract` keeps the
two corrections apart.  A character is a digit or one of the four kinds `strtol` tells apart:
`hex2bin` takes a blank or a sign before a digit for a digit, and stores a pair before it
looks whether the pair was good.

### HttpWork

`lock` is `g_work_lock2[0]`, `workio` the place of the workio thread, `loggedIn` says
that `rpc2_id2[0]` is not empty.  The queues hold at most one entry here, since a miner
keeps the lock until it is answered.

## 3. Runs

| Run | Specification | Instance | Properties |
|---|---|---|---|
| `thread_queue` | `FairSpec` | 3 consumers (one timed), 2 items and NULL, 3 pushes, spurious wake-ups | `TypeOK`, `Fifo`, `NoLostWakeup`, `ImplementsFifoQueue`, `EveryEntryDelivered` |
| `user_pool` | `Spec` | 2 miners, 2 jobs, 2 shares, no retry, spurious wake-ups | `TypeOK`, `OnePlacePerShare`, `HandledInOrder`, `OneBoardWriter`, `BoardNeverGoesBack` |
| `both_pools` | `WorkioFairSpec` | 1 miner, 1 job per pool, 3 shares, donation 60 %, no retry | `CountsMatchSent`, `DonationOffIsFinal`, `GivenUpPoolEndsProgram` |
| `user_pool_live` | `FullFairSpec` | 1 miner, 3 jobs (a new template, a new block), 2 shares, retries for ever | `MinersCatchUp`, `SharesHandled`, `RestartEndsScan`, `NoCurrentShareDiscarded` |
| `both_pools_live` | `ScanFairSpec` | 1 miner, both pools, option `-Z`, 2 shares, retries for ever | `UnreachableDevNotMined`, `MinersCatchUp` |
| `nonce_scan` | `FairSpec` | 1 or 2 threads, 16 nonces to divide, 2 pools with different top bits, 2 jobs each, batches of 3 | `TypeOK`, `NoGap`, `NoEarlyRepeat`, `OwnRangeFirst`, `HitsSubmitted`, `RangeUsedUp` |
| `stratum_session` | `FairSpec` | 2 pools, 2 descriptors, 2 shares, 2 faults, 2 lines in flight each way | `TypeOK`, `OwnPoolWhileConnected`, `SteadyShareHasItsId`, `SessionIsMutual`, `NeverOvercounted`, `SessionRegained` |
| `stratum_line` | `Spec` | 3 lines each way, 2 empty ones, lines of 3 bytes, a buffer of 5 | `TypeOK`, `SentLinesArrive`, `LinesKept`, `MoveStaysInside` |
| `job_feed` | `Spec` | 4 jobs with 2 ids and 2 targets | `TypeOK`, `IdFitsBlob`, `TargetFitsBlob`, `BoardKeepsUp`, `BoardOfSession` |
| `dev_pool_down` | `FullFairSpec` | both pools, default options, retries for ever | `UnreachableDevNotMined`, **violated** |
| `spurious_wakeup` | `Spec` | 1 miner, user's pool | `WorkioEndsOnlyWhenTold`, **violated** |
| `http_work` | `FairSpec` | 2 miners, retries for ever | `WorkArrives`, **violated** |

Run one with `tlc -workers 2 -config MiningUser.cfg MCMining.tla`.  The longest
take about three minutes.

**Bounds.**  `MaxPushes`, `MaxJobs`, `MaxShares` bound what comes from outside;
everything else follows from them.  Failures are bounded by `Retries`, and are not
counted at all when retries are unlimited.  Three pushes and three consumers let a
signalled, a sleeping and a barging consumer meet.  Two jobs let a newer job meet
an older one on the board, three allow a new template and a new block while a share
waits.  Two shares are what one scan can return and the least that can overtake or be
exchanged; three, with a donation of 60 %, let the decision go to the dev pool and
back, because the first share never switches.  Two miners are used where they
compete for the board (they are interchangeable, hence `SYMMETRY`, in a run
without liveness); elsewhere a second miner adds no new relation and one keeps the
graph small.

In `NonceScan` the sizes keep the code's order: a gap shorter than a batch, a batch
shorter than a range, slices shorter and longer than a batch, a range that is no
multiple of it, so that ranges are overrun and the lower bits crossed.  `Faults` is 1:
one false report is enough to hide a hit.  In `StratumSession` two faults let a
connection break while the other one is broken, which is when descriptors are
exchanged; two shares let one spoil a login and another follow; `MaxWire` only keeps
queues short (a full socket refuses a line, as in the code), and a pool sends a job of
its own accord only when all it sent before is read.  In `StratumLine` a buffer
of 5 is enlarged for the second line; `MaxSends` and `MaxLines` of three let a line break
off, spoil the next and leave one after it, `MaxBlanks` of two lets `strtok` skip one
more newline than the code reckons with.  In `JobFeed` the third job has the id of
the first and the fourth that of the third, so an id comes again both over another
one and directly.

**Deadlock** is checked in every run.  `Terminated` is the stutter of an ended
process, `Over` that of `HttpWork`.

**Fairness.**  In `Mining`, `WorkioFairness`, `StratumFairness` and `MinerFairness` are
strong fairness of each thread's own steps: threads are scheduled, and a mutex that is
free again and again is granted in the end to one who keeps asking.  Weak fairness
would not do, as others may take the lock in between.  `ScanOver` is weakly fair
in `ScanFairSpec`: a scan is given about `LP_SCANTIME` seconds of nonces and ends
by itself.  Only `FullFairSpec` assumes something of the network: a send that is
possible again and again succeeds in the end.  Nothing forces a hit, a job, a
connection or a spurious wake-up.  Where a property needs a lasting connection it
says so (`StaysUp`), and each property is checked under the least it needs, or in a
run whose other properties need more.  `GivenUpPoolEndsProgram` needs only the
workio thread, `MinersCatchUp` needs that scans end because a restart may be lost.
`ThreadQueue` assumes consumers that keep popping, as `workio_thread` does.

In `NonceScan` the thread runs (weak fairness: nothing it does waits), and each pool
is mined for again and again, which is the donation's business; nothing keeps
restarts from coming after every batch.  In `StratumSession` the stratum threads run
and the pools answer what reaches them; the workio thread is not fair.  Faults are
bounded, so `SessionRegained` speaks of the time after the last one, whatever it left
behind.  In `HttpWork` the workio thread and the miners run and the pool would answer.

**Mutants.**  Next to a definition some modules hold a changed copy marked
"Mutation": the same code with a plausible mistake (a signal only for an empty list, a
share booked on the pool mined now, a lock not waited for).  Each property is
violated by one of them, named in `PROJECT.json`.

## 4. What the runs show

Apart from the three findings the code keeps its promises, some of them narrowly:

- A restart sent while a miner is between copying work and clearing its flag is
  lost; the miner scans the old job until its slice ends.  `MinersCatchUp` holds
  nevertheless, and only because a slice ends.
- A miner that has used up its range publishes the newest job itself, after which
  the stratum thread finds nothing new and restarts nobody.  The same bound
  repairs it.
- The unlocked stale check is safe in one direction: it may let an outdated share
  through, it never discards a current one.
- `disableDonation` writes without the lock first and resets `mine_for_dev` under
  it last.  In this order a decision under way cannot revive the dev pool; in the
  other it can (mutant `DisableInWrongOrder`).

**Nonces.**  A thread's own range comes first and is tried without gaps and without
repetition (`OwnRangeFirst`, `NoGap`, `NoEarlyRepeat`).  What the properties leave room
for is what happens after that: when the range is used up and no new job has come,
each further scan is one more batch, through the ranges of the threads behind it; the
batch that crosses the lower 24 bits, and may end in the next top byte, sets the nonce
back to `end_nonce`, and the same nonces are tried again.  The one
`end_nonce` of two pools does no harm before that: a scan is at least one batch, so the
other pool's end can shorten scans but not stop them (`RangeUsedUp`).  `*hashes_done`
may wrap when the nonce is set back; the sum with the nonce wraps again and is right,
only the hash rate printed is not.  A hit returned by the batch that crosses the lower
bits skips the test for it.  `HitsSubmitted` excludes batches with a third hit, which
has no slot, and with a false report, which may hide a true one.

**Sessions.**  A share can go to the other pool, namely when its own thread has been
disconnected and the kernel has given its number to the other's connection; never
while its thread holds a connection (`OwnPoolWhileConnected`).  It can go out before the
login, where its answer is taken for the login's; but it is refused there, the login
then counts as failed, and the thread starts over: no session begins that the pool does
not know of (`SessionIsMutual`), and with finitely many shares a session is regained
(`SessionRegained`).  A welcome with an odd status is taken for a success, its id is
stored, and since the pool means it so nothing goes wrong (`SteadyShareHasItsId`).
Counts of the two pools may be lost, never invented (`NeverOvercounted`).

**Lines.**  A line reported as sent arrives as a line, unless an earlier one broke off:
its beginning stays on the connection and spoils the next line, which is usually the
same share tried again (`SentLinesArrive`).  Received lines are kept whole, in order,
without loss, as long as the pool sends no empty lines and none takes a minute; after one
empty line a line may be lost or cut in two, after two a part may be returned twice
(`LinesKept`).  The miner itself sends an empty line after each keepalive, whose
text ends in a newline already.  The byte too many that is moved
lies inside the buffer, because the size is rounded up past the string, never to just fit
it (`MoveStaysInside`).

**Jobs.**  Blob and id stay together through every decoding that fails half-way
(`IdFitsBlob`); the target too, except for a job that comes without one, whose target is
whatever lay on the stack (`TargetFitsBlob`).  After a reconnection a session that brings
a job with its login mines that job, also when its id was used before
(`BoardOfSession`).  If the first job comes later, the work of the last session is
published first and counts as news; a first job with the same id is then published by a
miner at best, when it has used up its range.

**Finding 1, `dev_pool_down`** (`xmrMiner.c:1544`).  The dev pool's stratum thread
reads `mine_for_dev` as 0, its connection breaks, and it enters the reconnect
loop.  Now the workio thread sends a share to the user's pool and decides to mine
for the developer: thread and difficulty of the dev pool look alive.  The loop
resets `mine_for_dev` only if its own copy says 1, so it never does.  While the dev
pool stays down (by default for ever) the miners work for it, their shares wait at
the head of the only queue, and the user's pool gets nothing.  With option `-Z`,
documented as showing debug output, the reset is done on every attempt and the
property holds (`both_pools_live`).

**Finding 2, `spurious_wakeup`** (`util.c:1425`).  `tq_pop` returns NULL when its
single wait ends with the list empty.  The workio thread takes NULL as the order to
end, and the process ends with it, although no command was sent.

**Finding 3, `http_work`** (`xmrMiner.c:347`).  With an `http://` URL, which is also what a
URL without a scheme becomes, no work is ever fetched.  Requests are refused locally
while there is no session id; the id comes from a login; the login at the start of
`workio_thread` is cut out with `#if 0`, and the other one follows a request that was
answered with an error, for which `json_rpc_call` returns NULL anyway.  The miner waits
for its work for ever, with `g_work_lock2` in hand.

## 5. Proofs

All theorems hold for every value of the constants that satisfies the named assumption of
the module: finitely many threads (`QueueAssumption`, `MiningAssumption`); NULL distinct
from data; options in their ranges; template and dating bytes of jobs as section 2 says
(`FeedAssumption`); ranges of nonces that are larger than the gap between them, at least a
batch within one crossing of the lower bits, and at most one false report in a batch
(`ScanAssumption`); a descriptor for every pool, and `None` distinct from descriptors,
numbers and welcomes (`SessionAssumption`); a newline that is no piece of text, two threads
that write, and `RBUFSIZE > 1`, which is 2048 (`LineAssumption`).  The bounds on shares,
lines, faults and restarts that keep TLC's instances finite are arbitrary numbers there.
`Helpers` has no constants.  TLC evaluates the assumptions in every run.  Nothing else is
assumed.

Every safety property that a run checks (invariants, action properties, and the
refinement of the queue) has its theorem.

| Theorem | States | Argument |
|---|---|---|
| `ThreadQueueProofs!TypeCorrect` | `[]TypeOK` | inductive |
| `ThreadQueueProofs!FirstInFirstOut` | `[]Fifo` | inductive with `TypeOK`; two lemmas about appending and moving the head of a sequence |
| `ThreadQueueProofs!Refinement` | `ImplementsFifoQueue` | each action is a `Put`, a `Take`, a `SetClosed` or a stutter of `FifoQueue` |
| `ThreadQueueProofs!WakeupsSuffice` | `[]NoLostWakeup` | inductive with `TypeOK`: a push adds one entry and, if someone sleeps, one signalled consumer; a signalled consumer leaves with an entry or finds the list empty |
| `MiningProofs!TypeCorrect` | `[]TypeOK` | inductive, one lemma per thread |
| `MiningProofs!OneWriter` | `[]OneBoardWriter` | `LockInv`: the set of writers of a board is a singleton when its lock is held and empty otherwise; each step enters it, leaves it or keeps it |
| `MiningProofs!BoardMovesForward` | `BoardNeverGoesBack` | from `JobInv` |
| `MiningProofs!CurrentShareKept` | `NoCurrentShareDiscarded` | from `JobInv` and `BornInv` |
| `MiningProofs!DonationStaysOff` | `[]DonationOffIsFinal` | `DonationInv` |
| `MiningShareProofs!SharesInOrder` | `[]HandledInOrder` | `ShareInv` |
| `MiningShareProofs!SharesNeitherLostNorDoubled` | `[]OnePlacePerShare` | `ShareInv` |
| `MiningShareProofs!CountsCorrect` | `[]CountsMatchSent` | `SentInv`, with `ShareInv` |
| `NonceScanProofs!TypeCorrect` | `[]TypeOK` | inductive; arithmetic of ranges (`RangeFacts`) |
| `NonceScanProofs!HitsAreSubmitted` | `[]HitsSubmitted` | two slots hold at most two winners, whichever is filled first (`SlotsHoldAll`) |
| `NonceScanProofs!RangeWithoutGap` | `[]NoGap` | `RangeInv` |
| `NonceScanProofs!RangeOnce` | `[]NoEarlyRepeat` | `RangeInv` |
| `NonceScanProofs!RangeFirst` | `[]OwnRangeFirst` | `RangeInv` |
| `StratumSessionProofs!TypeCorrect` | `[]TypeOK` | inductive, with `AnswerInv` |
| `StratumSessionProofs!SharesGoHome` | `[]OwnPoolWhileConnected` | `SessionInv` |
| `StratumSessionProofs!SteadySharesCurrent` | `[]SteadyShareHasItsId` | `SessionInv` |
| `StratumSessionProofs!SessionsMutual` | `[]SessionIsMutual` | `SessionInv` |
| `StratumSessionProofs!CountersSound` | `[]NeverOvercounted` | `CountInv` |
| `StratumLineProofs!TypeCorrect` | `[]TypeOK` | inductive, with `SendInv` |
| `StratumLineProofs!BufferSuffices` | `[]MoveStaysInside` | inductive; the next multiple of a number is above it |
| `StratumLineProofs!LinesArrive` | `[]SentLinesArrive` | `SendInv` |
| `StratumLineProofs!LinesComeThrough` | `[]LinesKept` | `ReadInv` |
| `JobFeedProofs!TypeCorrect` | `[]TypeOK` | part of `FeedInv` |
| `JobFeedProofs!ShareNamesItsJob` | `[]IdFitsBlob` | `FeedInv` |
| `JobFeedProofs!TargetIsTheJobs` | `[]TargetFitsBlob` | `FeedInv` |
| `JobFeedProofs!PublishedBeforeReading` | `[]BoardKeepsUp` | `FeedInv` |
| `JobFeedProofs!NoJobOfOldSession` | `[]BoardOfSession` | `SessionInv` |
| `HelpersProofs!FulltestCompares` | `fulltest(h, t)` is `h <= t`, for words in any base | a word more makes the lower words irrelevant unless the higher are equal (`LastDigit`), seven times |
| `HelpersProofs!SubtractsTimes` | difference and sign are exact for times as `gettimeofday` gives them | a borrow is one second, and the second correction never happens |
| `HelpersProofs!HexRoundTrip` | `hex2bin` undoes `bin2hex` | digits of a byte |
| `HelpersProofs!HexLeavesNothing`, `HexStopsAtBadPair` | success overwrites all of the buffer, failure nothing behind the bad pair | from `Written` |

*`JobInv`* says that what a miner has or a share was found on is not newer than what
is on its board, nor that newer than the job received last.  `BoardNeverGoesBack` alone
is not inductive: a copy moves the board to `sWork`, and it takes `gWork <= sWork` to
see that this is forward.  `JobStep` describes once what any step may do to these
values; three lemmas show that each thread's steps are such steps.  *`BornInv`* adds
that everything on its way (results, queue, hand) is a share that was found, so that
`info` is defined for it.  `CurrentShareKept` follows: a discarded share differs from
a job at least as new as its own and at most as new as the newest, and dates never go
back.

*`DonationInv`* follows `disableDonation` through its three steps: after the first,
`donate` is 0; after the third, `mine_for_dev` is 0; and a decision between `Decide`
and `Commit` holds `dev_lock`, which the third step needs, while one that starts later
sees `donate = 0` or a thread that is gone, or is the very first, which does not
switch.

*`FeedInv`* has three parts that go together.  What is remembered and what is worked on are
written in one step, so a decoding that fails half-way leaves both at the job before; the
board lags behind them, but each of the two pairs blob and id correctly by itself; and a thread
that reads has found the two ids equal.  *`SessionInv`* of `JobFeedProofs` dates the board: a job of the
session's own is in `work` before the first publication of the session, and until that the
board counts as outdated.

*`ShareInv`* puts the shares of a miner in a line: those in its results, then those of it in
the queue, then the one in the workio thread's hand, read backwards, are exactly its open
shares in the order of finding, without repetition.  Each of the two properties alone is
not inductive; together with the line they are, since a step appends to the line, takes from
its front, or moves a share over one of its joints.  *`SentInv`* says that from the send to the
commit the share in the workio thread's hand is one that is settled as sent: until it is counted
it is the only one of those that is not.  A share is sent only out of the hand, where by
`ShareInv` it is still open, so none is counted twice.

*`RangeInv`* says how far a thread is with the job of each pool: either the range is used
up, or what was tried is everything from its beginning to the position at which the scan
will go on, and nothing twice.  The position is the saved nonce, the nonce of the batch, or,
for the pool not being mined, the one left in its work.  `end_nonce` is shared by the pools
and overwritten at every switch, which is why the invariant must speak of both pools when
`NoGap` speaks of one.

*`SessionInv`* of `StratumSessionProofs` has three parts.  `FileInv`: a descriptor that a live
connection uses is its own, so that `sock` may be wrong only for a thread that is down.
`HandInv`: a share printed in the session that still lasts has its id.  `PoolInv`: before a pool has welcomed the miner
nothing is on the line to the miner but refusals, so the answer to a share that strayed into
the login cannot pass for a welcome.  *`CountInv`* bounds each counter, and the old value that an
increment under way will write back, by the answers given less those still to be
counted; a lost increment only makes the left side smaller.

*`SendInv`* is about one line in three pieces: what the lock's holder has sent of it is the end of
the stream, what it has not sent is in `rest`, and no other thread has anything to send.
It counts the reported lines that do not stand in the stream: there are no more than broken
calls, and one less if the stream has a torn end, which will cost the next line.
`SentLinesArrive` alone says nothing of that end, and is not inductive.

*`ReadInv`* looks at `sockbuf` and the wire together.  With at most one empty line there is at most
one place where two newlines are neighbours, none once a newline is in front, and what was
returned and what comes are one ascending sequence of pieces.  So strtok skips one newline at
most, and then the whole buffer is dropped: nothing remains that could come twice.  Without
empty lines no newline is in front at all, and lines returned, buffer and wire are what was
written.  `LinesKept` is stated with `FlattenSeq`, a recursive function; that it grows by what
is appended is proved by a least counterexample (`LeastNumber`, `GrowthExists`,
`GrowthUnique`, `FlattenAppend`), the least number coming from the fact that the finite
sets are well-founded under inclusion, for the library's induction theorems cannot be used
by the provers at hand.

**Only model-checked**: the liveness properties (`EveryEntryDelivered`, `MinersCatchUp`,
`SharesHandled`, `RestartEndsScan`, `UnreachableDevNotMined`, `GivenUpPoolEndsProgram`,
`RangeUsedUp`, `SessionRegained`), which need fairness and `ENABLED` and are beyond the
prover, and what the runs of `HttpWork` show.

A change of target under an unchanged blob, which a pool may make, is in no instance that
is checked (`PoolDiff` is `EqualDiff` there); the theorems cover it.

## 6. Plan

The modules of section 2 are what is worth modelling here, and their safety properties are
proved.  What may still be proved:

1. `fulltest` for numbers of any length rather than eight words, with the least-counterexample
   argument of `StratumLineProofs`.
2. The safety halves of the liveness properties: what a waiting thread waits for exists (a share
   that is not settled is on its way to a thread that is not blocked for good).
3. That `Mining`'s view of a session or a scan is one of `StratumSession` and `NonceScan`, as a
   refinement of the parts `Mining` reduces to a flag.

## 7. Not modelled

- **Hash functions and GPU kernels** (`cryptonight.c`, `crypto/`, `cuda_cryptonight_core.cu`): numerical
  code on two megabytes of state per hash.  Which nonces win is a constant.
- **Bitcoin's half** of `util.c` and `xmrMiner.c` and `sha2.c`: unreachable with `jsonrpc_2` true.
- **Vendored code**: jansson, getopt, and the headers of curl, OpenSSL, zlib and pthreads.  By lines this
  is most of the repository, and the reason why the mapped share of all lines is small: the live
  control code is a few thousand lines.
- **Option parsing**, `parse_device_config` with it: a sequence of assignments with range checks.
  **Logging**: output only.  `diff_to_target` is never called.
- **Submitting over HTTP**: no work is ever fetched there (finding 3).
- **Out of memory**, and CUDA errors, which end the process.
