------------------------------- MODULE JobFeed -------------------------------
(***************************************************************************)
(* What becomes of the jobs a pool sends, good ones and others: decoded by *)
(* rpc2_job_decode into what is remembered of the last job and from there  *)
(* into sctx->work, published by the stratum thread, or by a miner whose   *)
(* nonces are used up, in g_work2, and lost or kept over a reconnection.   *)
(* In module Mining every job is good and these steps are one.             *)
(***************************************************************************)
EXTENDS Naturals

CONSTANTS
    MaxJobs,      \* bound: jobs of the pool, numbered 1..MaxJobs
    JobId,        \* JobId[j]: the job_id of job j; a pool may use one again
    Target,       \* Target[j]: its target
    Junk          \* what an uninitialised target may be

Jobs == 0..MaxJobs        \* 0: zeroed memory, of no job

ASSUME FeedAssumption ==
    /\ MaxJobs \in Nat \ {0}
    /\ DOMAIN JobId = Jobs /\ DOMAIN Target = Jobs
    /\ \A j \in Jobs \ {0} : JobId[j] # JobId[0]

VARIABLES
    cache,        \* rpc2_blob2, rpc2_target2, rpc2_job_id2: the last job
    work,         \* sctx->work
    board,        \* g_work2
    dated,        \* g_work_time2 is not 0
    difficulty,   \* the target pool_difficulty was last computed from
    pc,           \* the stratum thread: logging in, before or after publishing
    session,      \* history: the first job of this session, or the next one
    greeted,      \* history: a job of it was decoded by the time of the login
    sent,         \* history: jobs sent so far
    gap           \* history: a job without target since the last good one

vars == <<cache, work, board, dated, difficulty, pc, session, greeted, sent,
          gap>>

Targets == {Target[j] : j \in Jobs} \cup {Junk}
IdsOf == {JobId[j] : j \in Jobs}
Work == [blob : Jobs, target : Targets, id : IdsOf]
NoWork == [blob |-> 0, target |-> Target[0], id |-> JobId[0]]

TypeOK ==
    /\ {cache, work, board} \subseteq Work
    /\ dated \in BOOLEAN
    /\ difficulty \in Targets
    /\ pc \in {"login", "publish", "read"}
    /\ session \in 1..(MaxJobs + 1)
    /\ greeted \in BOOLEAN
    /\ sent \in Jobs
    /\ gap \in BOOLEAN

\* Zeroed, but for g_work_time2, which main sets; the thread sets it to 0.
Init ==
    /\ cache = NoWork /\ work = NoWork /\ board = NoWork
    /\ dated = FALSE
    /\ difficulty = Target[0]
    /\ pc = "login"
    /\ session = 1
    /\ greeted = FALSE
    /\ sent = 0
    /\ gap = FALSE

-----------------------------------------------------------------------------
(* rpc2_job_decode.                                                        *)

\* How a message brings job j: with everything; without a target, which leaves
\* the local one as it was; with a blob of no length, for the job sent before;
\* with one that cannot be decoded.
Forms == {"whole", "targetless", "blank", "broken"}

\* The blob, the target and the id are remembered together.
Remembers(j, form) ==
    /\ \E t \in IF form = "whole" THEN {Target[j]} ELSE Targets :
          /\ cache' = [blob |-> j, target |-> t, id |-> JobId[j]]
          /\ difficulty' = t
    /\ gap' = (form = "targetless")

\* Mutation: a job is decoded into the memory of the last one only.
WorkFollowsNot == UNCHANGED work

\* Mutation: the target gets its bytes in the wrong order.
WorkFollowsSwapped == work' = [cache' EXCEPT !.target = 256 * (1 + @)]

\* memcpy of the blob, the last word of the target, strncpy of the id.
WorkFollows == work' = cache'

\* Mutation: a job without a blob is still asked for its id.
DecodedNewId(j, form) ==
    \/ /\ form \in {"whole", "targetless"}
       /\ Remembers(j, form)
       /\ WorkFollows
    \/ /\ form = "blank"
       /\ cache.blob # 0
       /\ cache' = [cache EXCEPT !.id = JobId[j]]
       /\ UNCHANGED <<difficulty, gap>>
       /\ WorkFollows

\* True is returned, and work filled in, unless nothing was ever remembered.
Decoded(j, form) ==
    \/ /\ form \in {"whole", "targetless"}
       /\ Remembers(j, form)
       /\ WorkFollows
    \/ /\ form = "blank"
       /\ cache.blob # 0
       /\ UNCHANGED <<cache, difficulty, gap>>
       /\ WorkFollows

\* False is returned, and everything is as it was.
NotDecoded(form) ==
    /\ form = "broken" \/ (form = "blank" /\ cache.blob = 0)
    /\ UNCHANGED <<cache, work, difficulty, gap>>

\* The pool sends its next job, and it is decoded.
NextJob ==
    /\ sent < MaxJobs
    /\ sent' = sent + 1
    /\ \E form \in Forms : Decoded(sent + 1, form) \/ NotDecoded(form)

-----------------------------------------------------------------------------
(* The stratum thread and the miners.                                      *)

\* A job comes before the answer to the login.
JobWhileAwaiting ==
    /\ pc = "login"
    /\ NextJob
    /\ UNCHANGED <<board, dated, pc, session, greeted>>

\* The login is answered; whether a job in the answer can be decoded is not
\* asked.
LoggedIn ==
    /\ pc = "login"
    /\ NextJob \/ UNCHANGED <<cache, work, difficulty, sent, gap>>
    /\ greeted' = (cache'.blob >= session)
    /\ pc' = "publish"
    /\ UNCHANGED <<board, dated, session>>

\* stratum_gen_work: the job_id of sctx->job is not set in this protocol.
GenWork == board' = work

\* Mutation: only the job's id tells whether the work is new.
DetectsById ==
    /\ pc = "publish"
    /\ IF work.id # board.id THEN GenWork ELSE UNCHANGED board
    /\ dated' = TRUE
    /\ pc' = "read"
    /\ UNCHANGED <<cache, work, difficulty, session, greeted, sent, gap>>

\* Mutation: work is published once in a session.
DetectsOnce ==
    /\ pc = "publish"
    /\ IF ~dated THEN GenWork ELSE UNCHANGED board
    /\ dated' = TRUE
    /\ pc' = "read"
    /\ UNCHANGED <<cache, work, difficulty, session, greeted, sent, gap>>

\* "Stratum detected new block": the id is another, or nothing was published
\* since the connection was made.  Without a job from this session that is the
\* work of the last one.
DetectBlock ==
    /\ pc = "publish"
    /\ IF ~dated \/ work.id # board.id THEN GenWork ELSE UNCHANGED board
    /\ dated' = TRUE
    /\ pc' = "read"
    /\ UNCHANGED <<cache, work, difficulty, session, greeted, sent, gap>>

\* A line is read: a job, or anything else.
ReadLine ==
    /\ pc = "read"
    /\ NextJob \/ UNCHANGED <<cache, work, difficulty, sent, gap>>
    /\ pc' = "publish"
    /\ UNCHANGED <<board, dated, session, greeted>>

\* The connection is lost and made again.
Reconnect ==
    /\ pc \in {"login", "read"}
    /\ session < MaxJobs + 1
    /\ session' = sent + 1
    /\ dated' = FALSE
    /\ pc' = "login"
    /\ UNCHANGED <<cache, work, board, difficulty, greeted, sent, gap>>

\* A miner that has used up its nonces on the board's job takes the work from
\* sctx, whether it has been published or not.
MinerGenWork ==
    /\ board # work
    /\ GenWork
    /\ UNCHANGED <<cache, work, dated, difficulty, pc, session, greeted, sent, gap>>

Next ==
    \/ JobWhileAwaiting \/ LoggedIn \/ DetectBlock \/ ReadLine \/ Reconnect
    \/ MinerGenWork

Spec == Init /\ [][Next]_vars

-----------------------------------------------------------------------------
\* Blob and job id are of one job everywhere, whatever cannot be decoded and
\* whoever publishes: a share names the job that was hashed.
IdFitsBlob ==
    \A w \in {cache, work, board} : w.id = JobId[w.blob]

\* So is the target, and the difficulty that the donation is reckoned with is
\* that of the work, since the last job that came with a target.
TargetFitsBlob ==
    ~gap => work.target = Target[work.blob] /\ difficulty = work.target

\* While the thread waits for a line the miners' job is the last one decoded.
BoardKeepsUp == pc = "read" => board.id = work.id

\* After a login that brought a job which could be decoded, the miners' job is
\* one of this session, though its id may be that of an earlier one's job.
\* (If the first job comes later, the work of the last session is published
\* first, and a job with its id will not be taken for another.)
BoardOfSession == pc = "read" /\ greeted => board.blob >= session
=============================================================================
