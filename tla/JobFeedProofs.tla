---------------------------- MODULE JobFeedProofs ----------------------------
(***************************************************************************)
(* Theorems about module JobFeed, for any number of jobs, any ids, used    *)
(* again in any order, and any targets.                                    *)
(***************************************************************************)
EXTENDS JobFeed, TLAPS

\* A job is decoded whole, or nothing of it is.  The two outcomes of NextJob,
\* in the words the proofs below need: what is remembered and worked on is the
\* new job's or the old one's, and in either case the same.
LEMMA JobOrNot ==
    ASSUME TypeOK, work = cache, NextJob
    PROVE  /\ sent' = sent + 1 /\ sent' \in Jobs
           /\ work' = cache'
           /\ \/ UNCHANGED <<cache, work, difficulty, gap>>
              \/ /\ cache' \in Work
                 /\ cache'.blob = sent + 1
                 /\ cache'.id = JobId[sent + 1]
                 /\ difficulty' = cache'.target
                 /\ gap' \in BOOLEAN
                 /\ ~gap' => cache'.target = Target[sent + 1]
<1>1. sent < MaxJobs /\ sent' = sent + 1
  BY DEF NextJob
<1>2. sent \in Jobs /\ sent' \in Jobs
  BY <1>1, FeedAssumption DEF TypeOK, Jobs
<1>3. PICK form \in Forms : Decoded(sent + 1, form) \/ NotDecoded(form)
  BY DEF NextJob
<1>4. CASE NotDecoded(form)
  BY <1>1, <1>2, <1>4 DEF NotDecoded
<1>5. CASE form = "blank" /\ Decoded(sent + 1, form)
  BY <1>1, <1>2, <1>5 DEF Decoded, WorkFollows
<1>6. CASE form \in {"whole", "targetless"} /\ Decoded(sent + 1, form)
  <2>1. Remembers(sent + 1, form) /\ work' = cache'
    BY <1>6 DEF Decoded, WorkFollows
  <2>2. PICK t \in IF form = "whole" THEN {Target[sent + 1]} ELSE Targets :
          /\ cache' = [blob |-> sent + 1, target |-> t, id |-> JobId[sent + 1]]
          /\ difficulty' = t
    BY <2>1 DEF Remembers
  <2>3. t \in Targets /\ (form = "whole" => t = Target[sent + 1])
    BY <1>1, <1>2, <2>2 DEF Targets
  <2>4. gap' = (form = "targetless")
    BY <2>1 DEF Remembers
  <2>5. cache' \in Work
    BY <1>1, <1>2, <2>2, <2>3 DEF Work, IdsOf
  <2> QED
    BY <1>1, <1>2, <1>6, <2>1, <2>2, <2>3, <2>4, <2>5
<1> QED
  BY <1>3, <1>4, <1>5, <1>6 DEF Decoded

-----------------------------------------------------------------------------
\* What the four properties rest on.  A job is remembered and worked on in one
\* step; one that a miner may still have on the board is not newer than that.
FeedInv ==
    /\ TypeOK
    /\ work = cache
    /\ work.blob <= sent
    /\ session <= sent + 1
    /\ \A w \in {work, board} : w.id = JobId[w.blob]
    /\ ~gap => work.target = Target[work.blob] /\ difficulty = work.target
    /\ pc = "read" => board.id = work.id

\* What a session that began with a job of its own has on the board.
SessionInv ==
    /\ pc = "login" => ~dated
    /\ pc = "read" => dated
    /\ pc # "login" /\ greeted => work.blob >= session
    /\ pc # "login" /\ greeted /\ dated => board.blob >= session

LEMMA InitFeed == Init => FeedInv /\ SessionInv
<1> SUFFICES ASSUME Init PROVE FeedInv /\ SessionInv
  OBVIOUS
<1>1. 0 \in Jobs /\ NoWork \in Work
  BY FeedAssumption DEF Jobs, NoWork, Work, Targets, IdsOf
<1>2. TypeOK
  <2>1. {cache, work, board} \subseteq Work
    BY <1>1 DEF Init
  <2>2. difficulty \in Targets
    BY <1>1 DEF Init, Targets
  <2>3. session \in 1..(MaxJobs + 1)
    BY FeedAssumption DEF Init
  <2> QED
    BY <1>1, <2>1, <2>2, <2>3 DEF Init, TypeOK
<1> QED
  BY <1>2, FeedAssumption DEF Init, FeedInv, SessionInv, NoWork

\* One step of the stratum thread, or of a miner, at a time.
LEMMA NextFeed == FeedInv /\ SessionInv /\ [Next]_vars => FeedInv' /\ SessionInv'
<1> SUFFICES ASSUME FeedInv, SessionInv, [Next]_vars
             PROVE  FeedInv' /\ SessionInv'
  OBVIOUS
<1> USE FeedAssumption
<1>1. /\ TypeOK /\ work = cache /\ MaxJobs \in Nat
      /\ work.blob \in Nat /\ board.blob \in Nat /\ sent \in Nat /\ session \in Nat
  BY DEF FeedInv, TypeOK, Work, Jobs
<1>2. ASSUME NextJob PROVE
      /\ cache' \in Work /\ work' = cache' /\ sent' = sent + 1 /\ sent' \in Jobs
      /\ work'.blob <= sent' /\ work'.blob \in Nat
      /\ work'.blob = work.blob \/ work'.blob = sent + 1
      /\ work'.id = JobId[work'.blob]
      /\ ~gap' => work'.target = Target[work'.blob] /\ difficulty' = work'.target
      /\ difficulty' \in Targets /\ gap' \in BOOLEAN
  <2>1. /\ sent' = sent + 1 /\ sent' \in Jobs /\ work' = cache'
        /\ \/ UNCHANGED <<cache, work, difficulty, gap>>
           \/ /\ cache' \in Work
              /\ cache'.blob = sent + 1
              /\ cache'.id = JobId[sent + 1]
              /\ difficulty' = cache'.target
              /\ gap' \in BOOLEAN
              /\ ~gap' => cache'.target = Target[sent + 1]
    BY <1>1, <1>2, JobOrNot
  <2>2. CASE UNCHANGED <<cache, work, difficulty, gap>>
    BY <1>1, <2>1, <2>2 DEF FeedInv, TypeOK
  <2>3. CASE ~UNCHANGED <<cache, work, difficulty, gap>>
    BY <1>1, <2>1, <2>3 DEF Work
  <2> QED BY <2>2, <2>3
<1>3. CASE JobWhileAwaiting
  BY <1>1, <1>2, <1>3 DEF JobWhileAwaiting, FeedInv, SessionInv, TypeOK
<1>4. CASE LoggedIn
  <2>1. CASE NextJob
    BY <1>1, <1>2, <1>4, <2>1 DEF LoggedIn, FeedInv, SessionInv, TypeOK
  <2>2. CASE UNCHANGED <<cache, work, difficulty, sent, gap>>
    BY <1>1, <1>4, <2>2 DEF LoggedIn, FeedInv, SessionInv, TypeOK
  <2> QED BY <1>4, <2>1, <2>2 DEF LoggedIn
<1>5. CASE DetectBlock
  BY <1>1, <1>5 DEF DetectBlock, GenWork, FeedInv, SessionInv, TypeOK
<1>6. CASE ReadLine
  <2>1. CASE NextJob
    BY <1>1, <1>2, <1>6, <2>1 DEF ReadLine, FeedInv, SessionInv, TypeOK
  <2>2. CASE UNCHANGED <<cache, work, difficulty, sent, gap>>
    BY <1>1, <1>6, <2>2 DEF ReadLine, FeedInv, SessionInv, TypeOK
  <2> QED BY <1>6, <2>1, <2>2 DEF ReadLine
<1>7. CASE Reconnect
  <2>1. session' = sent + 1 /\ session' \in 1..(MaxJobs + 1)
    BY <1>1, <1>7 DEF Reconnect, TypeOK, Jobs
  <2>2. UNCHANGED <<cache, work, board, difficulty, greeted, sent, gap>>
    BY <1>7 DEF Reconnect
  <2>3. dated' = FALSE /\ pc' = "login"
    BY <1>7 DEF Reconnect
  <2>4. TypeOK'
    BY <1>1, <2>1, <2>2, <2>3 DEF TypeOK
  <2>5. FeedInv'
    BY <1>1, <2>1, <2>2, <2>3, <2>4 DEF FeedInv
  <2> QED
    BY <2>3, <2>5 DEF SessionInv
<1>8. CASE MinerGenWork
  BY <1>1, <1>8 DEF MinerGenWork, GenWork, FeedInv, SessionInv, TypeOK
<1>9. CASE UNCHANGED vars
  BY <1>9 DEF vars, FeedInv, SessionInv, TypeOK
<1> QED
  BY <1>3, <1>4, <1>5, <1>6, <1>7, <1>8, <1>9 DEF Next

LEMMA FeedAlways == Spec => [](FeedInv /\ SessionInv)
<1> QED BY InitFeed, NextFeed, PTL DEF Spec

-----------------------------------------------------------------------------
\* Everything has its type: rpc2_job_decode remembers only jobs of the pool.
THEOREM TypeCorrect == Spec => []TypeOK
<1>1. FeedInv => TypeOK BY DEF FeedInv
<1> QED BY <1>1, FeedAlways, PTL

\* A share names the job that was hashed: blob and job id are of one job in
\* what is remembered, worked on and mined, whatever a pool sends.
THEOREM ShareNamesItsJob == Spec => []IdFitsBlob
<1>1. FeedInv => IdFitsBlob BY DEF FeedInv, IdFitsBlob
<1> QED BY <1>1, FeedAlways, PTL

\* The target is that of the blob, and the difficulty that of the target, from
\* one job with a target to the next without.
THEOREM TargetIsTheJobs == Spec => []TargetFitsBlob
<1>1. FeedInv => TargetFitsBlob BY DEF FeedInv, TargetFitsBlob
<1> QED BY <1>1, FeedAlways, PTL

\* A thread that waits for a line has published the last job decoded.
THEOREM PublishedBeforeReading == Spec => []BoardKeepsUp
<1>1. FeedInv => BoardKeepsUp BY DEF FeedInv, BoardKeepsUp
<1> QED BY <1>1, FeedAlways, PTL

\* No job of an earlier session is mined after a login that brought a job, though
\* its id may come again and stratum_thread compares ids only.
THEOREM NoJobOfOldSession == Spec => []BoardOfSession
<1>1. SessionInv => BoardOfSession BY DEF SessionInv, BoardOfSession
<1> QED BY <1>1, FeedAlways, PTL
=============================================================================
