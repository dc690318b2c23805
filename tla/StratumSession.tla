--------------------------- MODULE StratumSession ---------------------------
(***************************************************************************)
(* The connections of xmrMiner to its pools: how a stratum thread connects, *)
(* logs in and reads, how the workio thread writes shares to the same      *)
(* socket behind its back, and how the answers are counted.  Module Mining *)
(* takes all of this for granted: there a session is a flag.               *)
(*                                                                         *)
(* The socket number is the point.  stratum_send_line never asks whether   *)
(* the connection is there: it writes to the descriptor that was stored    *)
(* last, which may be closed, or be the other pool's by now.  The login    *)
(* and the shares all carry "id": 1, so an answer is told from another     *)
(* only by its place.  The pools and the network are external.             *)
(***************************************************************************)
EXTENDS Naturals, Sequences, FiniteSets, SequencesExt

CONSTANTS
    Pools,        \* {0, 1}: the user's pool and the donation's
    Files,        \* the descriptors the kernel hands out, the lowest first
    Keepalive,    \* the pools with opt_keepalive2
    MaxShares,    \* bound: shares found
    MaxFaults,    \* bound: refusals, time-outs and losses of a connection
    MaxWire,      \* bound: lines in flight one way
    None

ASSUME SessionAssumption ==
    /\ Pools # {} /\ Pools \subseteq {0, 1}
    /\ Files \subseteq Nat /\ Cardinality(Files) >= Cardinality(Pools)
    /\ Keepalive \subseteq Pools
    /\ {MaxShares, MaxFaults} \subseteq Nat /\ MaxWire \in Nat \ {0}
    /\ None \notin Files \cup Nat \cup [valid : BOOLEAN, old : Nat]

VARIABLES
    pc,           \* pc[p]: where stratum_thread p is
    sock,         \* sock[p]: sctx->sock, not reset by stratum_disconnect
    file,         \* file[f]: the pool whose connection has descriptor f
    link,         \* link[p]: state of the connection in the network
    toPool,       \* toPool[p]: lines on the way to pool p
    toMiner,      \* toMiner[p]: lines on the way back, sockbuf included
    known,        \* known[p]: pool p has accepted a login on this connection
    idCurrent,    \* idCurrent[p]: rpc2_id2[p] is the id pool p gave out last
    working,      \* working[p]: pool p has sent a job, so shares can be found
    hand,         \* the share submit_upstream_work is busy with
    accepted, rejected,  \* accepted_count, rejected_count
    answer,       \* answer[p]: in share_result, the verdict and the old count
    shares, faults,      \* history: shares found, faults so far
    good, bad     \* history: answers of either kind the pools have given

threadVars == <<pc, sock, file>>
netVars == <<link, toPool, toMiner>>
poolVars == <<known, good, bad>>
countVars == <<accepted, rejected, answer>>
vars == <<threadVars, netVars, poolVars, countVars, idCurrent, working, hand,
          shares, faults>>

InSession == {"receive", "count"}

\* A share on the wire: whose it is, whether its thread was disconnected when
\* it was sent (orphan), whether the id in it is the one its pool gave out
\* last (current), and whether it was written down and sent within one session
\* (steady).  The last three are history.
ShareLines == [kind : {"submit"}, from : Pools, orphan : BOOLEAN,
               current : BOOLEAN, steady : BOOLEAN]
Requests == ShareLines \cup [kind : {"login", "keepalived"}]

\* What a pool sends, told apart by what the miner does with it.
Job(sound) == [kind |-> "job", sound |-> sound]
Answer(result, status, error, id) ==
    [kind |-> "answer", result |-> result, status |-> status, error |-> error,
     hasId |-> id]
Accepts == Answer(TRUE, "OK", "null", FALSE)
AcceptsBare == Answer(TRUE, "OK", "missing", FALSE)
Refuses == Answer(FALSE, "none", "text", FALSE)
Alive == Answer(TRUE, "KEEPALIVED", "null", FALSE)
Welcome == Answer(TRUE, "OK", "null", TRUE)
WelcomeBut == Answer(TRUE, "other", "null", TRUE)
Lines == {Job(TRUE), Job(FALSE), Accepts, AcceptsBare, Refuses, Alive, Welcome,
          WelcomeBut}

Hands == [pool : Pools, formed : BOOLEAN, current : BOOLEAN, steady : BOOLEAN]

TypeOK ==
    /\ pc \in [Pools -> {"down", "connect", "login", "await"} \cup InSession]
    /\ sock \in [Pools -> Files \cup {None}]
    /\ file \in [Files -> Pools \cup {None}]
    /\ link \in [Pools -> {"none", "opening", "up", "lost"}]
    /\ toPool \in [Pools -> Seq(Requests)]
    /\ toMiner \in [Pools -> Seq(Lines)]
    /\ \A p \in Pools : Len(toPool[p]) <= MaxWire /\ Len(toMiner[p]) <= MaxWire
    /\ {known, idCurrent, working} \subseteq [Pools -> BOOLEAN]
    /\ hand \in Hands \cup {None}
    /\ {accepted, rejected, good, bad} \subseteq Nat
    /\ answer \in [Pools -> [valid : BOOLEAN, old : Nat] \cup {None}]
    /\ shares \in 0..MaxShares
    /\ faults \in 0..MaxFaults

Init ==
    /\ pc = [p \in Pools |-> "down"]
    /\ sock = [p \in Pools |-> None]
    /\ file = [f \in Files |-> None]
    /\ link = [p \in Pools |-> "none"]
    /\ toPool = [p \in Pools |-> <<>>]
    /\ toMiner = [p \in Pools |-> <<>>]
    /\ known = [p \in Pools |-> FALSE]
    /\ idCurrent = [p \in Pools |-> FALSE]
    /\ working = [p \in Pools |-> FALSE]
    /\ hand = None
    /\ accepted = 0 /\ rejected = 0
    /\ answer = [p \in Pools |-> None]
    /\ shares = 0 /\ faults = 0
    /\ good = 0 /\ bad = 0

-----------------------------------------------------------------------------
(* The stratum thread of pool p.                                           *)

Goto(p, label) == pc' = [pc EXCEPT ![p] = label]

\* Something goes wrong that need not.
Fault == faults < MaxFaults /\ faults' = faults + 1

\* Descriptors nobody has.
Free == {f \in Files : file[f] = None}

\* Mutation: the callback forgets to store the number of the socket.
ConnectOldSocket(p) ==
    /\ pc[p] = "down"
    /\ \E f \in Free :
          /\ \A g \in Free : f <= g
          /\ file' = [file EXCEPT ![f] = p]
          /\ sock' = IF sock[p] = None THEN [sock EXCEPT ![p] = f] ELSE sock
    /\ link' = [link EXCEPT ![p] = "opening"]
    /\ Goto(p, "connect")
    /\ UNCHANGED <<toPool, toMiner, poolVars, countVars, idCurrent, working,
                   hand, shares, faults>>

\* curl opens a socket, the lowest number that is free, and stores it.
Connect(p) ==
    /\ pc[p] = "down"
    /\ \E f \in Free :
          /\ \A g \in Free : f <= g
          /\ file' = [file EXCEPT ![f] = p]
          /\ sock' = [sock EXCEPT ![p] = f]
    /\ link' = [link EXCEPT ![p] = "opening"]
    /\ Goto(p, "connect")
    /\ UNCHANGED <<toPool, toMiner, poolVars, countVars, idCurrent, working,
                   hand, shares, faults>>

\* The connection is made; stratum_subscribe has nothing to do.
Connected(p) ==
    /\ pc[p] = "connect"
    /\ link' = [link EXCEPT ![p] = "up"]
    /\ Goto(p, "login")
    /\ UNCHANGED <<sock, file, toPool, toMiner, poolVars, countVars, idCurrent,
                   working, hand, shares, faults>>

\* stratum_disconnect: curl closes the descriptor, what was read is dropped.
Disconnect(p) ==
    /\ Goto(p, "down")
    /\ file' = [f \in Files |-> IF file[f] = p THEN None ELSE file[f]]
    /\ link' = [link EXCEPT ![p] = "none"]
    /\ toPool' = [toPool EXCEPT ![p] = <<>>]
    /\ toMiner' = [toMiner EXCEPT ![p] = <<>>]
    /\ known' = [known EXCEPT ![p] = FALSE]
    /\ hand' = IF hand # None /\ hand.pool = p
               THEN [hand EXCEPT !.steady = FALSE] ELSE hand

\* Mutation: only the reading of a session is limited in time.
GiveUpInSession(p) ==
    /\ pc[p] = "receive"
    /\ toMiner[p] = <<>>
    /\ \/ link[p] = "lost" /\ UNCHANGED faults
       \/ link[p] = "up" /\ Fault
    /\ Disconnect(p)
    /\ UNCHANGED <<sock, good, bad, countVars, idCurrent, working, shares>>

\* curl_easy_perform fails, or the login cannot be sent or is not answered in
\* time, or a pool is silent for too long.
GiveUp(p) ==
    /\ \/ pc[p] = "connect" /\ Fault
       \/ pc[p] \in {"login", "await", "receive"} /\ link[p] = "lost" /\ toMiner[p] = <<>>
          /\ UNCHANGED faults
       \/ pc[p] \in {"await", "receive"} /\ link[p] = "up" /\ toMiner[p] = <<>> /\ Fault
    /\ Disconnect(p)
    /\ UNCHANGED <<sock, good, bad, countVars, idCurrent, working, shares>>

\* Mutation: it is not asked whether the socket takes the line.
SentBlindly(s, line) ==
    /\ s # None
    /\ file[s] # None
    /\ \/ link[file[s]] = "up"
          /\ toPool' = [toPool EXCEPT ![file[s]] = Append(@, line)]
       \/ link[file[s]] = "lost" /\ UNCHANGED toPool

\* send_line to the descriptor s: the line goes to whoever has it now.
Sent(s, line) ==
    /\ s # None
    /\ file[s] # None
    /\ \/ link[file[s]] = "up" /\ Len(toPool[file[s]]) < MaxWire
          /\ toPool' = [toPool EXCEPT ![file[s]] = Append(@, line)]
       \/ link[file[s]] = "lost" /\ UNCHANGED toPool

SendLogin(p) ==
    /\ pc[p] = "login"
    /\ Sent(sock[p], [kind |-> "login"])
    /\ Goto(p, "await")
    /\ UNCHANGED <<sock, file, link, toMiner, poolVars, countVars, idCurrent,
                   working, hand, shares, faults>>

ReadLine(p) ==
    /\ toMiner[p] # <<>>
    /\ toMiner' = [toMiner EXCEPT ![p] = Tail(@)]

\* A job is decoded before it is known whether the login succeeds.
JobWhileAwaiting(p) ==
    /\ pc[p] = "await"
    /\ ReadLine(p)
    /\ Head(toMiner[p]) = Job(TRUE)
    /\ working' = [working EXCEPT ![p] = TRUE]
    /\ UNCHANGED <<threadVars, link, toPool, poolVars, countVars, idCurrent,
                   hand, shares, faults>>

\* Mutation: the session id is stored only when the status is found to be OK.
LoginSucceedsIfOK(p, line) ==
    /\ line.kind = "answer"
    /\ line.result
    /\ line.error # "text"
    /\ idCurrent' = [idCurrent EXCEPT ![p] = @ \/ (line.hasId /\ line.status = "OK")]
    /\ working' = [working EXCEPT ![p] = @ \/ line.hasId]

\* Mutation: an error in the answer is overlooked.
LoginSucceedsAnyhow(p, line) ==
    /\ line.kind = "answer"
    /\ idCurrent' = [idCurrent EXCEPT ![p] = @ \/ line.hasId]
    /\ working' = [working EXCEPT ![p] = @ \/ line.hasId]

\* The first line that is not a job is taken for the answer.  The id in it is
\* stored whatever the status, and the job in it is decoded.
LoginSucceeds(p, line) ==
    /\ line.kind = "answer"
    /\ line.result
    /\ line.error # "text"
    /\ idCurrent' = [idCurrent EXCEPT ![p] = @ \/ line.hasId]
    /\ working' = [working EXCEPT ![p] = @ \/ line.hasId]

\* No result, or an error; so is a job that cannot be decoded.
LoginFails(line) ==
    line.kind = "answer" => ~line.result \/ line.error = "text"

LoginAnswered(p) ==
    /\ pc[p] = "await"
    /\ toMiner[p] # <<>>
    /\ Head(toMiner[p]) # Job(TRUE)
    /\ \/ /\ LoginSucceeds(p, Head(toMiner[p]))
          /\ ReadLine(p)
          /\ Goto(p, "receive")
          /\ UNCHANGED <<file, link, toPool, known, hand>>
       \/ /\ LoginFails(Head(toMiner[p]))
          /\ Disconnect(p)
          /\ UNCHANGED <<idCurrent, working>>
    /\ UNCHANGED <<sock, good, bad, countVars, shares, faults>>

\* Nothing came for 90 seconds, in which the last keepalive was answered: one
\* is sent, or fails to be, which nobody looks at.
SendKeepalive(p) ==
    /\ pc[p] = "receive"
    /\ p \in Keepalive
    /\ toMiner[p] = <<>>
    /\ [kind |-> "keepalived"] \notin ToSet(toPool[p])
    /\ Sent(sock[p], [kind |-> "keepalived"])
    /\ UNCHANGED <<threadVars, link, toMiner, poolVars, countVars, idCurrent,
                   working, hand, shares, faults>>

\* Mutation: the answer to a keepalive is taken for the answer to a share.
CountsAll(line) == line.kind = "answer"

\* stratum_handle_response counts every answer but that to a keepalive.
Counts(line) == line.kind = "answer" /\ line.status # "KEEPALIVED"

\* OK or no status, and an error that is there and null.
Valid(line) == line.status \in {"OK", "none"} /\ line.error = "null"

\* A line of the session; a bad job is tried as an answer and dropped.
\* accepted_count++ and rejected_count++ are each a load and a store, for the
\* pools hold different locks.
Receive(p) ==
    /\ pc[p] = "receive"
    /\ ReadLine(p)
    /\ LET line == Head(toMiner[p]) IN
          /\ working' = [working EXCEPT ![p] = @ \/ line = Job(TRUE)]
          /\ IF Counts(line)
             THEN /\ answer' = [answer EXCEPT ![p] =
                       [valid |-> Valid(line),
                        old |-> IF Valid(line) THEN accepted ELSE rejected]]
                  /\ Goto(p, "count")
             ELSE UNCHANGED <<pc, answer>>
    /\ UNCHANGED <<sock, file, link, toPool, poolVars, idCurrent, accepted,
                   rejected, hand, shares, faults>>

ShareResult(p) ==
    /\ pc[p] = "count"
    /\ IF answer[p].valid
       THEN accepted' = answer[p].old + 1 /\ UNCHANGED rejected
       ELSE rejected' = answer[p].old + 1 /\ UNCHANGED accepted
    /\ answer' = [answer EXCEPT ![p] = None]
    /\ Goto(p, "receive")
    /\ UNCHANGED <<sock, file, netVars, poolVars, idCurrent, working, hand,
                   shares, faults>>

-----------------------------------------------------------------------------
(* submit_upstream_work in the workio thread.                              *)

\* A share for pool p that is to be written down.
Fresh(p) == [pool |-> p, formed |-> FALSE, current |-> FALSE, steady |-> FALSE]

\* A share for pool p is taken in hand.
TakeShare(p) ==
    /\ hand = None
    /\ shares < MaxShares
    /\ working[p]
    /\ shares' = shares + 1
    /\ hand' = Fresh(p)
    /\ UNCHANGED <<threadVars, netVars, poolVars, countVars, idCurrent, working,
                   faults>>

\* The request is printed, with the session id of the moment.
FormShare ==
    /\ hand # None
    /\ ~hand.formed
    /\ hand' = [hand EXCEPT !.formed = TRUE,
                            !.current = idCurrent[hand.pool],
                            !.steady = pc[hand.pool] \in InSession]
    /\ UNCHANGED <<threadVars, netVars, poolVars, countVars, idCurrent, working,
                   shares, faults>>

\* It is sent to the socket of the moment and not thought of again ...
SendShare ==
    /\ hand # None
    /\ hand.formed
    /\ Sent(sock[hand.pool], [kind |-> "submit", from |-> hand.pool,
                              orphan |-> pc[hand.pool] = "down",
                              current |-> hand.current, steady |-> hand.steady])
    /\ hand' = None
    /\ UNCHANGED <<threadVars, link, toMiner, poolVars, countVars, idCurrent,
                   working, shares, faults>>

\* ... or cannot be, and is printed anew after a pause.
SendShareFails ==
    /\ hand # None
    /\ hand.formed
    /\ LET p == IF sock[hand.pool] = None THEN None ELSE file[sock[hand.pool]] IN
          p # None => \/ link[p] \in {"opening", "lost"}
                      \/ Len(toPool[p]) = MaxWire
    /\ hand' = Fresh(hand.pool)
    /\ UNCHANGED <<threadVars, netVars, poolVars, countVars, idCurrent, working,
                   shares, faults>>

-----------------------------------------------------------------------------
(* The pools and the network.                                              *)

\* A pool gives a new session id with a welcome; every other id is old then.
Welcomes(p) ==
    /\ known' = [known EXCEPT ![p] = TRUE]
    /\ idCurrent' = [idCurrent EXCEPT ![p] = FALSE]
    /\ hand' = IF hand # None /\ hand.pool = p
               THEN [hand EXCEPT !.current = FALSE] ELSE hand

Replies(p, line) == toMiner' = [toMiner EXCEPT ![p] = Append(@, line)]

\* A pool may send a job ahead of its welcome, even one that cannot be decoded.
Greetings == {<<Welcome>>, <<Job(TRUE), WelcomeBut>>, <<Job(FALSE), Welcome>>}

\* Pool p answers a line: it refuses whoever is not logged in, and shares that
\* are another's.
PoolAnswers(p) ==
    /\ link[p] = "up"
    /\ toPool[p] # <<>>
    /\ Len(toMiner[p]) < MaxWire
    /\ toPool' = [toPool EXCEPT ![p] = Tail(@)]
    /\ LET m == Head(toPool[p]) IN
          \/ /\ m.kind = "login"
             /\ \E lines \in Greetings :
                   /\ Len(toMiner[p]) + Len(lines) <= MaxWire
                   /\ toMiner' = [toMiner EXCEPT ![p] = @ \o lines]
                   /\ IF Job(FALSE) \in ToSet(lines) THEN Fault ELSE UNCHANGED faults
             /\ Welcomes(p)
             /\ UNCHANGED <<good, bad>>
          \/ /\ m.kind = "login"
             /\ Fault
             /\ Replies(p, Refuses)
             /\ UNCHANGED <<known, idCurrent, hand, good, bad>>
          \/ /\ m.kind = "submit"
             /\ known[p]
             /\ m.from = p
             /\ Replies(p, Accepts)
             /\ good' = good + 1
             /\ UNCHANGED <<known, idCurrent, hand, bad, faults>>
          \/ /\ m.kind = "submit"
             /\ \E line \in {Refuses} \cup (IF known[p] THEN {AcceptsBare} ELSE {}) :
                   Replies(p, line)
             /\ bad' = bad + 1
             /\ UNCHANGED <<known, idCurrent, hand, good, faults>>
          \/ /\ m.kind = "keepalived"
             /\ Replies(p, Alive)
             /\ UNCHANGED <<known, idCurrent, hand, good, bad, faults>>
    /\ UNCHANGED <<threadVars, link, countVars, working, shares>>

\* A new job; in a session one that cannot be decoded would do no more.  Bound:
\* not before all that was sent is read.
PoolSendsJob(p) ==
    /\ link[p] = "up"
    /\ known[p]
    /\ toMiner[p] = <<>>
    /\ Replies(p, Job(TRUE))
    /\ UNCHANGED <<threadVars, link, toPool, poolVars, countVars, idCurrent,
                   working, hand, shares, faults>>

\* The connection is lost: requests in flight go with it, answers may.
LoseLink(p) ==
    /\ link[p] = "up"
    /\ Fault
    /\ link' = [link EXCEPT ![p] = "lost"]
    /\ toPool' = [toPool EXCEPT ![p] = <<>>]
    /\ toMiner' \in {toMiner, [toMiner EXCEPT ![p] = <<>>]}
    /\ known' = [known EXCEPT ![p] = FALSE]
    /\ UNCHANGED <<threadVars, good, bad, countVars, idCurrent, working, hand,
                   shares>>

-----------------------------------------------------------------------------
ThreadStep(p) ==
    \/ Connect(p) \/ Connected(p) \/ GiveUp(p) \/ SendLogin(p)
    \/ JobWhileAwaiting(p) \/ LoginAnswered(p)
    \/ SendKeepalive(p) \/ Receive(p) \/ ShareResult(p)

SubmitStep == FormShare \/ SendShare \/ SendShareFails

Next ==
    \/ \E p \in Pools : \/ ThreadStep(p) \/ TakeShare(p)
                        \/ PoolAnswers(p) \/ PoolSendsJob(p) \/ LoseLink(p)
    \/ SubmitStep

Spec == Init /\ [][Next]_vars

\* The threads run and the pools answer.  Faults are at their bound some time,
\* so what is shown under fairness is recovery after the last of them.
FairSpec ==
    /\ Spec
    /\ \A p \in Pools : WF_vars(ThreadStep(p)) /\ WF_vars(PoolAnswers(p))

-----------------------------------------------------------------------------
\* A share reaches the other pool only if its own thread was disconnected at
\* the time: sctx->sock is stale then, and the kernel may have given the
\* number away.  As long as the thread holds a connection, in whatever state,
\* its shares go there.
OwnPoolWhileConnected ==
    \A p \in Pools : \A i \in DOMAIN toPool[p] :
        LET m == toPool[p][i] IN
        m.kind = "submit" /\ m.from # p => m.orphan

\* A share printed and sent in one session carries that session's id, though
\* the id is read and written without a lock.
SteadyShareHasItsId ==
    \A p \in Pools : \A i \in DOMAIN toPool[p] :
        toPool[p][i].kind = "submit" /\ toPool[p][i].steady => toPool[p][i].current

\* The thread takes itself to be in a session only when the pool does: no
\* answer to a stray share is ever taken for a welcome.
SessionIsMutual ==
    \A p \in Pools : pc[p] \in InSession /\ link[p] = "up" => known[p]

\* The counters never exceed what the pools have answered: updates are lost
\* between the two threads, never invented.
NeverOvercounted == accepted <= good /\ rejected <= bad

\* After the last fault every thread gets back into a session, stray shares
\* that spoil a login and shares for the other pool notwithstanding.
SessionRegained == \A p \in Pools : <>[](pc[p] \in InSession)
=============================================================================
