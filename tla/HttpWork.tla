------------------------------ MODULE HttpWork ------------------------------
(***************************************************************************)
(* How a miner gets work when the user's pool has an http:// URL, which is *)
(* also what a URL without a scheme becomes: a request on workio's queue,  *)
(* a call over HTTP, an answer on the miner's own queue.  The queues are   *)
(* those of module ThreadQueue, here with the one entry they can hold: a   *)
(* miner waits for its answer with g_work_lock2 in hand.                   *)
(*                                                                         *)
(* Every call of json_rpc2_call gives up when there is no session id.  The *)
(* id comes from a login, and the one at the start of workio_thread is cut *)
(* out of the build with #if 0; the other is made when a call, which needs *)
(* the id, is answered with "Unauthenticated".                             *)
(***************************************************************************)
EXTENDS Naturals

CONSTANTS
    Miners,
    Retries,      \* opt_retries, a number, or Forever if negative
    Forever,
    Nobody        \* neither of the miners

VARIABLES
    pc,           \* pc[m]: where miner m is
    lock,         \* g_work_lock2[0]
    request,      \* the miner whose WC_GET_WORK is queued or in hand
    workio,       \* where workio_thread is
    recur,        \* calls json_rpc2_call_recur has made for this one
    failures,     \* of the command in hand
    loggedIn      \* rpc2_id2[0] is not ""

vars == <<pc, lock, request, workio, recur, failures, loggedIn>>

\* What the pool may answer, by the members of the answer that are not null.
Answers == [result : BOOLEAN, error : {"null", "Unauthenticated", "other"}]

TypeOK ==
    /\ pc \in [Miners -> {"begin", "asking", "scan"}]
    /\ lock \in Miners \cup {Nobody}
    /\ request \in Miners \cup {Nobody}
    /\ workio \in {"pop", "call", "pause", "ended"}
    /\ recur \in 0..5
    /\ failures \in Nat
    /\ loggedIn \in BOOLEAN

\* rpc2_id2 is {"", ""}.
Init ==
    /\ pc = [m \in Miners |-> "begin"]
    /\ lock = Nobody
    /\ request = Nobody
    /\ workio = "pop"
    /\ recur = 0
    /\ failures = 0
    /\ loggedIn = FALSE

\* main returns when workio has ended, and the process is over.
Running == workio # "ended"

\* get_work: the miner takes the lock, asks, and waits.
AskForWork(m) ==
    /\ Running
    /\ pc[m] = "begin"
    /\ lock = Nobody
    /\ lock' = m
    /\ request' = m
    /\ pc' = [pc EXCEPT ![m] = "asking"]
    /\ UNCHANGED <<workio, recur, failures, loggedIn>>

\* Back to the top of the loop after a scan.
ScanDone(m) ==
    /\ Running
    /\ pc[m] = "scan"
    /\ pc' = [pc EXCEPT ![m] = "begin"]
    /\ UNCHANGED <<lock, request, workio, recur, failures, loggedIn>>

PopRequest ==
    /\ workio = "pop"
    /\ request # Nobody
    /\ workio' = "call"
    /\ recur' = 0
    /\ failures' = 0
    /\ UNCHANGED <<pc, lock, request, loggedIn>>

\* get_upstream_work has returned false: pause, or give up and end.
CallFails ==
    /\ failures' = IF Retries = Forever THEN failures ELSE failures + 1
    /\ workio' = IF Retries # Forever /\ failures' > Retries THEN "ended" ELSE "pause"
    /\ UNCHANGED <<pc, lock, request, loggedIn>>

\* "Tried to call rpc2 command before authentication"
CallRefused ==
    /\ workio = "call"
    /\ ~loggedIn \/ recur >= 5
    /\ CallFails
    /\ UNCHANGED recur

\* json_rpc_call returns the answer only if it has a result and no error.
Returned(answer) == answer.result /\ answer.error = "null"

\* The request is posted: the answer is NULL, or has work in it, which goes to
\* the miner that asked ...
CallAnswered(answer) ==
    /\ workio = "call"
    /\ loggedIn /\ recur < 5
    /\ IF Returned(answer)
       THEN /\ pc' = [pc EXCEPT ![request] = "scan"]
            /\ lock' = Nobody
            /\ request' = Nobody
            /\ workio' = "pop"
            /\ UNCHANGED <<failures, loggedIn>>
       ELSE CallFails
    /\ UNCHANGED recur

\* ... or asks for a login, rpc2_login, after which the call is made again.
CallLogsIn(answer) ==
    /\ workio = "call"
    /\ loggedIn /\ recur < 5
    /\ Returned(answer) /\ answer.error = "Unauthenticated"
    /\ loggedIn' = TRUE
    /\ recur' = recur + 1
    /\ UNCHANGED <<pc, lock, request, workio, failures>>

PauseOver ==
    /\ workio = "pause"
    /\ workio' = "call"
    /\ recur' = 0
    /\ UNCHANGED <<pc, lock, request, failures, loggedIn>>

WorkioStep ==
    \/ PopRequest \/ CallRefused \/ PauseOver
    \/ \E a \in Answers : CallAnswered(a) \/ CallLogsIn(a)

Over == ~Running /\ UNCHANGED vars

Next == (\E m \in Miners : AskForWork(m) \/ ScanDone(m)) \/ WorkioStep \/ Over

Spec == Init /\ [][Next]_vars

\* All threads run, the pool is there and answers each request in the end.
FairSpec ==
    /\ Spec
    /\ WF_vars(WorkioStep)
    /\ SF_vars(CallAnswered([result |-> TRUE, error |-> "null"]))
    /\ \A m \in Miners : WF_vars(AskForWork(m) \/ ScanDone(m))

-----------------------------------------------------------------------------
\* "wait for response, a unit of work": who asks for work gets it some time.
WorkArrives == \A m \in Miners : pc[m] = "asking" ~> pc[m] = "scan"
=============================================================================
