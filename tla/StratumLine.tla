----------------------------- MODULE StratumLine -----------------------------
(***************************************************************************)
(* One connection of util.c seen as two streams of bytes: how send_line    *)
(* puts lines on it, called by the stratum thread and by the workio        *)
(* thread, and how stratum_recv_line cuts lines out of what arrives.       *)
(* Module StratumSession has whole lines on its wires; this one shows when *)
(* that is so.                                                             *)
(*                                                                         *)
(* The text of a line is a few pieces nobody looks into; what matters is   *)
(* where a line ends.  Lines are numbered in the order they are written.   *)
(***************************************************************************)
EXTENDS Naturals, Sequences, FiniteSets, SequencesExt, FiniteSetsExt

CONSTANTS
    Pieces,       \* into which the text of a line may be cut
    RBufSize,     \* RBUFSIZE: sockbuf grows by so much at a time
    Chunk,        \* RECVSIZE: the most one recv takes
    MaxSends,     \* bound: calls of stratum_send_line on one connection
    MaxLines,     \* bound: lines a pool writes on it
    MaxBlanks,    \* bound: empty lines among them
    Stratum, Workio, Nobody,  \* the two threads, and neither
    Newline

ASSUME LineAssumption ==
    /\ {Pieces, RBufSize, Chunk} \subseteq Nat \ {0}
    /\ {MaxSends, MaxLines, MaxBlanks} \subseteq Nat
    /\ RBufSize > 1
    /\ Cardinality({Stratum, Workio, Nobody}) = 3
    /\ Newline \notin Nat \X Nat

Writers == {Stratum, Workio}

VARIABLES
    pc,           \* where the stratum thread is
    lock,         \* sock_lock
    rest,         \* rest[t]: the line in send_line of thread t, and what is
                  \* still to be sent of it
    stream,       \* what the pool has been sent on this connection
    calls,        \* calls of stratum_send_line so far; numbers the lines
    reported,     \* the lines it returned true for
    broken,       \* calls that failed after a part of the line was sent
    wire,         \* what the pool has written and recv not taken
    sockbuf,      \* sctx->sockbuf as a C string
    size,         \* sctx->sockbuf_size
    lines, blanks,  \* lines and empty lines the pool has written
    stalled,      \* a line took longer than its 60 seconds
    returned      \* what stratum_recv_line has returned

sendVars == <<lock, rest, stream, calls, reported, broken>>
readVars == <<sockbuf, size, stalled, returned>>
poolVars == <<wire, lines, blanks>>
vars == <<pc, sendVars, readVars, poolVars>>

Byte == ((1..(MaxSends + MaxLines)) \X (1..Pieces)) \cup {Newline}
Text(n) == [k \in 1..Pieces |-> <<n, k>>]
Line(n) == Append(Text(n), Newline)
Nothing == [no |-> 0, text |-> <<>>]

TypeOK ==
    /\ pc \in {"idle", "recv", "cut", "send", "close"}
    /\ lock \in Writers \cup {Nobody}
    /\ rest \in [Writers -> [no : 0..MaxSends, text : Seq(Byte)]]
    /\ stream \in Seq(Byte)
    /\ calls \in 0..MaxSends
    /\ reported \subseteq 1..calls
    /\ broken \in 0..calls
    /\ wire \in Seq(Byte)
    /\ sockbuf \in Seq(Byte)
    /\ size \in Nat /\ size % RBufSize = 0
    /\ lines \in 0..MaxLines
    /\ blanks \in 0..MaxBlanks
    /\ stalled \in BOOLEAN
    /\ returned \in Seq(Seq(Byte))

Init ==
    /\ stream = <<>> /\ calls = 0 /\ reported = {} /\ broken = 0
    /\ wire = <<>> /\ lines = 0 /\ blanks = 0
    /\ sockbuf = <<>> /\ stalled = FALSE /\ returned = <<>>
    /\ pc = "idle"
    /\ lock = Nobody
    /\ rest = [t \in Writers |-> Nothing]
    /\ size = RBufSize

-----------------------------------------------------------------------------
(* stratum_send_line, called by thread t.                                  *)

\* Mutation: sock_lock is not taken.
LockIgnored(t) == UNCHANGED lock

\* pthread_mutex_lock(&sctx->sock_lock)
LockSocket(t) == lock = Nobody /\ lock' = t

\* The stratum thread writes a login or a keepalive between two lines it reads.
BeginSend(t) ==
    /\ t = Stratum => pc = "idle"
    /\ rest[t] = Nothing
    /\ calls < MaxSends
    /\ LockSocket(t)
    /\ calls' = calls + 1
    /\ rest' = [rest EXCEPT ![t] = [no |-> calls + 1, text |-> Line(calls + 1)]]
    /\ pc' = IF t = Stratum THEN "send" ELSE pc
    /\ UNCHANGED <<stream, reported, broken, readVars, poolVars>>

EndSend(t) ==
    /\ lock' = Nobody
    /\ rest' = [rest EXCEPT ![t] = Nothing]
    /\ pc' = IF t = Stratum THEN "idle" ELSE pc

\* send takes some of what is left, or all of it: then true is returned.
Send(t) ==
    /\ rest[t] # Nothing
    /\ LET text == rest[t].text IN \E n \in 1..Len(text) :
          /\ stream' = stream \o SubSeq(text, 1, n)
          /\ IF n < Len(text)
             THEN /\ rest' = [rest EXCEPT ![t].text = SubSeq(text, n + 1, Len(text))]
                  /\ UNCHANGED <<pc, lock, reported>>
             ELSE /\ EndSend(t)
                  /\ reported' = reported \cup {rest[t].no}
    /\ UNCHANGED <<calls, broken, readVars, poolVars>>

\* The socket takes no more at once: select, which does not wait, says so, and
\* false is returned whatever was sent before.
SendFails(t) ==
    /\ rest[t] # Nothing
    /\ broken' = IF Len(rest[t].text) <= Pieces THEN broken + 1 ELSE broken
    /\ EndSend(t)
    /\ UNCHANGED <<stream, calls, reported, readVars, poolVars>>

-----------------------------------------------------------------------------
(* stratum_recv_line, in the stratum thread.                               *)

Whole(text) == Newline \in ToSet(text)

BeginReceive ==
    /\ pc = "idle"
    /\ pc' = IF Whole(sockbuf) THEN "cut" ELSE "recv"
    /\ UNCHANGED <<sendVars, readVars, poolVars>>

\* Mutation: the buffer is enlarged only when the string does not fit.
AppendsTight(text) ==
    LET snew == Len(sockbuf) + Len(text) + 1 IN
    /\ sockbuf' = sockbuf \o text
    /\ size' = IF snew > size THEN snew + (RBufSize - (snew % RBufSize)) ELSE size

\* Mutation: the buffer is enlarged to what is needed.
AppendsExact(text) ==
    LET snew == Len(sockbuf) + Len(text) + 1 IN
    /\ sockbuf' = sockbuf \o text
    /\ size' = IF snew >= size THEN snew + 1 ELSE size

\* stratum_buffer_append
Appends(text) ==
    LET snew == Len(sockbuf) + Len(text) + 1 IN
    /\ sockbuf' = sockbuf \o text
    /\ size' = IF snew >= size THEN snew + (RBufSize - (snew % RBufSize)) ELSE size

\* recv takes what has arrived, as often as the line is not whole and 60 seconds
\* are not over; if they are, a part of a line will have to do.
Recv ==
    /\ pc = "recv"
    /\ wire # <<>>
    /\ \E n \in 1..Min({Chunk, Len(wire)}) :
          /\ Appends(SubSeq(wire, 1, n))
          /\ wire' = SubSeq(wire, n + 1, Len(wire))
    /\ IF Whole(sockbuf')
       THEN pc' = "cut" /\ UNCHANGED stalled
       ELSE \/ UNCHANGED <<pc, stalled>>
            \/ pc' = "cut" /\ stalled' = TRUE
    /\ UNCHANGED <<sendVars, returned, lines, blanks>>

\* Nothing comes in time, or the connection is at its end: NULL is returned.
RecvFails ==
    /\ pc = "recv"
    /\ wire = <<>>
    /\ pc' = "close"
    /\ UNCHANGED <<sendVars, readVars, poolVars>>

\* The newlines strtok skips, and the token behind them.
Leading == Cardinality({i \in DOMAIN sockbuf : \A j \in 1..i : sockbuf[j] = Newline})
Token ==
    LET behind == SubSeq(sockbuf, Leading + 1, Len(sockbuf))
    IN IF Whole(behind) THEN SubSeq(behind, 1, SelectInSeq(behind, LAMBDA c : c = Newline) - 1)
       ELSE behind

\* Mutation: a buffer that holds more than the token is emptied.
BehindDropped == <<>>

\* memmove by the length of the token and one for its newline, which is not all
\* that strtok has gone past.  strtok has put a NUL behind the token, and there
\* the string ends if it is not passed over.
Behind ==
    IF Len(sockbuf) <= Len(Token) + 1 THEN <<>>
    ELSE SubSeq(sockbuf, Len(Token) + 2,
                IF Leading = 0 THEN Len(sockbuf) ELSE Leading + Len(Token))

\* The first line is returned; there may be none between the newlines.
Cut ==
    /\ pc = "cut"
    /\ IF Token = <<>>
       THEN pc' = "close" /\ UNCHANGED <<returned, sockbuf>>
       ELSE /\ returned' = Append(returned, Token)
            /\ sockbuf' = Behind
            /\ pc' = "idle"
    /\ UNCHANGED <<sendVars, size, stalled, poolVars>>

\* stratum_disconnect, which waits for a line being sent, and stratum_connect.
Reconnect ==
    /\ pc = "close"
    /\ lock = Nobody
    /\ pc' = "idle"
    /\ stream' = <<>> /\ calls' = 0 /\ reported' = {} /\ broken' = 0
    /\ wire' = <<>> /\ lines' = 0 /\ blanks' = 0
    /\ sockbuf' = <<>> /\ stalled' = FALSE /\ returned' = <<>>
    /\ UNCHANGED <<lock, rest, size>>

-----------------------------------------------------------------------------
(* The pool, external.                                                     *)

PoolWrites ==
    /\ lines < MaxLines
    /\ wire' = wire \o Line(MaxSends + lines + 1)
    /\ lines' = lines + 1
    /\ UNCHANGED <<pc, sendVars, readVars, blanks>>

\* An empty line, as the miner sends one itself: the text of a keepalive ends
\* in a newline already.
PoolWritesBlank ==
    /\ blanks < MaxBlanks
    /\ wire' = Append(wire, Newline)
    /\ blanks' = blanks + 1
    /\ UNCHANGED <<pc, sendVars, readVars, lines>>

Next ==
    \/ \E t \in Writers : BeginSend(t) \/ Send(t) \/ SendFails(t)
    \/ BeginReceive \/ Recv \/ RecvFails \/ Cut \/ Reconnect
    \/ PoolWrites \/ PoolWritesBlank

Spec == Init /\ [][Next]_vars

-----------------------------------------------------------------------------
\* The lines in a stream whose last line is whole.
Split(s) ==
    LET ends == {0} \cup {i \in DOMAIN s : s[i] = Newline} IN
    {SubSeq(s, i + 1, Min({j \in ends : j > i}) - 1) :
        i \in {e \in ends : \E j \in ends : j > e}}

\* A line that was reported sent reaches the pool as a line, but for one after
\* each that broke off half-way: its beginning stays on the connection and
\* spoils the next line, which may well be the same share tried again.
SentLinesArrive ==
    Cardinality({n \in reported : Text(n) \notin Split(stream)}) <= broken

\* What the pool has written, as far as it is not empty lines.
Written == FlattenSeq([i \in 1..lines |-> Line(MaxSends + i)])
Got == FlattenSeq([i \in DOMAIN returned |-> Append(returned[i], Newline)])

\* Without empty lines every line is returned as it was written, in order, and
\* none is lost, however recv cuts them.
LinesIntact == blanks = 0 => Got \o sockbuf \o wire = Written

\* After one empty line a line may be lost or returned in two, for strstr finds
\* the newline that strtok skips; but nothing is returned twice or too early.
\* (With two, or with one and a line that takes a minute, the end of a line is.)
NothingTwice ==
    LET text == FlattenSeq(returned)
        Earlier(c, d) == c[1] < d[1] \/ (c[1] = d[1] /\ c[2] < d[2])
    IN blanks <= 1 => \A i, j \in DOMAIN text : i < j => Earlier(text[i], text[j])

\* The lines returned are the pool's, as long as none takes a minute.
LinesKept == ~stalled => LinesIntact /\ NothingTwice

\* memmove moves a byte more than the string and its NUL: it is still in the
\* buffer, for that is never as small as it might be.
MoveStaysInside == Len(sockbuf) + 2 <= size
=============================================================================
