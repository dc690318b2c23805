----------------------------- MODULE FifoQueue -----------------------------
(***************************************************************************)
(* What a user of the tq_* functions of util.c relies on: a first-in       *)
(* first-out list that can be closed ("frozen") against further pushes.    *)
(* No mutex, no condition variable, no waiting: a pop that returns NULL    *)
(* without removing an entry is a stuttering step here.                    *)
(***************************************************************************)
EXTENDS Sequences

CONSTANT Data          \* what may be pushed, the NULL pointer included

VARIABLES contents,    \* the entries, oldest first
          closed       \* whether pushes are refused

vars == <<contents, closed>>

Init == /\ contents = <<>>
        /\ closed = FALSE

\* An entry joins at the tail, and only while the queue is open.
Put(d) == /\ ~closed
          /\ contents' = Append(contents, d)
          /\ UNCHANGED closed

\* The oldest entry leaves, whether or not the queue is closed.
Take == /\ contents # <<>>
        /\ contents' = Tail(contents)
        /\ UNCHANGED closed

\* Freeze or thaw.
SetClosed == /\ closed' \in BOOLEAN
             /\ UNCHANGED contents

Next == (\E d \in Data : Put(d)) \/ Take \/ SetClosed

Spec == Init /\ [][Next]_vars
=============================================================================
