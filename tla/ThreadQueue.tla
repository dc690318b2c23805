---------------------------- MODULE ThreadQueue ----------------------------
(***************************************************************************)
(* The thread queue of util.c: tq_push, tq_pop, tq_freeze, tq_thaw over a  *)
(* list, a mutex and one condition variable.                               *)
(*                                                                         *)
(* Every function holds the mutex from its first to its last access, so    *)
(* its critical section is one action.  The exception is tq_pop, which     *)
(* gives the mutex up inside pthread_cond_wait and looks at the list ONCE  *)
(* more when it gets it back: a pop is PopNow, or PopWait followed later   *)
(* by PopResume (or by PopExpired when the wait had a time limit).         *)
(***************************************************************************)
EXTENDS Naturals, Sequences, FiniteSets

CONSTANTS Consumers,      \* threads that call tq_pop
          TimedConsumers, \* those that pass an abstime (none in xmrMiner.c)
          Items,          \* non-NULL pointers that are pushed
          NULL,           \* the NULL pointer: pushed as a poison pill,
                          \* and the answer of a pop that found nothing
          MaxPushes,      \* bound on accepted pushes
          Spurious        \* whether pthread_cond_wait may wake up unsignalled

ASSUME QueueAssumption ==
    /\ IsFiniteSet(Consumers)
    /\ TimedConsumers \subseteq Consumers
    /\ NULL \notin Items
    /\ MaxPushes \in Nat
    /\ Spurious \in BOOLEAN

Data == Items \cup {NULL}

VARIABLES list,       \* tq->q
          frozen,     \* tq->frozen
          pc,         \* where each consumer is in tq_pop
          got,        \* what each consumer's last completed pop returned
          accepted,   \* history: every datum a push appended
          delivered   \* history: every entry a pop removed

vars == <<list, frozen, pc, got, accepted, delivered>>

Idle == "idle"            \* not inside tq_pop
Waiting == "waiting"      \* blocked in pthread_cond_wait
Woken == "woken"          \* signalled, about to take the mutex again
Expired == "expired"      \* timed out, about to take the mutex again

In(state) == {c \in Consumers : pc[c] = state}

TypeOK ==
    /\ list \in Seq(Data)
    /\ frozen \in BOOLEAN
    /\ pc \in [Consumers -> {Idle, Waiting, Woken, Expired}]
    /\ got \in [Consumers -> Data \cup {Idle}]
    /\ accepted \in Seq(Data)
    /\ delivered \in Seq(Data)

\* tq_new
Init ==
    /\ list = <<>>
    /\ frozen = FALSE
    /\ pc = [c \in Consumers |-> Idle]
    /\ got = [c \in Consumers |-> Idle]
    /\ accepted = <<>>
    /\ delivered = <<>>

\* Mutation: the signal is forgotten.
SignalNobody == UNCHANGED pc

\* pthread_cond_signal: one waiter, if there is one.
Signal ==
    IF In(Waiting) = {} THEN UNCHANGED pc
    ELSE \E c \in In(Waiting) : pc' = [pc EXCEPT ![c] = Woken]

\* Mutation: a signal only when the list was empty.
PushSignalIfEmpty(d) ==
    /\ ~frozen
    /\ Len(accepted) < MaxPushes
    /\ list' = Append(list, d)
    /\ accepted' = Append(accepted, d)
    /\ IF list = <<>> THEN Signal ELSE UNCHANGED pc
    /\ UNCHANGED <<frozen, got, delivered>>

\* Mutation: the frozen flag is not looked at.
PushAlways(d) ==
    /\ Len(accepted) < MaxPushes
    /\ list' = Append(list, d)
    /\ accepted' = Append(accepted, d)
    /\ Signal
    /\ UNCHANGED <<frozen, got, delivered>>

\* tq_push on an open queue.
Push(d) ==
    /\ ~frozen
    /\ Len(accepted) < MaxPushes
    /\ list' = Append(list, d)
    /\ accepted' = Append(accepted, d)
    /\ Signal
    /\ UNCHANGED <<frozen, got, delivered>>

\* tq_push on a frozen queue: refused, and the condition is signalled anyway.
PushRefused ==
    /\ frozen
    /\ Signal
    /\ UNCHANGED <<list, frozen, got, accepted, delivered>>

\* tq_freezethaw
FreezeThaw(b) ==
    /\ frozen' = b
    /\ Signal
    /\ UNCHANGED <<list, got, accepted, delivered>>

\* Mutation: the youngest entry is popped.
TakeLast(c) ==
    LET last == Len(list) IN
    /\ list # <<>>
    /\ list' = SubSeq(list, 1, last - 1)
    /\ delivered' = Append(delivered, list[last])
    /\ got' = [got EXCEPT ![c] = list[last]]
    /\ pc' = [pc EXCEPT ![c] = Idle]
    /\ UNCHANGED <<frozen, accepted>>

\* The label pop: of tq_pop.
TakeHead(c) ==
    /\ list # <<>>
    /\ list' = Tail(list)
    /\ delivered' = Append(delivered, Head(list))
    /\ got' = [got EXCEPT ![c] = Head(list)]
    /\ pc' = [pc EXCEPT ![c] = Idle]
    /\ UNCHANGED <<frozen, accepted>>

\* Mutation: rval starts uninitialised.
ReturnGarbage(c) ==
    /\ got' = [got EXCEPT ![c] = "garbage"]
    /\ pc' = [pc EXCEPT ![c] = Idle]
    /\ UNCHANGED <<list, frozen, accepted, delivered>>

\* The label out: of tq_pop with rval still NULL.
ReturnNull(c) ==
    /\ got' = [got EXCEPT ![c] = NULL]
    /\ pc' = [pc EXCEPT ![c] = Idle]
    /\ UNCHANGED <<list, frozen, accepted, delivered>>

PopNow(c) ==
    /\ pc[c] = Idle
    /\ TakeHead(c)

PopWait(c) ==
    /\ pc[c] = Idle
    /\ list = <<>>
    /\ pc' = [pc EXCEPT ![c] = Waiting]
    /\ UNCHANGED <<list, frozen, got, accepted, delivered>>

\* Back from the wait: the list is looked at once, there is no loop.
PopResume(c) ==
    /\ pc[c] = Woken
    /\ \/ TakeHead(c)
       \/ list = <<>> /\ ReturnNull(c)

\* pthread_cond_timedwait gives up ...
Timeout(c) ==
    /\ c \in TimedConsumers
    /\ pc[c] = Waiting
    /\ pc' = [pc EXCEPT ![c] = Expired]
    /\ UNCHANGED <<list, frozen, got, accepted, delivered>>

\* ... and tq_pop returns NULL without looking at the list.
PopExpired(c) ==
    /\ pc[c] = Expired
    /\ ReturnNull(c)

SpuriousWake(c) ==
    /\ Spurious
    /\ pc[c] = Waiting
    /\ pc' = [pc EXCEPT ![c] = Woken]
    /\ UNCHANGED <<list, frozen, got, accepted, delivered>>

\* Steps a consumer that keeps popping takes without anyone's help.
PopStep(c) == PopNow(c) \/ PopWait(c) \/ PopResume(c) \/ PopExpired(c)

Next ==
    \/ \E d \in Data : Push(d)
    \/ PushRefused
    \/ \E b \in BOOLEAN : FreezeThaw(b)
    \/ \E c \in Consumers : PopStep(c) \/ Timeout(c) \/ SpuriousWake(c)

Spec == Init /\ [][Next]_vars

\* Consumers keep calling tq_pop, as workio_thread does, and get scheduled.
FairSpec == Spec /\ \A c \in Consumers : WF_vars(PopStep(c))

-----------------------------------------------------------------------------
\* Entries leave in the order in which they were accepted, each exactly once,
\* and none is lost inside the queue (list_add_tail in tq_push, q.next in
\* tq_pop).
Fifo == accepted = delivered \o list

\* No lost wake-up: while somebody sleeps in the condition wait, every entry
\* of the list has a consumer of its own that was signalled and is on its way
\* back to the mutex (one pthread_cond_signal per push is enough, whatever
\* pops barge in between).
NoLostWakeup ==
    In(Waiting) # {} => Len(list) <= Cardinality(In(Woken))

\* Every accepted entry is handed to a consumer in the end, frozen or not.
EveryEntryDelivered ==
    \A n \in 1..MaxPushes : Len(accepted) >= n ~> Len(delivered) >= n

\* The queue its users see.
Abstract == INSTANCE FifoQueue WITH contents <- list, closed <- frozen

ImplementsFifoQueue == Abstract!Spec
=============================================================================
