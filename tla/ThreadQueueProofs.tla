------------------------- MODULE ThreadQueueProofs -------------------------
(***************************************************************************)
(* Proofs about the thread queue for any number of consumers, any data and *)
(* any number of pushes: it is first-in first-out, it implements the       *)
(* abstract queue, and no wake-up is lost.                                 *)
(***************************************************************************)
EXTENDS ThreadQueue, FiniteSetTheorems, TLAPS

USE DEF Idle, Waiting, Woken, Expired

\* Appending to the tail of a list and removing from its head keep the
\* histories of both ends in step.
LEMMA AppendToList ==
    ASSUME TypeOK, NEW d \in Data
    PROVE  Append(delivered \o list, d) = delivered \o Append(list, d)
<1>1. delivered \in Seq(Data) /\ list \in Seq(Data)
  BY DEF TypeOK
<1> QED
  BY <1>1

LEMMA MoveHead ==
    ASSUME NEW S, NEW a \in Seq(S), NEW b \in Seq(S), b # <<>>
    PROVE  /\ Append(a, Head(b)) \o Tail(b) = a \o b
           /\ Head(b) \in S
           /\ Tail(b) \in Seq(S)
           /\ Len(Tail(b)) = Len(b) - 1
OBVIOUS

\* Type correctness: every variable of the queue stays in its range.
THEOREM TypeCorrect == Spec => []TypeOK
<1>1. Init => TypeOK
  <2>1. <<>> \in Seq(Data)
    OBVIOUS
  <2> QED
    BY <2>1 DEF Init, TypeOK
<1>2. TypeOK /\ [Next]_vars => TypeOK'
  <2> SUFFICES ASSUME TypeOK, [Next]_vars PROVE TypeOK'
    OBVIOUS
  <2> USE DEF TypeOK
  <2>1. ASSUME Signal PROVE pc' \in [Consumers -> {Idle, Waiting, Woken, Expired}]
    BY <2>1 DEF Signal, In
  <2>2. CASE \E d \in Data : Push(d)
    BY <2>1, <2>2 DEF Push
  <2>3. CASE PushRefused
    BY <2>1, <2>3 DEF PushRefused
  <2>4. CASE \E b \in BOOLEAN : FreezeThaw(b)
    BY <2>1, <2>4 DEF FreezeThaw
  <2>5. ASSUME NEW c \in Consumers, TakeHead(c) PROVE TypeOK'
    BY <2>5, MoveHead DEF TakeHead
  <2>6. ASSUME NEW c \in Consumers, ReturnNull(c) PROVE TypeOK'
    BY <2>6 DEF ReturnNull, Data
  <2>7. ASSUME NEW c \in Consumers, PopStep(c) PROVE TypeOK'
    <3>1. CASE PopNow(c)
      BY <2>5, <3>1 DEF PopNow
    <3>2. CASE PopWait(c)
      BY <3>2 DEF PopWait
    <3>3. CASE PopResume(c)
      BY <2>5, <2>6, <3>3 DEF PopResume
    <3>4. CASE PopExpired(c)
      BY <2>6, <3>4 DEF PopExpired
    <3> QED
      BY <2>7, <3>1, <3>2, <3>3, <3>4 DEF PopStep
  <2>8. ASSUME NEW c \in Consumers, Timeout(c) \/ SpuriousWake(c) PROVE TypeOK'
    BY <2>8 DEF Timeout, SpuriousWake
  <2>9. CASE UNCHANGED vars
    BY <2>9 DEF vars
  <2> QED
    BY <2>2, <2>3, <2>4, <2>7, <2>8, <2>9 DEF Next
<1> QED
  BY <1>1, <1>2, PTL DEF Spec

-----------------------------------------------------------------------------
\* Every accepted entry leaves once and in order.
THEOREM FirstInFirstOut == Spec => []Fifo
<1>1. Init => Fifo
  BY DEF Init, Fifo
<1>2. TypeOK /\ Fifo /\ [Next]_vars => Fifo'
  <2> SUFFICES ASSUME TypeOK, Fifo, [Next]_vars PROVE Fifo'
    OBVIOUS
  <2> USE DEF TypeOK, Fifo
  <2>1. CASE \E d \in Data : Push(d)
    <3>1. PICK d \in Data : Push(d)
      BY <2>1
    <3> QED
      BY <3>1, AppendToList DEF Push
  <2>2. ASSUME NEW c \in Consumers, TakeHead(c) PROVE Fifo'
    BY <2>2, MoveHead DEF TakeHead
  <2>3. CASE UNCHANGED <<list, accepted, delivered>>
    BY <2>3
  <2>4. \/ \E d \in Data : Push(d)
        \/ \E c \in Consumers : TakeHead(c)
        \/ UNCHANGED <<list, accepted, delivered>>
    BY DEF Next, vars, PushRefused, FreezeThaw, PopStep, PopNow, PopWait, PopResume,
           PopExpired, ReturnNull, Timeout, SpuriousWake
  <2> QED
    BY <2>1, <2>2, <2>3, <2>4
<1> QED
  BY <1>1, <1>2, TypeCorrect, PTL DEF Spec

-----------------------------------------------------------------------------
\* A step of the queue is a step of the abstract queue or changes nothing that
\* its users see.
THEOREM Refinement == Spec => ImplementsFifoQueue
<1>1. Init => Abstract!Init
  BY DEF Init, Abstract!Init
<1>2. TypeOK /\ [Next]_vars => [Abstract!Next]_(Abstract!vars)
  <2> SUFFICES ASSUME TypeOK, [Next]_vars PROVE [Abstract!Next]_(Abstract!vars)
    OBVIOUS
  <2> USE DEF Abstract!Next, Abstract!vars
  <2>1. ASSUME NEW d \in Data, Push(d) PROVE Abstract!Put(d)
    BY <2>1 DEF Push, Abstract!Put
  <2>2. ASSUME NEW c \in Consumers, TakeHead(c) PROVE Abstract!Take
    BY <2>2 DEF TakeHead, Abstract!Take
  <2>3. ASSUME NEW b \in BOOLEAN, FreezeThaw(b) PROVE Abstract!SetClosed
    BY <2>3 DEF FreezeThaw, Abstract!SetClosed
  <2>4. \/ \E d \in Data : Push(d)
        \/ \E c \in Consumers : TakeHead(c)
        \/ \E b \in BOOLEAN : FreezeThaw(b)
        \/ UNCHANGED <<list, frozen>>
    BY DEF Next, vars, PushRefused, PopStep, PopNow, PopWait, PopResume,
           PopExpired, ReturnNull, Timeout, SpuriousWake
  <2> QED
    BY <2>1, <2>2, <2>3, <2>4
<1> QED
  BY <1>1, <1>2, TypeCorrect, PTL DEF Spec, ImplementsFifoQueue, Abstract!Spec

-----------------------------------------------------------------------------
\* One consumer more, or one less, is on its way back to the mutex.
LEMMA WokenGrows ==
    ASSUME QueueAssumption, TypeOK,
           NEW c \in In(Waiting), pc' = [pc EXCEPT ![c] = Woken]
    PROVE  Cardinality(In(Woken)') = Cardinality(In(Woken)) + 1
<1>1. IsFiniteSet(In(Woken))
  BY FS_Subset DEF QueueAssumption, In
<1>2. In(Woken)' = In(Woken) \cup {c} /\ c \notin In(Woken)
  BY DEF In, TypeOK
<1> QED
  BY <1>1, <1>2, FS_AddElement

LEMMA WokenShrinks ==
    ASSUME QueueAssumption, TypeOK, NEW c \in Consumers, pc' = [pc EXCEPT ![c] = Idle]
    PROVE  /\ pc[c] = Woken => Cardinality(In(Woken)') = Cardinality(In(Woken)) - 1
           /\ pc[c] # Woken => In(Woken)' = In(Woken)
<1>1. IsFiniteSet(In(Woken))
  BY FS_Subset DEF QueueAssumption, In
<1>2. CASE pc[c] = Woken
  <2>1. In(Woken)' = In(Woken) \ {c} /\ c \in In(Woken)
    BY <1>2 DEF In, TypeOK
  <2> QED
    BY <1>1, <1>2, <2>1, FS_RemoveElement
<1>3. CASE pc[c] # Woken
  BY <1>3 DEF In, TypeOK
<1> QED
  BY <1>2, <1>3

LEMMA WokenNat ==
    ASSUME QueueAssumption PROVE Cardinality(In(Woken)) \in Nat
BY FS_Subset, FS_CardinalityType DEF QueueAssumption, In

\* No wake-up is lost: every entry of the list has a signalled consumer while
\* another one still sleeps.
THEOREM WakeupsSuffice == Spec => []NoLostWakeup
<1> USE QueueAssumption
<1>1. Init => NoLostWakeup
  BY DEF Init, NoLostWakeup, In
<1>2. TypeOK /\ NoLostWakeup /\ [Next]_vars => NoLostWakeup'
  <2> SUFFICES ASSUME TypeOK, NoLostWakeup, [Next]_vars PROVE NoLostWakeup'
    OBVIOUS
  <2> DEFINE woken == Cardinality(In(Woken))
  <2>a. woken \in Nat /\ Len(list) \in Nat
    BY WokenNat DEF TypeOK
  <2>1. ASSUME Signal PROVE \/ In(Waiting) = {} /\ pc' = pc
                            \/ In(Waiting) # {} /\ woken' = woken + 1
    BY <2>1, WokenGrows DEF Signal
  <2>2. CASE \E d \in Data : Push(d)
    <3>1. Len(list') = Len(list) + 1 /\ Signal
      BY <2>2 DEF Push, TypeOK
    <3>2. CASE In(Waiting) = {} /\ pc' = pc
      BY <3>2 DEF NoLostWakeup, In
    <3>3. CASE In(Waiting) # {} /\ woken' = woken + 1
      BY <2>a, <3>1, <3>3 DEF NoLostWakeup
    <3> QED
      BY <2>1, <3>1, <3>2, <3>3
  <2>3. CASE PushRefused \/ \E b \in BOOLEAN : FreezeThaw(b)
    <3>1. list' = list /\ Signal
      BY <2>3 DEF PushRefused, FreezeThaw
    <3>2. CASE In(Waiting) = {} /\ pc' = pc
      BY <3>2 DEF NoLostWakeup, In
    <3>3. CASE In(Waiting) # {} /\ woken' = woken + 1
      BY <2>a, <3>1, <3>3 DEF NoLostWakeup
    <3> QED
      BY <2>1, <3>1, <3>2, <3>3
  <2>4. ASSUME NEW c \in Consumers, TakeHead(c), pc[c] \in {Idle, Woken}
        PROVE  NoLostWakeup'
    <3>1. Len(list') = Len(list) - 1
      BY <2>4, MoveHead DEF TakeHead, TypeOK
    <3>2. In(Waiting)' = In(Waiting)
      BY <2>4 DEF TakeHead, In, TypeOK
    <3>3. woken' = woken \/ woken' = woken - 1
      BY <2>4, WokenShrinks DEF TakeHead
    <3> QED
      BY <2>a, <3>1, <3>2, <3>3 DEF NoLostWakeup
  <2>5. ASSUME NEW c \in Consumers, ReturnNull(c), pc[c] = Expired PROVE NoLostWakeup'
    <3>1. In(Waiting)' = In(Waiting) /\ list' = list
      BY <2>5 DEF ReturnNull, In, TypeOK
    <3>2. In(Woken)' = In(Woken)
      BY <2>5, WokenShrinks DEF ReturnNull
    <3> QED
      BY <3>1, <3>2 DEF NoLostWakeup
  <2>6. ASSUME NEW c \in Consumers, list = <<>>, list' = list PROVE NoLostWakeup'
    <3>1. Cardinality(In(Woken)') \in Nat
      <4>1. IsFiniteSet(In(Woken)')
        BY FS_Subset DEF QueueAssumption, In
      <4> QED
        BY <4>1, FS_CardinalityType
    <3> QED
      BY <2>6, <3>1 DEF NoLostWakeup
  <2>7. ASSUME NEW c \in Consumers, PopStep(c) PROVE NoLostWakeup'
    <3>1. CASE PopNow(c)
      BY <2>4, <3>1 DEF PopNow
    <3>2. CASE PopWait(c)
      BY <2>6, <3>2 DEF PopWait
    <3>3. CASE PopResume(c)
      BY <2>4, <2>6, <3>3 DEF PopResume, ReturnNull
    <3>4. CASE PopExpired(c)
      BY <2>5, <3>4 DEF PopExpired
    <3> QED
      BY <2>7, <3>1, <3>2, <3>3, <3>4 DEF PopStep
  <2>8. ASSUME NEW c \in Consumers, Timeout(c) PROVE NoLostWakeup'
    <3>1. list' = list /\ In(Waiting)' \subseteq In(Waiting) /\ In(Woken)' = In(Woken)
      BY <2>8 DEF Timeout, In, TypeOK
    <3> QED
      BY <3>1 DEF NoLostWakeup
  <2>9. ASSUME NEW c \in Consumers, SpuriousWake(c) PROVE NoLostWakeup'
    <3>1. c \in In(Waiting) /\ list' = list /\ pc' = [pc EXCEPT ![c] = Woken]
      BY <2>9 DEF SpuriousWake, In
    <3>2. woken' = woken + 1
      BY <3>1, WokenGrows
    <3> QED
      BY <2>a, <3>1, <3>2 DEF NoLostWakeup
  <2>10. CASE UNCHANGED vars
    BY <2>10 DEF vars, NoLostWakeup, In
  <2> QED
    BY <2>2, <2>3, <2>7, <2>8, <2>9, <2>10 DEF Next
<1> QED
  BY <1>1, <1>2, TypeCorrect, PTL DEF Spec
=============================================================================
