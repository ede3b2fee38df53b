-------------------------- MODULE SendQueueProofs --------------------------
(***************************************************************************)
(* Proofs about what the phone sends.  First its send queue, for every     *)
(* queue length, every set of threads and every number of calls: what is   *)
(* sent is what is shifted, what the watch gets and in which order, and    *)
(* that the queue implements an outbox.  Then the rows, the bodies and the *)
(* texts that the messages carry, and the stream of the smoke test, whose  *)
(* frames are taken by a recursive function as well.                       *)
(***************************************************************************)
EXTENDS SendQueue, Text, Rows, Smoke, SequenceTheorems, FiniteSetTheorems, FunctionTheorems,
        WellFoundedInduction, TLAPS

(***************************************************************************)
(* What deleting one element leaves: the elements before it, then those    *)
(* after it, one place earlier.                                            *)
(***************************************************************************)
LEMMA RemoveAtProperties ==
  ASSUME NEW S, NEW s \in Seq(S), NEW i \in 1..Len(s)
  PROVE  /\ RemoveAt(s, i) \in Seq(S)
         /\ Len(RemoveAt(s, i)) = Len(s) - 1
         /\ \A j \in 1..(Len(s) - 1) :
              RemoveAt(s, i)[j] = IF j < i THEN s[j] ELSE s[j + 1]
<1> DEFINE a == SubSeq(s, 1, i - 1)
           b == SubSeq(s, i + 1, Len(s))
<1>0. Len(s) \in Nat /\ i \in Nat /\ 1 <= i /\ i <= Len(s)
  BY LenProperties
<1>1. a \in Seq(S) /\ Len(a) = i - 1 /\ \A j \in 1..(i - 1) : a[j] = s[j]
  BY <1>0, SubSeqProperties
<1>2. b \in Seq(S) /\ Len(b) = Len(s) - i
      /\ \A j \in 1..(Len(s) - i) : b[j] = s[i + j]
  BY <1>0, SubSeqProperties
<1>3. RemoveAt(s, i) = a \o b
  BY DEF RemoveAt
<1> HIDE DEF a, b
<1>4. a \o b \in Seq(S) /\ Len(a \o b) = Len(s) - 1
  <2>1. a \o b \in Seq(S) /\ Len(a \o b) = Len(a) + Len(b)
    BY <1>1, <1>2, ConcatProperties
  <2>2. Len(a) + Len(b) = Len(s) - 1
    BY <1>0, <1>1, <1>2
  <2> QED
    BY <2>1, <2>2
<1>5. ASSUME NEW j \in 1..(Len(s) - 1)
      PROVE  (a \o b)[j] = IF j < i THEN s[j] ELSE s[j + 1]
  <2>1. CASE j < i
    BY <2>1, <1>0, <1>1, <1>2, <1>5, ConcatProperties
  <2>2. CASE ~(j < i)
    <3>1. j - (i - 1) \in 1..(Len(s) - i) /\ i + (j - (i - 1)) = j + 1
      BY <2>2, <1>0, <1>5
    <3>2. (a \o b)[j] = b[j - Len(a)]
      BY <2>2, <1>0, <1>1, <1>2, <1>5, ConcatProperties
    <3> QED
      BY <2>2, <3>1, <3>2, <1>1, <1>2
  <2> QED
    BY <2>1, <2>2
<1> QED
  BY <1>3, <1>4, <1>5

-----------------------------------------------------------------------------
(***************************************************************************)
(* The inductive invariant.  The bound and the uniqueness of slots need    *)
(* HeadIsOutstanding: only because something is being sent whenever the    *)
(* queue is not empty do the searches start behind the head.               *)
(***************************************************************************)
IInv == TypeOK /\ HeadIsOutstanding /\ QueueBounded /\ SlotsUnique

\* The searches of enqueueMessage only find messages behind the head.
LEMMA SearchesSkipHead ==
  ASSUME IInv, NEW m \in Message
  PROVE  /\ Coalescable(m) \subseteq 2..Len(sendQueue)
         /\ Droppable \subseteq 2..Len(sendQueue)
         /\ \A i \in 2..Len(sendQueue) :
              ~SameSlot(m, sendQueue[i]) \/ i \in Coalescable(m)
<1>1. Len(sendQueue) \in Nat /\ (~sending => Len(sendQueue) = 0)
  BY LenProperties, EmptySeq DEF IInv, TypeOK, HeadIsOutstanding
<1> QED
  BY <1>1 DEF Coalescable, Droppable, FirstFree

\* The invariant holds of the empty queue.
LEMMA InitIInv == Init => IInv
<1> SUFFICES ASSUME Init PROVE IInv
  OBVIOUS
<1> USE QueueMaxAssumption, MaxSendsAssumption DEF Init
<1>1. Len(sendQueue) = 0 /\ sendQueue \in Seq(Message) /\ received \in Seq(Message)
  OBVIOUS
<1>2. TypeOK
  <2>1. posted = 0 /\ 0 \in 0..MaxSends
    OBVIOUS
  <2>2. sending \in BOOLEAN /\ outstanding \subseteq Message
    BY Zenon
  <2> QED
    BY <1>1, <2>1, <2>2, Zenon DEF TypeOK
<1>3. HeadIsOutstanding
  BY DEF HeadIsOutstanding
<1>4. QueueBounded /\ SlotsUnique
  BY <1>1 DEF QueueBounded, SlotsUnique
<1> QED
  BY <1>2, <1>3, <1>4 DEF IInv

\* A newer message takes the place of the waiting one of its slot.
LEMMA CoalesceIInv ==
  ASSUME IInv, NEW m \in Message, Coalesce(m),
         posted' \in 0..MaxSends, received' \in Seq(Message)
  PROVE  IInv'
<1>1. PICK i \in Coalescable(m) :
        FlushSendQueue([sendQueue EXCEPT ![i] = m], sending, outstanding)
  BY DEF Coalesce
<1>2. i \in 2..Len(sendQueue) /\ SameSlot(m, sendQueue[i])
  BY <1>1, SearchesSkipHead DEF Coalescable
<1>3. sendQueue \in Seq(Message) /\ Len(sendQueue) \in Nat /\ sendQueue # <<>>
      /\ sending = TRUE /\ i \in 1..Len(sendQueue)
  BY <1>2, LenProperties, EmptySeq DEF IInv, TypeOK, HeadIsOutstanding
<1>4. /\ sendQueue' \in Seq(Message)
      /\ Len(sendQueue') = Len(sendQueue)
      /\ \A j \in 1..Len(sendQueue) :
           sendQueue'[j] = IF j = i THEN m ELSE sendQueue[j]
  BY <1>1, <1>3, ExceptSeq DEF FlushSendQueue
<1>5. sending' = TRUE /\ outstanding' = outstanding
  BY <1>1, <1>3 DEF FlushSendQueue
<1>6. TypeOK'
  BY <1>4, <1>5 DEF IInv, TypeOK
<1>7. HeadIsOutstanding'
  <2>1. Head(sendQueue') = Head(sendQueue) /\ sendQueue' # <<>>
    BY <1>2, <1>3, <1>4, HeadTailProperties, EmptySeq
  <2> QED
    BY <2>1, <1>3, <1>5 DEF IInv, HeadIsOutstanding
<1>8. QueueBounded'
  BY <1>4 DEF IInv, QueueBounded
<1>9. SlotsUnique'
  <2> SUFFICES ASSUME NEW j \in 2..Len(sendQueue), NEW k \in 2..Len(sendQueue),
                      SameSlot(sendQueue'[j], sendQueue'[k])
               PROVE  j = k
    BY <1>4 DEF SlotsUnique
  <2>1. \A x, y \in 2..Len(sendQueue) :
          SameSlot(sendQueue[x], sendQueue[y]) => x = y
    BY DEF IInv, SlotsUnique
  <2>2. SameSlot(sendQueue[j], sendQueue[k])
    BY <1>2, <1>3, <1>4 DEF SameSlot, IsLow
  <2> QED
    BY <2>1, <2>2
<1> QED
  BY <1>6, <1>7, <1>8, <1>9 DEF IInv

\* A message joins the end of a queue q that still has the same head.
LEMMA AppendedIInv ==
  ASSUME IInv, NEW m \in Message, NEW q \in Seq(Message),
         Len(q) < QueueMax,
         sending => q # <<>> /\ Head(q) = Head(sendQueue),
         ~sending => q = <<>>,
         \A j, k \in 2..Len(q) : SameSlot(q[j], q[k]) => j = k,
         \A j \in 2..Len(q) : ~SameSlot(m, q[j]),
         FlushSendQueue(Append(q, m), sending, outstanding),
         posted' \in 0..MaxSends, received' \in Seq(Message)
  PROVE  IInv'
<1>1. Len(q) \in Nat /\ QueueMax \in Nat
  BY LenProperties, QueueMaxAssumption
<1>2. /\ sendQueue' \in Seq(Message)
      /\ Len(sendQueue') = Len(q) + 1
      /\ \A j \in 1..Len(q) : sendQueue'[j] = q[j]
      /\ sendQueue'[Len(q) + 1] = m
  BY AppendProperties DEF FlushSendQueue
<1>3. sendQueue' # <<>> /\ sending' = TRUE
  <2>1. Len(sendQueue') # 0
    BY <1>1, <1>2
  <2>2. sendQueue' # <<>>
    BY <2>1, <1>2, EmptySeq
  <2> QED
    BY <2>2 DEF FlushSendQueue
<1>4. outstanding' = {Head(sendQueue')}
  <2>1. CASE sending
    <3>1. q # <<>> /\ Len(q) # 0
      BY <2>1, EmptySeq
    <3>2. Head(sendQueue') = sendQueue'[1] /\ Head(q) = q[1]
      BY <1>2, <1>3, <3>1, HeadTailProperties
    <3>3. Head(sendQueue') = Head(sendQueue)
      BY <3>1, <3>2, <1>1, <1>2, <2>1
    <3> QED
      BY <3>3, <2>1 DEF FlushSendQueue, IInv, HeadIsOutstanding
  <2>2. CASE ~sending
    BY <2>2, <1>3 DEF FlushSendQueue, IInv, HeadIsOutstanding
  <2> QED
    BY <2>1, <2>2
<1>5. HeadIsOutstanding'
  BY <1>3, <1>4 DEF HeadIsOutstanding
<1>6. TypeOK'
  <2>1. Head(sendQueue') \in Message
    BY <1>2, <1>3, HeadTailProperties
  <2> QED
    BY <1>2, <1>3, <1>4, <2>1 DEF TypeOK
<1>7. QueueBounded'
  BY <1>1, <1>2 DEF QueueBounded
<1>8. SlotsUnique'
  <2> SUFFICES ASSUME NEW j \in 2..Len(q) + 1, NEW k \in 2..Len(q) + 1,
                      SameSlot(sendQueue'[j], sendQueue'[k])
               PROVE  j = k
    BY <1>2 DEF SlotsUnique
  <2>1. CASE j \in 2..Len(q) /\ k \in 2..Len(q)
    BY <2>1, <1>1, <1>2
  <2>2. CASE j = Len(q) + 1 /\ k \in 2..Len(q)
    BY <2>2, <1>1, <1>2
  <2>3. CASE j \in 2..Len(q) /\ k = Len(q) + 1
    <3>1. SameSlot(m, q[j])
      BY <2>3, <1>1, <1>2 DEF SameSlot, IsLow
    <3> QED
      BY <3>1, <2>3
  <2> QED
    BY <2>1, <2>2, <2>3, <1>1
<1> QED
  BY <1>5, <1>6, <1>7, <1>8 DEF IInv

\* Appending to a queue with room keeps the invariant.
LEMMA AppendMessageIInv ==
  ASSUME IInv, NEW m \in Message, AppendMessage(m),
         posted' \in 0..MaxSends, received' \in Seq(Message)
  PROVE  IInv'
<1>1. sendQueue \in Seq(Message)
  BY DEF IInv, TypeOK
<1>2. sending => sendQueue # <<>> /\ Head(sendQueue) = Head(sendQueue)
  BY DEF IInv, HeadIsOutstanding
<1>3. ~sending => sendQueue = <<>>
  BY DEF IInv, HeadIsOutstanding
<1>4. \A j, k \in 2..Len(sendQueue) :
        SameSlot(sendQueue[j], sendQueue[k]) => j = k
  BY DEF IInv, SlotsUnique
<1>5. \A j \in 2..Len(sendQueue) : ~SameSlot(m, sendQueue[j])
  BY SearchesSkipHead DEF AppendMessage
<1>6. Len(sendQueue) < QueueMax
      /\ FlushSendQueue(Append(sendQueue, m), sending, outstanding)
  BY DEF AppendMessage
<1> QED
  BY <1>1, <1>2, <1>3, <1>4, <1>5, <1>6, AppendedIInv

\* Evicting the oldest replaceable message behind the head makes the room for one.
LEMMA EvictAndAppendIInv ==
  ASSUME IInv, NEW m \in Message, EvictAndAppend(m),
         posted' \in 0..MaxSends, received' \in Seq(Message)
  PROVE  IInv'
<1>1. PICK i \in Droppable :
        FlushSendQueue(Append(RemoveAt(sendQueue, i), m), sending, outstanding)
  BY DEF EvictAndAppend
<1> DEFINE q == RemoveAt(sendQueue, i)
<1>2. i \in 2..Len(sendQueue)
  BY <1>1, SearchesSkipHead
<1>3. /\ sendQueue \in Seq(Message) /\ Len(sendQueue) \in Nat
      /\ Len(sendQueue) >= 2 /\ i \in 1..Len(sendQueue)
      /\ Len(sendQueue) <= QueueMax /\ QueueMax \in Nat
  BY <1>2, LenProperties, QueueMaxAssumption DEF IInv, TypeOK, QueueBounded
<1>4. /\ q \in Seq(Message)
      /\ Len(q) = Len(sendQueue) - 1
      /\ \A j \in 1..(Len(sendQueue) - 1) :
           q[j] = IF j < i THEN sendQueue[j] ELSE sendQueue[j + 1]
  BY <1>3, RemoveAtProperties
<1> HIDE DEF q
<1>5. sendQueue # <<>> /\ q # <<>> /\ Head(q) = Head(sendQueue) /\ sending
  <2>1. Len(q) # 0 /\ Len(sendQueue) # 0
    BY <1>3, <1>4
  <2>2. q # <<>> /\ sendQueue # <<>>
    BY <2>1, <1>3, <1>4, EmptySeq
  <2>3. Head(q) = q[1] /\ Head(sendQueue) = sendQueue[1]
    BY <2>2, <1>3, <1>4, HeadTailProperties
  <2>4. q[1] = sendQueue[1]
    BY <1>2, <1>3, <1>4
  <2> QED
    BY <2>2, <2>3, <2>4 DEF IInv, HeadIsOutstanding
<1>6. \A j, k \in 2..Len(q) : SameSlot(q[j], q[k]) => j = k
  <2> SUFFICES ASSUME NEW j \in 2..Len(q), NEW k \in 2..Len(q),
                      SameSlot(q[j], q[k])
               PROVE  j = k
    OBVIOUS
  <2> DEFINE at(x) == IF x < i THEN x ELSE x + 1
  <2>1. at(j) \in 2..Len(sendQueue) /\ at(k) \in 2..Len(sendQueue)
    BY <1>2, <1>3, <1>4
  <2>2. q[j] = sendQueue[at(j)] /\ q[k] = sendQueue[at(k)]
    BY <1>2, <1>3, <1>4
  <2>3. at(j) = at(k)
    BY <2>1, <2>2 DEF IInv, SlotsUnique
  <2> QED
    BY <2>3, <1>2, <1>3, <1>4
<1>7. \A j \in 2..Len(q) : ~SameSlot(m, q[j])
  <2> SUFFICES ASSUME NEW j \in 2..Len(q) PROVE ~SameSlot(m, q[j])
    OBVIOUS
  <2>1. \A k \in 2..Len(sendQueue) : ~SameSlot(m, sendQueue[k])
    BY SearchesSkipHead DEF EvictAndAppend
  <2>2. CASE j < i
    BY <2>1, <2>2, <1>3, <1>4
  <2>3. CASE ~(j < i)
    <3>1. j + 1 \in 2..Len(sendQueue) /\ q[j] = sendQueue[j + 1]
      BY <2>3, <1>3, <1>4
    <3> QED
      BY <3>1, <2>1
  <2> QED
    BY <2>2, <2>3
<1>8. Len(q) < QueueMax
  BY <1>3, <1>4
<1>9. FlushSendQueue(Append(q, m), sending, outstanding)
  BY <1>1 DEF q
<1> QED
  BY <1>4, <1>5, <1>6, <1>7, <1>8, <1>9, AppendedIInv

\* A refused message leaves the queue as it was.
LEMMA RefuseIInv ==
  ASSUME IInv, NEW m \in Message, Refuse(m),
         posted' \in 0..MaxSends, received' \in Seq(Message)
  PROVE  IInv'
<1>1. sendQueue' = sendQueue /\ sending' = sending /\ outstanding' = outstanding
  BY DEF Refuse, FlushSendQueue, IInv, TypeOK, HeadIsOutstanding
<1> QED
  BY <1>1 DEF IInv, TypeOK, HeadIsOutstanding, QueueBounded, SlotsUnique

-----------------------------------------------------------------------------
\* Either callback shifts the head and sends the next message.
LEMMA ShiftIInv ==
  ASSUME IInv, NEW m \in outstanding, Shift(m), received' \in Seq(Message)
  PROVE  IInv'
<1>1. /\ sendQueue \in Seq(Message) /\ Len(sendQueue) \in Nat
      /\ sendQueue # <<>> /\ m = Head(sendQueue) /\ outstanding = {m}
  BY LenProperties DEF IInv, TypeOK, HeadIsOutstanding
<1>2. /\ sendQueue' = Tail(sendQueue) /\ sendQueue' \in Seq(Message)
      /\ Len(sendQueue') = Len(sendQueue) - 1
      /\ \A j \in 1..(Len(sendQueue) - 1) : sendQueue'[j] = sendQueue[j + 1]
  BY <1>1, HeadTailProperties DEF Shift, FlushSendQueue
<1>3. HeadIsOutstanding'
  <2>1. outstanding \ {m} = {}
    BY <1>1
  <2>2. sending' <=> sendQueue' # <<>>
    BY DEF Shift, FlushSendQueue
  <2>3. outstanding' = IF sending' THEN {Head(sendQueue')} ELSE {}
    BY <2>1, <2>2 DEF Shift, FlushSendQueue
  <2> QED
    BY <2>2, <2>3 DEF HeadIsOutstanding
<1>4. TypeOK'
  <2>1. sendQueue' # <<>> => Head(sendQueue') \in Message
    BY <1>2, HeadTailProperties
  <2>2. sending' \in BOOLEAN /\ posted' = posted
    BY DEF Shift, FlushSendQueue
  <2>3. outstanding' \subseteq Message
    BY <1>3, <2>1 DEF HeadIsOutstanding
  <2> QED
    BY <1>2, <2>2, <2>3 DEF IInv, TypeOK
<1>5. QueueBounded'
  BY <1>1, <1>2, QueueMaxAssumption DEF IInv, QueueBounded
<1>6. SlotsUnique'
  <2> SUFFICES ASSUME NEW j \in 2..Len(sendQueue'), NEW k \in 2..Len(sendQueue'),
                      SameSlot(sendQueue'[j], sendQueue'[k])
               PROVE  j = k
    BY DEF SlotsUnique
  <2>1. j + 1 \in 2..Len(sendQueue) /\ k + 1 \in 2..Len(sendQueue)
    BY <1>1, <1>2
  <2>2. SameSlot(sendQueue[j + 1], sendQueue[k + 1])
    BY <1>1, <1>2
  <2> QED
    BY <2>1, <2>2 DEF IInv, SlotsUnique
<1> QED
  BY <1>3, <1>4, <1>5, <1>6 DEF IInv

-----------------------------------------------------------------------------
\* A call makes a well-formed message.
LEMMA NewMessage ==
  ASSUME TypeOK, posted < MaxSends,
         NEW type \in LowPriority \cup Priority, NEW id \in Threads \cup {NoThread}
  PROVE  [type |-> type, thread |-> id, n |-> posted + 1] \in Message
<1>1. posted + 1 \in 1..MaxSends
  BY MaxSendsAssumption DEF TypeOK
<1> QED
  BY <1>1, Zenon DEF Message

\* Every call of sendEnvelope keeps the invariant.
LEMMA SendEnvelopeIInv ==
  ASSUME IInv, NEW type \in LowPriority \cup Priority,
         NEW id \in Threads \cup {NoThread}, SendEnvelope(type, id)
  PROVE  IInv'
<1> DEFINE m == [type |-> type, thread |-> id, n |-> posted + 1]
<1>1. m \in Message
  BY NewMessage DEF IInv, SendEnvelope
<1>2. posted' \in 0..MaxSends /\ received' \in Seq(Message)
  BY MaxSendsAssumption DEF IInv, TypeOK, SendEnvelope
<1>3. Coalesce(m) \/ AppendMessage(m) \/ EvictAndAppend(m) \/ Refuse(m)
  BY DEF SendEnvelope
<1> HIDE DEF m
<1>4. CASE Coalesce(m)
  BY <1>1, <1>2, <1>4, CoalesceIInv
<1>5. CASE AppendMessage(m)
  BY <1>1, <1>2, <1>5, AppendMessageIInv
<1>6. CASE EvictAndAppend(m)
  BY <1>1, <1>2, <1>6, EvictAndAppendIInv
<1>7. CASE Refuse(m)
  BY <1>1, <1>2, <1>7, RefuseIInv
<1> QED
  BY <1>3, <1>4, <1>5, <1>6, <1>7

\* Every step keeps the invariant.
LEMMA NextIInv == IInv /\ [Next]_vars => IInv'
<1> SUFFICES ASSUME IInv, [Next]_vars PROVE IInv'
  OBVIOUS
<1>1. ASSUME NEW type \in Priority \cup {"sync_status", "settings_state"},
             SendEnvelope(type, NoThread)
      PROVE  IInv'
  BY <1>1, SendEnvelopeIInv DEF LowPriority
<1>2. ASSUME NEW id \in Threads, SendEnvelope("detail_update", id)
      PROVE  IInv'
  BY <1>2, SendEnvelopeIInv DEF LowPriority
<1>3. ASSUME NEW m \in outstanding, Acked(m) \/ Failed(m)
      PROVE  IInv'
  <2>1. m \in Message /\ received \in Seq(Message)
    BY DEF IInv, TypeOK
  <2>2. Shift(m) /\ received' \in {received, Append(received, m)}
    BY <1>3 DEF Acked, Failed
  <2>3. received' \in Seq(Message)
    BY <2>1, <2>2, AppendProperties
  <2> QED
    BY <2>2, <2>3, ShiftIInv
<1>4. CASE UNCHANGED vars
  BY <1>4 DEF vars, IInv, TypeOK, HeadIsOutstanding, QueueBounded, SlotsUnique
<1> QED
  BY <1>1, <1>2, <1>3, <1>4 DEF Next, Post, Callback

(***************************************************************************)
(* The strengthened invariant holds in every reachable state of the queue. *)
(***************************************************************************)
THEOREM Inductive == Spec => []IInv
  BY InitIInv, NextIInv, PTL DEF Spec

(***************************************************************************)
(* Every variable of the send queue keeps its type (sendEnvelope to        *)
(* flushSendQueue).                                                        *)
(***************************************************************************)
THEOREM TypeCorrect == Spec => []TypeOK
<1>1. IInv => TypeOK
  BY DEF IInv
<1> QED
  BY <1>1, Inductive, PTL

(***************************************************************************)
(* Whatever is replaced or dropped while a send is pending, the message    *)
(* that the callback shifts is the one that was sent (flushSendQueue).     *)
(***************************************************************************)
THEOREM HeadSafe == Spec => []HeadIsOutstanding
<1>1. IInv => HeadIsOutstanding
  BY DEF IInv
<1> QED
  BY <1>1, Inductive, PTL

(***************************************************************************)
(* The queue never outgrows SEND_QUEUE_MAX (enqueueMessage).               *)
(***************************************************************************)
THEOREM Bounded == Spec => []QueueBounded
<1>1. IInv => QueueBounded
  BY DEF IInv
<1> QED
  BY <1>1, Inductive, PTL

(***************************************************************************)
(* No two waiting messages compete for one slot                            *)
(* (coalescableQueuedMessageIndex).                                        *)
(***************************************************************************)
THEOREM OnePerSlot == Spec => []SlotsUnique
<1>1. IInv => SlotsUnique
  BY DEF IInv
<1> QED
  BY <1>1, Inductive, PTL

-----------------------------------------------------------------------------
(***************************************************************************)
(* What the watch gets, and in which order.                                *)
(***************************************************************************)

(***************************************************************************)
(* Messages are numbered as they are posted, so the next one is newer than *)
(* any in the queue or on the watch.                                       *)
(***************************************************************************)
Numbered ==
  /\ \A i \in 1..Len(sendQueue) : sendQueue[i].n <= posted
  /\ \A i \in 1..Len(received) : received[i].n <= posted

OInv == IInv /\ InOrder /\ Numbered

Fresh(m) == m \in Message /\ m.n = posted + 1 /\ posted' = posted + 1 /\ received' = received

\* A queue q whose messages all come from the present queue, in its order.
OrderedQueue(q) ==
  /\ \A i, j \in 1..Len(q) : i < j => Ordered(q[i], q[j])
  /\ \A i \in 1..Len(received), j \in 1..Len(q) : Ordered(received[i], q[j])
  /\ \A i \in 1..Len(q) : q[i].n <= posted

\* The numbers of messages can be compared.
LEMMA Numbers ==
  ASSUME IInv
  PROVE  /\ posted \in Nat
         /\ \A i \in 1..Len(sendQueue) : sendQueue[i] \in Message /\ sendQueue[i].n \in Nat
         /\ \A i \in 1..Len(received) : received[i] \in Message /\ received[i].n \in Nat
<1>1. sendQueue \in Seq(Message) /\ received \in Seq(Message)
  BY DEF IInv, TypeOK
<1>2. \A m \in Message : m.n \in Nat
  BY MaxSendsAssumption DEF Message
<1> QED
  BY <1>1, <1>2, ElementOfSeq, MaxSendsAssumption DEF IInv, TypeOK

\* A new message joins the end.
LEMMA AppendedInOrder ==
  ASSUME OInv, NEW m, Fresh(m), NEW q \in Seq(Message), OrderedQueue(q),
         sendQueue' = Append(q, m)
  PROVE  InOrder' /\ Numbered'
<1>1. Len(q) \in Nat /\ posted \in Nat /\ m \in Message
  BY LenProperties, Numbers DEF OInv, Fresh
<1>2. /\ Len(sendQueue') = Len(q) + 1
      /\ \A j \in 1..Len(q) : sendQueue'[j] = q[j]
      /\ sendQueue'[Len(q) + 1] = m
  BY <1>1, AppendProperties
<1>3. \A i \in 1..Len(q) : q[i] \in Message /\ q[i].n \in Nat /\ q[i].n < m.n
  <2> TAKE i \in 1..Len(q)
  <2>1. q[i] \in Message
    BY ElementOfSeq
  <2>2. q[i].n \in Nat
    BY <2>1, MaxSendsAssumption DEF Message
  <2> QED
    BY <2>1, <2>2, <1>1 DEF OrderedQueue, Fresh
<1>4. \A i \in 1..Len(received) : received[i].n \in Nat /\ received[i].n < m.n
  BY <1>1, Numbers DEF OInv, Numbered, Fresh
<1>5. ASSUME NEW i \in 1..(Len(q) + 1), NEW j \in 1..(Len(q) + 1), i < j
      PROVE  Ordered(sendQueue'[i], sendQueue'[j])
  <2>1. i \in 1..Len(q)
    BY <1>1, <1>5
  <2>2. CASE j \in 1..Len(q)
    BY <2>1, <2>2, <1>2, <1>5 DEF OrderedQueue
  <2>3. CASE j = Len(q) + 1
    BY <2>1, <2>3, <1>2, <1>3 DEF Ordered
  <2> QED
    BY <2>2, <2>3, <1>1
<1>6. ASSUME NEW i \in 1..Len(received), NEW j \in 1..(Len(q) + 1)
      PROVE  Ordered(received[i], sendQueue'[j])
  <2>1. CASE j \in 1..Len(q)
    BY <2>1, <1>2 DEF OrderedQueue
  <2>2. CASE j = Len(q) + 1
    BY <2>2, <1>2, <1>4 DEF Ordered
  <2> QED
    BY <2>1, <2>2, <1>1
<1>7. InOrder'
  <2>1. \A i, j \in 1..Len(received) : i < j => Ordered(received[i], received[j])
    BY DEF OInv, InOrder
  <2> QED
    BY <2>1, <1>2, <1>5, <1>6 DEF InOrder, Fresh
<1>8. Numbered'
  <2>1. ASSUME NEW j \in 1..(Len(q) + 1) PROVE sendQueue'[j].n <= posted + 1
    <3>1. CASE j \in 1..Len(q)
      BY <3>1, <1>1, <1>2, <1>3 DEF Fresh
    <3>2. CASE j = Len(q) + 1
      BY <3>2, <1>1, <1>2 DEF Fresh
    <3> QED
      BY <3>1, <3>2, <1>1
  <2>2. \A i \in 1..Len(received) : received[i].n <= posted + 1
    BY <1>1, <1>4 DEF Fresh
  <2> QED
    BY <2>1, <2>2, <1>2 DEF Numbered, Fresh
<1> QED
  BY <1>7, <1>8

\* A message appended to a queue with room is the newest, and comes last.
LEMMA AppendMessageInOrder ==
  ASSUME OInv, NEW m, Fresh(m), AppendMessage(m)
  PROVE  InOrder' /\ Numbered'
<1>1. sendQueue \in Seq(Message) /\ sendQueue' = Append(sendQueue, m)
  BY DEF OInv, IInv, TypeOK, AppendMessage, FlushSendQueue
<1>2. OrderedQueue(sendQueue)
  BY DEF OInv, InOrder, Numbered, OrderedQueue
<1> QED
  BY <1>1, <1>2, AppendedInOrder

\* Dropping a message leaves the others in their order.
LEMMA EvictAndAppendInOrder ==
  ASSUME OInv, NEW m, Fresh(m), EvictAndAppend(m)
  PROVE  InOrder' /\ Numbered'
<1>1. PICK i \in Droppable : sendQueue' = Append(RemoveAt(sendQueue, i), m)
  BY DEF EvictAndAppend, FlushSendQueue
<1> DEFINE q == RemoveAt(sendQueue, i)
<1>2. sendQueue \in Seq(Message) /\ Len(sendQueue) \in Nat /\ i \in 1..Len(sendQueue)
  <2>1. sendQueue \in Seq(Message) /\ Len(sendQueue) \in Nat
    BY LenProperties DEF OInv, IInv, TypeOK
  <2> QED
    BY <2>1 DEF Droppable, FirstFree
<1>3. /\ q \in Seq(Message)
      /\ Len(q) = Len(sendQueue) - 1
      /\ \A j \in 1..(Len(sendQueue) - 1) :
           q[j] = IF j < i THEN sendQueue[j] ELSE sendQueue[j + 1]
  BY <1>2, RemoveAtProperties
<1> HIDE DEF q
<1> DEFINE at(x) == IF x < i THEN x ELSE x + 1
<1>4. \A j \in 1..Len(q) : at(j) \in 1..Len(sendQueue) /\ q[j] = sendQueue[at(j)]
  BY <1>2, <1>3
<1>5. \A j, k \in 1..Len(q) : j < k => at(j) < at(k)
  BY <1>2, <1>3
<1> HIDE DEF at
<1>6. OrderedQueue(q)
  BY <1>4, <1>5 DEF OInv, InOrder, Numbered, OrderedQueue
<1>7. sendQueue' = Append(q, m)
  BY <1>1 DEF q
<1> QED
  BY <1>3, <1>6, <1>7, AppendedInOrder

\* The new message takes the place of an older one of its slot: no message
\* behind it is of that slot, and it need not be in order with any other.
LEMMA CoalesceInOrder ==
  ASSUME OInv, NEW m, Fresh(m), Coalesce(m)
  PROVE  InOrder' /\ Numbered'
<1>1. PICK i \in Coalescable(m) : sendQueue' = [sendQueue EXCEPT ![i] = m]
  BY DEF Coalesce, FlushSendQueue
<1>2. i \in 2..Len(sendQueue) /\ SameSlot(m, sendQueue[i]) /\ m \in Message
  BY SearchesSkipHead DEF OInv, Coalescable, Fresh
<1>3. sendQueue \in Seq(Message) /\ Len(sendQueue) \in Nat /\ i \in 1..Len(sendQueue)
  BY <1>2, LenProperties DEF OInv, IInv, TypeOK
<1>4. /\ Len(sendQueue') = Len(sendQueue)
      /\ \A j \in 1..Len(sendQueue) :
           sendQueue'[j] = IF j = i THEN m ELSE sendQueue[j]
  BY <1>1, <1>2, <1>3, ExceptSeq
<1>5. posted \in Nat
  BY Numbers DEF OInv
<1>6. \A j \in 1..Len(sendQueue) : sendQueue[j].n \in Nat /\ sendQueue[j].n < m.n
  BY <1>5, Numbers DEF OInv, Numbered, Fresh
<1>7. \A j \in 1..Len(received) : received[j].n \in Nat /\ received[j].n < m.n
  BY <1>5, Numbers DEF OInv, Numbered, Fresh
<1>8. ASSUME NEW j \in 1..Len(sendQueue), j > i PROVE ~MustPrecede(m, sendQueue[j])
  <2>1. IsLow(m)
    BY <1>2 DEF SameSlot
  <2>2. j \in 2..Len(sendQueue) /\ j # i
    BY <1>2, <1>3, <1>8
  <2>3. ~SameSlot(sendQueue[i], sendQueue[j])
    BY <1>2, <2>2 DEF OInv, IInv, SlotsUnique
  <2>4. ~SameSlot(m, sendQueue[j])
    BY <1>2, <2>3 DEF SameSlot, IsLow
  <2> QED
    BY <2>1, <2>4 DEF MustPrecede
<1>9. ASSUME NEW j \in 1..Len(sendQueue), NEW k \in 1..Len(sendQueue), j < k
      PROVE  Ordered(sendQueue'[j], sendQueue'[k])
  <2>1. CASE j = i
    BY <2>1, <1>3, <1>4, <1>8, <1>9 DEF Ordered
  <2>2. CASE k = i
    BY <2>2, <1>3, <1>4, <1>6, <1>9 DEF Ordered
  <2>3. CASE j # i /\ k # i
    BY <2>3, <1>4, <1>9 DEF OInv, InOrder
  <2> QED
    BY <2>1, <2>2, <2>3
<1>10. ASSUME NEW j \in 1..Len(received), NEW k \in 1..Len(sendQueue)
       PROVE  Ordered(received[j], sendQueue'[k])
  <2>1. CASE k = i
    BY <2>1, <1>4, <1>7 DEF Ordered
  <2>2. CASE k # i
    BY <2>2, <1>4 DEF OInv, InOrder
  <2> QED
    BY <2>1, <2>2
<1>11. InOrder'
  <2>1. \A j, k \in 1..Len(received) : j < k => Ordered(received[j], received[k])
    BY DEF OInv, InOrder
  <2> QED
    BY <2>1, <1>4, <1>9, <1>10 DEF InOrder, Fresh
<1>12. Numbered'
  <2>1. \A j \in 1..Len(sendQueue) : sendQueue'[j].n <= posted + 1
    BY <1>4, <1>5, <1>6 DEF Fresh
  <2>2. \A j \in 1..Len(received) : received[j].n <= posted + 1
    BY <1>5, <1>7 DEF Fresh
  <2> QED
    BY <2>1, <2>2, <1>4 DEF Numbered, Fresh
<1> QED
  BY <1>11, <1>12

\* A refused message leaves the order as it was.
LEMMA RefuseInOrder ==
  ASSUME OInv, NEW m, Fresh(m), Refuse(m)
  PROVE  InOrder' /\ Numbered'
<1>1. sendQueue' = sendQueue /\ received' = received /\ posted' = posted + 1
  BY DEF Refuse, FlushSendQueue, Fresh
<1>2. posted \in Nat
  BY Numbers DEF OInv
<1>3. Numbered'
  BY <1>1, <1>2, Numbers DEF OInv, Numbered
<1> QED
  BY <1>1, <1>3 DEF OInv, InOrder

\* The head leaves the queue and may reach the watch.
LEMMA CallbackInOrder ==
  ASSUME OInv, NEW m \in outstanding, Shift(m),
         received' \in {received, Append(received, m)}
  PROVE  InOrder' /\ Numbered'
<1>1. /\ sendQueue \in Seq(Message) /\ Len(sendQueue) \in Nat
      /\ sendQueue # <<>> /\ m = Head(sendQueue) /\ received \in Seq(Message)
  BY LenProperties DEF OInv, IInv, TypeOK, HeadIsOutstanding
<1>2. /\ Len(sendQueue) >= 1 /\ m = sendQueue[1] /\ posted' = posted
      /\ Len(sendQueue') = Len(sendQueue) - 1
      /\ \A j \in 1..(Len(sendQueue) - 1) : sendQueue'[j] = sendQueue[j + 1]
  BY <1>1, HeadTailProperties, EmptySeq DEF Shift, FlushSendQueue
<1>3. /\ \A i, j \in 1..Len(sendQueue') : i < j => Ordered(sendQueue'[i], sendQueue'[j])
      /\ \A i \in 1..Len(received), j \in 1..Len(sendQueue') :
           Ordered(received[i], sendQueue'[j])
      /\ \A j \in 1..Len(sendQueue') : Ordered(m, sendQueue'[j])
  <2>1. \A j \in 1..Len(sendQueue') :
          j + 1 \in 2..Len(sendQueue) /\ sendQueue'[j] = sendQueue[j + 1]
    BY <1>1, <1>2
  <2>2. /\ \A i, j \in 1..Len(sendQueue) : i < j => Ordered(sendQueue[i], sendQueue[j])
        /\ \A i \in 1..Len(received), j \in 1..Len(sendQueue) :
             Ordered(received[i], sendQueue[j])
    BY DEF OInv, InOrder
  <2>3. ASSUME NEW i \in 1..Len(sendQueue'), NEW j \in 1..Len(sendQueue'), i < j
        PROVE  Ordered(sendQueue'[i], sendQueue'[j])
    <3>1. i + 1 \in 1..Len(sendQueue) /\ j + 1 \in 1..Len(sendQueue) /\ i + 1 < j + 1
      BY <1>1, <1>2, <2>3
    <3> QED
      BY <2>1, <2>2, <3>1
  <2>4. ASSUME NEW j \in 1..Len(sendQueue')
        PROVE  /\ Ordered(m, sendQueue'[j])
               /\ \A i \in 1..Len(received) : Ordered(received[i], sendQueue'[j])
    <3>1. j + 1 \in 1..Len(sendQueue) /\ 1 \in 1..Len(sendQueue) /\ 1 < j + 1
      BY <1>1, <1>2
    <3> QED
      BY <1>2, <2>1, <2>2, <3>1
  <2> QED
    BY <2>3, <2>4
<1>4. \A i \in 1..Len(sendQueue') : sendQueue'[i].n <= posted'
  BY <1>1, <1>2 DEF OInv, Numbered
<1>5. CASE received' = received
  BY <1>2, <1>3, <1>4, <1>5 DEF OInv, InOrder, Numbered
<1>6. CASE received' = Append(received, m)
  <2>1. Len(received) \in Nat /\ m \in Message
    BY <1>1, HeadTailProperties, LenProperties
  <2>2. /\ Len(received') = Len(received) + 1
        /\ \A j \in 1..Len(received) : received'[j] = received[j]
        /\ received'[Len(received) + 1] = m
    BY <1>1, <1>6, <2>1, AppendProperties
  <2>3. \A i \in 1..Len(received) : Ordered(received[i], m)
    BY <1>1, <1>2 DEF OInv, InOrder
  <2>4. ASSUME NEW i \in 1..(Len(received) + 1), NEW j \in 1..(Len(received) + 1), i < j
        PROVE  Ordered(received'[i], received'[j])
    <3>1. i \in 1..Len(received)
      BY <2>1, <2>4
    <3>2. CASE j \in 1..Len(received)
      BY <2>2, <2>4, <3>1, <3>2 DEF OInv, InOrder
    <3>3. CASE j = Len(received) + 1
      BY <2>2, <2>3, <3>1, <3>3
    <3> QED
      BY <2>1, <3>2, <3>3
  <2>5. ASSUME NEW i \in 1..(Len(received) + 1), NEW j \in 1..Len(sendQueue')
        PROVE  Ordered(received'[i], sendQueue'[j])
    <3>1. CASE i \in 1..Len(received)
      BY <1>3, <2>2, <3>1
    <3>2. CASE i = Len(received) + 1
      BY <1>3, <2>2, <3>2
    <3> QED
      BY <2>1, <3>1, <3>2
  <2>6. ASSUME NEW i \in 1..(Len(received) + 1) PROVE received'[i].n <= posted
    <3>1. CASE i \in 1..Len(received)
      BY <2>2, <3>1 DEF OInv, Numbered
    <3>2. CASE i = Len(received) + 1
      BY <1>1, <1>2, <2>2, <3>2 DEF OInv, Numbered
    <3> QED
      BY <2>1, <3>1, <3>2
  <2>7. InOrder'
    BY <1>3, <2>2, <2>4, <2>5 DEF InOrder
  <2> QED
    BY <1>2, <1>4, <2>2, <2>6, <2>7 DEF Numbered
<1> QED
  BY <1>5, <1>6

-----------------------------------------------------------------------------
(***************************************************************************)
(* What becomes of the messages of the queue in each step.                 *)
(***************************************************************************)
Kept ==
  \A i \in 1..Len(sendQueue) :
    ~IsLow(sendQueue[i]) =>
      \/ sendQueue[i] \in outstanding \ outstanding'
      \/ \E j \in 1..Len(sendQueue') : sendQueue'[j] = sendQueue[i]

RefusedFull ==
  (posted' # posted /\ \A i \in 1..Len(sendQueue') : sendQueue'[i].n # posted') =>
    /\ Len(sendQueue) = QueueMax
    /\ \A i \in 2..Len(sendQueue) : ~IsLow(sendQueue[i])

\* Replacing and dropping only cost low-priority messages, and only a queue
\* that is full of others refuses one.
LEMMA EnqueueKeeps ==
  ASSUME OInv, NEW m, Fresh(m),
         Coalesce(m) \/ AppendMessage(m) \/ EvictAndAppend(m) \/ Refuse(m)
  PROVE  Kept /\ RefusedFull
<1>1. sendQueue \in Seq(Message) /\ Len(sendQueue) \in Nat /\ m \in Message
      /\ m.n = posted'
  BY LenProperties DEF OInv, IInv, TypeOK, Fresh
<1>2. CASE Coalesce(m)
  <2>1. PICK i \in Coalescable(m) : sendQueue' = [sendQueue EXCEPT ![i] = m]
    BY <1>2 DEF Coalesce, FlushSendQueue
  <2>2. i \in 1..Len(sendQueue) /\ SameSlot(m, sendQueue[i])
    BY <1>1, SearchesSkipHead DEF OInv, Coalescable
  <2>3. /\ Len(sendQueue') = Len(sendQueue)
        /\ \A j \in 1..Len(sendQueue) :
             sendQueue'[j] = IF j = i THEN m ELSE sendQueue[j]
    BY <1>1, <2>1, <2>2, ExceptSeq
  <2>4. IsLow(sendQueue[i])
    BY <2>2 DEF SameSlot, IsLow
  <2> QED
    BY <1>1, <2>2, <2>3, <2>4 DEF Kept, RefusedFull
<1>3. CASE AppendMessage(m)
  <2>1. sendQueue' = Append(sendQueue, m)
    BY <1>3 DEF AppendMessage, FlushSendQueue
  <2>2. /\ Len(sendQueue') = Len(sendQueue) + 1
        /\ \A j \in 1..Len(sendQueue) : sendQueue'[j] = sendQueue[j]
        /\ sendQueue'[Len(sendQueue) + 1] = m
    BY <1>1, <2>1, AppendProperties
  <2> QED
    BY <1>1, <2>2 DEF Kept, RefusedFull
<1>4. CASE EvictAndAppend(m)
  <2>1. PICK i \in Droppable : sendQueue' = Append(RemoveAt(sendQueue, i), m)
    BY <1>4 DEF EvictAndAppend, FlushSendQueue
  <2> DEFINE q == RemoveAt(sendQueue, i)
  <2>2. i \in 1..Len(sendQueue) /\ IsLow(sendQueue[i])
    BY <1>1, SearchesSkipHead DEF OInv, Droppable
  <2>3. /\ q \in Seq(Message)
        /\ Len(q) = Len(sendQueue) - 1
        /\ \A j \in 1..(Len(sendQueue) - 1) :
             q[j] = IF j < i THEN sendQueue[j] ELSE sendQueue[j + 1]
    BY <1>1, <2>2, RemoveAtProperties
  <2> HIDE DEF q
  <2>4. Len(q) \in Nat /\ sendQueue' = Append(q, m)
    BY <2>1, <2>3, LenProperties DEF q
  <2>5. /\ Len(sendQueue') = Len(q) + 1
        /\ \A j \in 1..Len(q) : sendQueue'[j] = q[j]
        /\ sendQueue'[Len(q) + 1] = m
    BY <1>1, <2>3, <2>4, AppendProperties
  <2>6. ASSUME NEW j \in 1..Len(sendQueue), j # i
        PROVE  \E k \in 1..Len(sendQueue') : sendQueue'[k] = sendQueue[j]
    <3>1. CASE j < i
      <4>1. j \in 1..Len(q) /\ q[j] = sendQueue[j]
        BY <1>1, <2>2, <2>3, <3>1
      <4> QED
        BY <2>4, <2>5, <4>1
    <3>2. CASE j > i
      <4>1. j - 1 \in 1..Len(q) /\ q[j - 1] = sendQueue[j]
        BY <1>1, <2>2, <2>3, <3>2
      <4> QED
        BY <2>4, <2>5, <4>1
    <3> QED
      BY <1>1, <2>2, <2>6, <3>1, <3>2
  <2>7. Kept
    BY <2>2, <2>6 DEF Kept
  <2>8. RefusedFull
    BY <1>1, <2>4, <2>5 DEF RefusedFull
  <2> QED
    BY <2>7, <2>8
<1>5. CASE Refuse(m)
  <2>1. sendQueue' = sendQueue
    BY <1>5 DEF Refuse, FlushSendQueue
  <2>2. Kept
    BY <2>1 DEF Kept
  <2>3. Len(sendQueue) = QueueMax
    BY <1>1, <1>5, QueueMaxAssumption DEF Refuse, OInv, IInv, QueueBounded
  <2>4. \A i \in 2..Len(sendQueue) : ~IsLow(sendQueue[i])
    BY <1>1, <1>5 DEF Refuse, Droppable, FirstFree
  <2> QED
    BY <2>2, <2>3, <2>4 DEF RefusedFull
<1> QED
  BY <1>2, <1>3, <1>4, <1>5

\* The message that leaves with a callback has been answered for: the next
\* one to be sent is another message.
LEMMA CallbackKeeps ==
  ASSUME OInv, NEW m \in outstanding, Shift(m)
  PROVE  Kept /\ RefusedFull
<1>1. /\ sendQueue \in Seq(Message) /\ Len(sendQueue) \in Nat
      /\ sendQueue # <<>> /\ m = Head(sendQueue) /\ outstanding = {m}
  BY LenProperties DEF OInv, IInv, TypeOK, HeadIsOutstanding
<1>2. /\ Len(sendQueue) >= 1 /\ m = sendQueue[1] /\ posted' = posted
      /\ sendQueue' = Tail(sendQueue) /\ sendQueue' \in Seq(Message)
      /\ Len(sendQueue') = Len(sendQueue) - 1
      /\ \A j \in 1..(Len(sendQueue) - 1) : sendQueue'[j] = sendQueue[j + 1]
  BY <1>1, HeadTailProperties, EmptySeq DEF Shift, FlushSendQueue
<1>3. outstanding' = IF sendQueue' = <<>> THEN {} ELSE {Head(sendQueue')}
  BY <1>1, <1>2 DEF Shift, FlushSendQueue
<1>4. ASSUME ~IsLow(m) PROVE m \notin outstanding'
  <2> SUFFICES ASSUME sendQueue' # <<>> PROVE m # Head(sendQueue')
    BY <1>3
  <2>1. Len(sendQueue) >= 2 /\ Head(sendQueue') = sendQueue[2]
    BY <1>1, <1>2, HeadTailProperties, EmptySeq
  <2>2. Ordered(sendQueue[1], sendQueue[2]) /\ sendQueue[1].n \in Nat
    BY <1>1, <2>1, Numbers DEF OInv, InOrder
  <2>3. sendQueue[1] # sendQueue[2]
    BY <1>2, <1>4, <2>2 DEF Ordered, MustPrecede
  <2> QED
    BY <1>2, <2>1, <2>3
<1>5. ASSUME NEW i \in 2..Len(sendQueue)
      PROVE  \E j \in 1..Len(sendQueue') : sendQueue'[j] = sendQueue[i]
  <2>1. i - 1 \in 1..Len(sendQueue') /\ sendQueue'[i - 1] = sendQueue[i]
    BY <1>1, <1>2
  <2> QED
    BY <2>1
<1>6. Kept
  <2> SUFFICES ASSUME NEW i \in 1..Len(sendQueue), ~IsLow(sendQueue[i])
               PROVE  \/ sendQueue[i] \in outstanding \ outstanding'
                      \/ \E j \in 1..Len(sendQueue') : sendQueue'[j] = sendQueue[i]
    BY DEF Kept
  <2>1. CASE i = 1
    BY <1>1, <1>2, <1>4, <2>1
  <2>2. CASE i # 1
    BY <1>1, <1>5, <2>2
  <2> QED
    BY <2>1, <2>2
<1> QED
  BY <1>2, <1>6 DEF RefusedFull

-----------------------------------------------------------------------------
\* Every call of sendEnvelope keeps the order, and drops and refuses as promised.
LEMMA SendEnvelopeOrder ==
  ASSUME OInv, NEW type \in LowPriority \cup Priority,
         NEW id \in Threads \cup {NoThread}, SendEnvelope(type, id)
  PROVE  OInv' /\ Kept /\ RefusedFull
<1> DEFINE m == [type |-> type, thread |-> id, n |-> posted + 1]
<1>1. IInv'
  BY SendEnvelopeIInv DEF OInv
<1>2. Fresh(m)
  BY NewMessage DEF OInv, IInv, SendEnvelope, Fresh
<1>3. Coalesce(m) \/ AppendMessage(m) \/ EvictAndAppend(m) \/ Refuse(m)
  BY DEF SendEnvelope
<1> HIDE DEF m
<1>4. InOrder' /\ Numbered'
  BY <1>2, <1>3, CoalesceInOrder, AppendMessageInOrder, EvictAndAppendInOrder, RefuseInOrder
<1>5. Kept /\ RefusedFull
  BY <1>2, <1>3, EnqueueKeeps
<1> QED
  BY <1>1, <1>4, <1>5 DEF OInv

\* Every step keeps the invariant, and drops and refuses as promised.
LEMMA NextOrder == OInv /\ [Next]_vars => OInv' /\ [Kept /\ RefusedFull]_vars
<1> SUFFICES ASSUME OInv, [Next]_vars PROVE OInv' /\ [Kept /\ RefusedFull]_vars
  OBVIOUS
<1>1. ASSUME NEW type \in Priority \cup {"sync_status", "settings_state"},
             SendEnvelope(type, NoThread)
      PROVE  OInv' /\ Kept /\ RefusedFull
  BY <1>1, SendEnvelopeOrder DEF LowPriority
<1>2. ASSUME NEW id \in Threads, SendEnvelope("detail_update", id)
      PROVE  OInv' /\ Kept /\ RefusedFull
  BY <1>2, SendEnvelopeOrder DEF LowPriority
<1>3. ASSUME NEW m \in outstanding, Acked(m) \/ Failed(m)
      PROVE  OInv' /\ Kept /\ RefusedFull
  <2>1. Shift(m) /\ received' \in {received, Append(received, m)}
    BY <1>3 DEF Acked, Failed
  <2>2. IInv'
    BY <1>3, NextIInv DEF OInv, Next, Callback
  <2> QED
    BY <2>1, <2>2, CallbackInOrder, CallbackKeeps DEF OInv
<1>4. CASE UNCHANGED vars
  <2>1. IInv'
    BY <1>4, NextIInv DEF OInv
  <2> QED
    BY <1>4, <2>1 DEF vars, OInv, InOrder, Numbered
<1> QED
  BY <1>1, <1>2, <1>3, <1>4 DEF Next, Post, Callback

\* The empty queue is in order.
LEMMA InitOrder == Init => OInv
<1> SUFFICES ASSUME Init PROVE OInv
  OBVIOUS
<1>1. Len(sendQueue) = 0 /\ Len(received) = 0
  BY DEF Init
<1> QED
  BY <1>1, InitIInv DEF OInv, InOrder, Numbered

(***************************************************************************)
(* The invariant with the order and the numbering of the messages holds in *)
(* every reachable state.                                                  *)
(***************************************************************************)
THEOREM OrderInductive == Spec => []OInv
<1> QED
  BY InitOrder, NextOrder, PTL DEF Spec

(***************************************************************************)
(* The watch gets rows and errors in the order they were posted, and never *)
(* an older message of a slot after a newer one, however often the queue   *)
(* replaces and drops (enqueueMessage).                                    *)
(***************************************************************************)
THEOREM OrderKept == Spec => []InOrder
<1>1. OInv => InOrder
  BY DEF OInv
<1> QED
  BY <1>1, OrderInductive, PTL

(***************************************************************************)
(* A row or an error leaves the queue only with the callback for it        *)
(* (dropQueuedLowPriorityMessage).                                         *)
(***************************************************************************)
THEOREM RowsKept == Spec => PriorityKept
<1>1. OInv /\ [Next]_vars =>
        [\A i \in 1..Len(sendQueue) :
           ~IsLow(sendQueue[i]) =>
             \/ sendQueue[i] \in outstanding \ outstanding'
             \/ \E j \in 1..Len(sendQueue') : sendQueue'[j] = sendQueue[i]]_vars
  BY NextOrder DEF Kept
<1> QED
  BY <1>1, OrderInductive, PTL DEF Spec, PriorityKept

(***************************************************************************)
(* A message is refused only by a queue full of rows and errors            *)
(* (enqueueMessage).                                                       *)
(***************************************************************************)
THEOREM RefusedWhenSaturated == Spec => RefusedOnlyWhenSaturated
<1>1. OInv /\ [Next]_vars =>
        [(posted' # posted /\ \A i \in 1..Len(sendQueue') : sendQueue'[i].n # posted') =>
           /\ Len(sendQueue) = QueueMax
           /\ \A i \in 2..Len(sendQueue) : ~IsLow(sendQueue[i])]_vars
  BY NextOrder DEF RefusedFull
<1> QED
  BY <1>1, OrderInductive, PTL DEF Spec, RefusedOnlyWhenSaturated

-----------------------------------------------------------------------------
(***************************************************************************)
(* The queue implements the outbox.  What waits behind the head is, as a   *)
(* set, what the outbox keeps; the steps of the queue change that set as   *)
(* the outbox does.                                                        *)
(***************************************************************************)

\* The messages behind the head of a queue.
Behind(q) == {q[i] : i \in 2..Len(q)}

DistinctNumbers(q) == \A i, j \in 1..Len(q) : q[i].n = q[j].n => i = j

\* A message is a row or an error, or is of a slot.
Formed(m) == IF IsLow(m) THEN <<m.type, m.thread>> \in Slots ELSE m.type \in Priority

WellFormed(q) == \A i \in 1..Len(q) : Formed(q[i])

RInv == OInv /\ DistinctNumbers(sendQueue) /\ WellFormed(sendQueue)

\* The messages of a set in the places of the outbox.
Rows(W) == {m \in W : ~IsLow(m)}
InSlot(W, k) == {m \in W : IsLow(m) /\ k = <<m.type, m.thread>>}
Places(W) == [k \in Slots |-> InSlot(W, k)]

\* Messages of one slot have one place.
LEMMA SlotIsPlace ==
  ASSUME NEW a, NEW b
  PROVE  SameSlot(a, b) <=> IsLow(a) /\ IsLow(b) /\ <<a.type, a.thread>> = <<b.type, b.thread>>
  BY DEF SameSlot, IsLow

\* What waits is what is behind the head.
LEMMA WaitingIsBehind ==
  ASSUME IInv
  PROVE  ToSet(Waiting) = Behind(sendQueue)
<1>1. sendQueue \in Seq(Message) /\ Len(sendQueue) \in Nat /\ (sending <=> sendQueue # <<>>)
  BY LenProperties DEF IInv, TypeOK, HeadIsOutstanding
<1>2. CASE sendQueue = <<>>
  BY <1>1, <1>2 DEF Waiting, Behind, ToSet
<1>3. CASE sendQueue # <<>>
  <2> DEFINE w == Tail(sendQueue)
  <2>1. /\ DOMAIN w = 1..(Len(sendQueue) - 1)
        /\ \A j \in 1..(Len(sendQueue) - 1) : w[j] = sendQueue[j + 1]
    BY <1>1, <1>3, HeadTailProperties
  <2>2. Waiting = w
    BY <1>1, <1>3 DEF Waiting
  <2> HIDE DEF w
  <2>3. \A i \in 2..Len(sendQueue) : i - 1 \in DOMAIN w /\ w[i - 1] = sendQueue[i]
    BY <1>1, <2>1
  <2>4. \A j \in DOMAIN w : j + 1 \in 2..Len(sendQueue) /\ w[j] = sendQueue[j + 1]
    BY <1>1, <2>1
  <2> QED
    BY <2>2, <2>3, <2>4 DEF Behind, ToSet
<1> QED
  BY <1>2, <1>3

\* There are as many of them as places behind the head.
LEMMA BehindCounted ==
  ASSUME NEW q, Len(q) \in Nat, Len(q) >= 1, DistinctNumbers(q)
  PROVE  Cardinality(Behind(q)) = Len(q) - 1
<1> DEFINE f == [i \in 2..Len(q) |-> q[i]]
<1>1. f \in [2..Len(q) -> Behind(q)] /\ \A i, j \in 2..Len(q) : f[i] = f[j] => i = j
  BY DEF Behind, DistinctNumbers
<1>2. \A m \in Behind(q) : \E i \in 2..Len(q) : f[i] = m
  BY DEF Behind
<1>3. f \in Bijection(2..Len(q), Behind(q))
  BY <1>1, <1>2, Fun_IsBij
<1> HIDE DEF f
<1>4. ExistsBijection(2..Len(q), Behind(q))
  BY <1>3 DEF ExistsBijection
<1>5. IsFiniteSet(2..Len(q)) /\ Cardinality(2..Len(q)) = Len(q) - 1
  BY FS_Interval
<1> QED
  BY <1>4, <1>5, FS_Bijection

\* A message that joins the end of a queue.
LEMMA JoinsBehind ==
  ASSUME NEW q \in Seq(Message), NEW m \in Message, NEW p, p = Append(q, m),
         DistinctNumbers(q), WellFormed(q), Formed(m), \A i \in 1..Len(q) : q[i].n # m.n
  PROVE  /\ DistinctNumbers(p) /\ WellFormed(p)
         /\ Len(q) >= 1 => Behind(p) = Behind(q) \cup {m}
         /\ Len(q) = 0 => Behind(p) = {}
<1>1. /\ Len(q) \in Nat /\ Len(p) = Len(q) + 1 /\ p[Len(q) + 1] = m
      /\ \A j \in 1..Len(q) : p[j] = q[j]
  BY AppendProperties, LenProperties
<1>2. DistinctNumbers(p)
  BY <1>1 DEF DistinctNumbers
<1>3. WellFormed(p)
  <2>1. \A i \in 1..Len(p) : i \in 1..Len(q) \/ p[i] = m
    BY <1>1
  <2> QED
    BY <1>1, <2>1 DEF WellFormed
<1>4. ASSUME Len(q) >= 1 PROVE Behind(p) = Behind(q) \cup {m}
  <2>1. \A i \in 2..Len(p) : p[i] = m \/ (i \in 2..Len(q) /\ p[i] = q[i])
    BY <1>1
  <2>2. /\ \A i \in 2..Len(q) : i \in 2..Len(p) /\ p[i] = q[i]
        /\ Len(p) \in 2..Len(p) /\ p[Len(p)] = m
    BY <1>1, <1>4
  <2> QED
    BY <2>1, <2>2 DEF Behind
<1>5. ASSUME Len(q) = 0 PROVE Behind(p) = {}
  BY <1>1, <1>5 DEF Behind
<1> QED
  BY <1>2, <1>3, <1>4, <1>5

\* A new message as the outbox makes it.
Posted(m) == Fresh(m) /\ Formed(m)

\* What enqueueMessage does to a queue whose head is being sent.
EnqueuedBehind(m) ==
  \/ /\ \E old \in Behind(sendQueue) :
          SameSlot(m, old) /\ Behind(sendQueue') = (Behind(sendQueue) \ {old}) \cup {m}
  \/ /\ \A old \in Behind(sendQueue) : ~SameSlot(m, old)
     /\ \/ /\ Len(sendQueue) < QueueMax
           /\ Behind(sendQueue') = Behind(sendQueue) \cup {m}
        \/ /\ Len(sendQueue) >= QueueMax
           /\ \E old \in Behind(sendQueue) :
                IsLow(old) /\ Behind(sendQueue') = (Behind(sendQueue) \ {old}) \cup {m}
        \/ /\ Len(sendQueue) >= QueueMax
           /\ \A old \in Behind(sendQueue) : ~IsLow(old)
           /\ Behind(sendQueue') = Behind(sendQueue)

\* The waiting message of m's slot gives its place to m.
LEMMA CoalesceBehind ==
  ASSUME RInv, NEW m, Posted(m), Coalesce(m)
  PROVE  /\ DistinctNumbers(sendQueue') /\ WellFormed(sendQueue')
         /\ sending /\ EnqueuedBehind(m)
<1>1. PICK i \in Coalescable(m) : sendQueue' = [sendQueue EXCEPT ![i] = m]
  BY DEF Coalesce, FlushSendQueue
<1>2. m \in Message /\ m.n = posted + 1 /\ Formed(m) /\ IInv
  BY DEF Posted, Fresh, RInv, OInv
<1>3. sendQueue \in Seq(Message) /\ Len(sendQueue) \in Nat /\ (sending <=> sendQueue # <<>>)
  BY <1>2, LenProperties DEF IInv, TypeOK, HeadIsOutstanding
<1>4. i \in 2..Len(sendQueue) /\ SameSlot(m, sendQueue[i])
  BY <1>2, SearchesSkipHead DEF Coalescable
<1>5. /\ Len(sendQueue') = Len(sendQueue) /\ i \in 1..Len(sendQueue)
      /\ \A j \in 1..Len(sendQueue) : sendQueue'[j] = IF j = i THEN m ELSE sendQueue[j]
  BY <1>1, <1>3, <1>4, ExceptSeq
<1>6. \A j \in 1..Len(sendQueue) : sendQueue[j].n # m.n
  BY <1>2, Numbers DEF RInv, OInv, Numbered
<1>7. DistinctNumbers(sendQueue')
  BY <1>5, <1>6 DEF DistinctNumbers, RInv
<1>8. WellFormed(sendQueue')
  BY <1>2, <1>5 DEF WellFormed, RInv
<1>9. Behind(sendQueue') = (Behind(sendQueue) \ {sendQueue[i]}) \cup {m}
  <2>1. \A j \in 2..Len(sendQueue) : sendQueue[j] = sendQueue[i] => j = i
    BY <1>5 DEF RInv, DistinctNumbers
  <2>2. \A j \in 2..Len(sendQueue) : sendQueue'[j] = IF j = i THEN m ELSE sendQueue[j]
    BY <1>5
  <2> QED
    BY <1>4, <1>5, <2>1, <2>2 DEF Behind
<1>10. sendQueue[i] \in Behind(sendQueue) /\ sendQueue # <<>>
  BY <1>3, <1>4 DEF Behind
<1> QED
  BY <1>3, <1>4, <1>7, <1>8, <1>9, <1>10 DEF EnqueuedBehind

\* No waiting message of m's slot: what the searches say of what is behind.
LEMMA NothingToReplace ==
  ASSUME IInv, NEW m \in Message, Coalescable(m) = {}
  PROVE  /\ \A old \in Behind(sendQueue) : ~SameSlot(m, old)
         /\ Droppable = {} => \A old \in Behind(sendQueue) : ~IsLow(old)
<1>1. \A i \in 2..Len(sendQueue) : ~SameSlot(m, sendQueue[i])
  BY SearchesSkipHead
<1>2. Droppable = {} => \A i \in 2..Len(sendQueue) : ~IsLow(sendQueue[i])
  <2>1. Len(sendQueue) \in Nat
    BY LenProperties DEF IInv, TypeOK
  <2> QED
    BY <2>1 DEF Droppable, FirstFree
<1> QED
  BY <1>1, <1>2 DEF Behind

\* The others join the end.
LEMMA AppendBehind ==
  ASSUME RInv, NEW m, Posted(m), AppendMessage(m) \/ EvictAndAppend(m) \/ Refuse(m)
  PROVE  /\ DistinctNumbers(sendQueue') /\ WellFormed(sendQueue')
         /\ sending => EnqueuedBehind(m)
         /\ ~sending => Behind(sendQueue') = {} /\ outstanding' = {m}
<1>1. m \in Message /\ m.n = posted + 1 /\ Formed(m) /\ IInv
  BY DEF Posted, Fresh, RInv, OInv
<1>2. /\ sendQueue \in Seq(Message) /\ Len(sendQueue) \in Nat /\ (sending <=> sendQueue # <<>>)
      /\ Len(sendQueue) = 0 <=> sendQueue = <<>>
      /\ ~sending => outstanding = {}
  BY <1>1, LenProperties, EmptySeq DEF IInv, TypeOK, HeadIsOutstanding
<1>3. /\ \A old \in Behind(sendQueue) : ~SameSlot(m, old)
      /\ Droppable = {} => \A old \in Behind(sendQueue) : ~IsLow(old)
  BY <1>1, NothingToReplace DEF AppendMessage, EvictAndAppend, Refuse
<1>4. \A i \in 1..Len(sendQueue) : sendQueue[i].n # m.n
  BY <1>1, Numbers DEF RInv, OInv, Numbered
<1>5. CASE AppendMessage(m)
  <2>1. /\ sendQueue' = Append(sendQueue, m) /\ Len(sendQueue) < QueueMax
        /\ sending' = TRUE
        /\ outstanding' = IF sending THEN outstanding ELSE outstanding \cup {Head(sendQueue')}
    <3> DEFINE q == Append(sendQueue, m)
    <3>1. q # <<>>
      BY <1>1, <1>2, AppendProperties
    <3>2. FlushSendQueue(q, sending, outstanding) /\ Len(sendQueue) < QueueMax
      BY <1>5 DEF AppendMessage
    <3> HIDE DEF q
    <3>3. sendQueue' = q /\ sending' = TRUE
      BY <3>1, <3>2 DEF FlushSendQueue
    <3>4. outstanding' = IF sending THEN outstanding ELSE outstanding \cup {Head(q)}
      BY <3>1, <3>2 DEF FlushSendQueue
    <3> QED
      BY <3>2, <3>3, <3>4 DEF q
  <2>2. /\ DistinctNumbers(sendQueue') /\ WellFormed(sendQueue')
        /\ Len(sendQueue) >= 1 => Behind(sendQueue') = Behind(sendQueue) \cup {m}
        /\ Len(sendQueue) = 0 => Behind(sendQueue') = {}
    BY <1>1, <1>2, <1>4, <2>1, JoinsBehind DEF RInv
  <2>3. sending => EnqueuedBehind(m)
    BY <1>2, <1>3, <2>1, <2>2 DEF EnqueuedBehind
  <2>4. ~sending => outstanding' = {m}
    <3> SUFFICES ASSUME ~sending PROVE outstanding' = {m}
      OBVIOUS
    <3>1. Len(sendQueue') = 1 /\ sendQueue'[1] = m /\ sendQueue' \in Seq(Message)
      BY <1>1, <1>2, <2>1, AppendProperties
    <3>2. Head(sendQueue') = m
      BY <3>1, HeadTailProperties, EmptySeq
    <3> QED
      BY <1>2, <2>1, <3>2
  <2> QED
    BY <1>2, <2>2, <2>3, <2>4
<1>6. CASE EvictAndAppend(m)
  <2>1. PICK i \in Droppable : sendQueue' = Append(RemoveAt(sendQueue, i), m)
    BY <1>6 DEF EvictAndAppend, FlushSendQueue
  <2> DEFINE q == RemoveAt(sendQueue, i)
  <2>2. i \in 2..Len(sendQueue) /\ IsLow(sendQueue[i]) /\ i \in 1..Len(sendQueue)
        /\ Len(sendQueue) >= 2 /\ Len(sendQueue) >= QueueMax
    BY <1>1, <1>2, <1>6, SearchesSkipHead DEF Droppable, EvictAndAppend
  <2>3. /\ q \in Seq(Message)
        /\ Len(q) = Len(sendQueue) - 1
        /\ \A j \in 1..(Len(sendQueue) - 1) :
             q[j] = IF j < i THEN sendQueue[j] ELSE sendQueue[j + 1]
    BY <1>2, <2>2, RemoveAtProperties
  <2> HIDE DEF q
  <2> DEFINE at(x) == IF x < i THEN x ELSE x + 1
  <2>4. \A j \in 1..Len(q) : at(j) \in 1..Len(sendQueue) /\ at(j) # i /\ q[j] = sendQueue[at(j)]
    BY <1>2, <2>2, <2>3
  <2>5. \A j, k \in 1..Len(q) : at(j) = at(k) => j = k
    BY <1>2, <2>2, <2>3
  <2>6. \A j \in 2..Len(q) : at(j) \in 2..Len(sendQueue)
    BY <1>2, <2>2, <2>3
  <2>7. \A l \in 2..Len(sendQueue) : l # i => \E j \in 2..Len(q) : at(j) = l
    <3> SUFFICES ASSUME NEW l \in 2..Len(sendQueue), l # i
                 PROVE  \E j \in 2..Len(q) : at(j) = l
      OBVIOUS
    <3>1. CASE l < i
      <4>1. l \in 2..Len(q) /\ at(l) = l
        BY <1>2, <2>2, <2>3, <3>1
      <4> QED
        BY <4>1
    <3>2. CASE l > i
      <4>1. l - 1 \in 2..Len(q) /\ at(l - 1) = l
        BY <1>2, <2>2, <2>3, <3>2
      <4> QED
        BY <4>1
    <3> QED
      BY <1>2, <2>2, <3>1, <3>2
  <2> HIDE DEF at
  <2>8. DistinctNumbers(q) /\ WellFormed(q) /\ \A j \in 1..Len(q) : q[j].n # m.n
    <3>1. DistinctNumbers(q)
      BY <2>4, <2>5 DEF DistinctNumbers, RInv
    <3>2. WellFormed(q) /\ \A j \in 1..Len(q) : q[j].n # m.n
      BY <1>4, <2>4 DEF WellFormed, RInv
    <3> QED
      BY <3>1, <3>2
  <2>9. Behind(q) = Behind(sendQueue) \ {sendQueue[i]}
    <3>1. \A j \in 2..Len(sendQueue) : sendQueue[j] = sendQueue[i] => j = i
      BY <1>2, <2>2 DEF RInv, DistinctNumbers
    <3>2. \A j \in 2..Len(q) : q[j] = sendQueue[at(j)] /\ at(j) # i
      BY <2>3, <2>4, SMTT(40)
    <3> QED
      BY <2>6, <2>7, <3>1, <3>2 DEF Behind
  <2>10. sendQueue[i] \in Behind(sendQueue)
    BY <2>2 DEF Behind
  <2>11. sendQueue' = Append(q, m) /\ Len(q) >= 1
    BY <1>2, <2>1, <2>2, <2>3 DEF q
  <2>12. /\ DistinctNumbers(sendQueue') /\ WellFormed(sendQueue')
         /\ Behind(sendQueue') = Behind(q) \cup {m}
    BY <1>1, <2>3, <2>8, <2>11, JoinsBehind
  <2>13. EnqueuedBehind(m)
    BY <1>3, <2>2, <2>9, <2>10, <2>12 DEF EnqueuedBehind
  <2>14. sending
    BY <1>2, <2>2
  <2> QED
    BY <2>12, <2>13, <2>14
<1>7. CASE Refuse(m)
  <2>1. sendQueue' = sendQueue /\ Len(sendQueue) >= QueueMax /\ Droppable = {}
    BY <1>7 DEF Refuse, FlushSendQueue
  <2>2. sending
    BY <1>2, <2>1, QueueMaxAssumption
  <2> QED
    BY <1>3, <2>1, <2>2 DEF RInv, EnqueuedBehind
<1> QED
  BY <1>5, <1>6, <1>7

\* The message on the air leaves, and the next one is no longer behind it.
LEMMA ShiftBehind ==
  ASSUME RInv, NEW m \in outstanding, Shift(m)
  PROVE  /\ DistinctNumbers(sendQueue') /\ WellFormed(sendQueue')
         /\ \/ Behind(sendQueue) = {} /\ Behind(sendQueue') = {} /\ outstanding' = {}
            \/ \E next \in Behind(sendQueue) :
                 /\ outstanding' = {next} /\ Behind(sendQueue') = Behind(sendQueue) \ {next}
                 /\ ~IsLow(next) => \A r \in Rows(Behind(sendQueue)) : next.n <= r.n
<1>1. Len(sendQueue) \in Nat /\ Len(sendQueue) >= 1
  BY LenProperties, EmptySeq DEF RInv, OInv, IInv, TypeOK, HeadIsOutstanding
<1>2. /\ sendQueue \in Seq(Message) /\ Len(sendQueue) \in Nat /\ Len(sendQueue) >= 1
      /\ sendQueue # <<>> /\ outstanding = {m}
  BY <1>1 DEF RInv, OInv, IInv, TypeOK, HeadIsOutstanding
<1>3. /\ sendQueue' = Tail(sendQueue) /\ sendQueue' \in Seq(Message)
      /\ Len(sendQueue') = Len(sendQueue) - 1
      /\ \A j \in 1..(Len(sendQueue) - 1) : sendQueue'[j] = sendQueue[j + 1]
      /\ outstanding' = IF sendQueue' = <<>> THEN {} ELSE {Head(sendQueue')}
  BY <1>2, HeadTailProperties DEF Shift, FlushSendQueue
<1>4. DistinctNumbers(sendQueue')
  <2>1. \A j \in 1..Len(sendQueue') : j + 1 \in 1..Len(sendQueue)
    BY <1>2, <1>3
  <2> QED
    BY <1>2, <1>3, <2>1 DEF DistinctNumbers, RInv
<1>5. WellFormed(sendQueue')
  <2>1. \A j \in 1..Len(sendQueue') : j + 1 \in 1..Len(sendQueue)
    BY <1>2, <1>3
  <2> QED
    BY <1>3, <2>1 DEF WellFormed, RInv
<1>6. CASE Len(sendQueue) = 1
  BY <1>2, <1>3, <1>4, <1>5, <1>6, EmptySeq DEF Behind
<1>7. CASE Len(sendQueue) > 1
  <2> DEFINE next == sendQueue[2]
  <2>1. 2 \in 2..Len(sendQueue) /\ sendQueue'[1] = next /\ sendQueue' # <<>>
    <3>1. 2 \in 2..Len(sendQueue) /\ 1 \in 1..(Len(sendQueue) - 1) /\ Len(sendQueue') # 0
      BY <1>2, <1>3, <1>7
    <3>2. sendQueue'[1] = sendQueue[1 + 1] /\ 1 + 1 = 2
      BY <1>3, <3>1
    <3> QED
      BY <1>3, <3>1, <3>2, EmptySeq
  <2>2. outstanding' = {next} /\ next \in Behind(sendQueue)
    BY <1>3, <2>1, HeadTailProperties DEF Behind
  <2>3. Behind(sendQueue') = Behind(sendQueue) \ {next}
    <3>1. \A j \in 2..Len(sendQueue') :
            j + 1 \in 2..Len(sendQueue) /\ j + 1 # 2 /\ sendQueue'[j] = sendQueue[j + 1]
      BY <1>2, <1>3
    <3>2. \A i \in 2..Len(sendQueue) :
            i # 2 => i - 1 \in 2..Len(sendQueue') /\ sendQueue'[i - 1] = sendQueue[i]
      <4> SUFFICES ASSUME NEW i \in 2..Len(sendQueue), i # 2
                   PROVE  i - 1 \in 2..Len(sendQueue') /\ sendQueue'[i - 1] = sendQueue[i]
        OBVIOUS
      <4>1. i - 1 \in 2..Len(sendQueue') /\ i - 1 \in 1..(Len(sendQueue) - 1) /\ (i - 1) + 1 = i
        BY <1>2, <1>3
      <4>2. sendQueue'[i - 1] = sendQueue[(i - 1) + 1]
        BY <1>3, <4>1
      <4> QED
        BY <4>1, <4>2
    <3>3. \A i \in 2..Len(sendQueue) : sendQueue[i] = next => i = 2
      BY <1>2, <1>7 DEF RInv, DistinctNumbers
    <3>4. sendQueue[2] = next
      OBVIOUS
    <3> HIDE DEF next
    <3>5. \A j \in 2..Len(sendQueue') : sendQueue'[j] # next
      BY <3>1, <3>3
    <3>6. \A x \in Behind(sendQueue') : x \in Behind(sendQueue) /\ x # next
      BY <3>1, <3>5 DEF Behind
    <3>7. \A x \in Behind(sendQueue) : x = next \/ x \in Behind(sendQueue')
      BY <3>2, <3>4 DEF Behind
    <3> QED
      BY <3>6, <3>7
  <2>4. ~IsLow(next) => \A r \in Rows(Behind(sendQueue)) : next.n <= r.n
    <3> SUFFICES ASSUME ~IsLow(next), NEW i \in 2..Len(sendQueue), ~IsLow(sendQueue[i])
                 PROVE  next.n <= sendQueue[i].n
      BY DEF Rows, Behind
    <3>1. next.n \in Nat /\ sendQueue[i].n \in Nat
      BY <1>2, <1>7, Numbers DEF RInv, OInv
    <3>2. CASE i = 2
      BY <3>1, <3>2
    <3>3. CASE i # 2
      <4>1. Ordered(next, sendQueue[i])
        BY <1>2, <1>7, <3>3 DEF RInv, OInv, InOrder
      <4> QED
        BY <3>1, <4>1 DEF Ordered, MustPrecede
    <3> QED
      BY <3>2, <3>3
  <2> HIDE DEF next
  <2> QED
    BY <1>4, <1>5, <2>2, <2>3, <2>4
<1>8. Len(sendQueue) = 1 \/ Len(sendQueue) > 1
  <2>1. \A k \in Nat : k >= 1 => k = 1 \/ k > 1
    OBVIOUS
  <2> QED
    BY <1>1, <2>1, Zenon
<1> QED
  BY <1>6, <1>7, <1>8, Zenon

\* A set of messages that could wait.
Storable(W) ==
  /\ \A a \in W : Formed(a)
  /\ \A a, b \in W : SameSlot(a, b) => a = b

SlotOf(a) == <<a.type, a.thread>>

\* Where the messages of such a set are, and what replacing, adding and taking
\* one does to the places.
LEMMA PlacesFilled ==
  ASSUME NEW W, Storable(W)
  PROVE  /\ Rows(W) \cup UNION {Places(W)[k] : k \in Slots} = W
         /\ \A a \in W : IsLow(a) => /\ SlotOf(a) \in Slots
                                   /\ Places(W)[SlotOf(a)] = {a}
<1>1. \A k \in Slots : Places(W)[k] = InSlot(W, k)
  BY DEF Places
<1>2. ASSUME NEW a \in W, IsLow(a)
      PROVE  SlotOf(a) \in Slots /\ InSlot(W, SlotOf(a)) = {a}
  <2>1. SlotOf(a) \in Slots
    BY <1>2, Zenon DEF Storable, Formed, SlotOf
  <2>2. \A b \in W : IsLow(b) /\ SlotOf(a) = SlotOf(b) => a = b
    BY <1>2, SlotIsPlace DEF Storable, SlotOf
  <2> QED
    BY <1>2, <2>1, <2>2 DEF InSlot, SlotOf
<1> HIDE DEF Places
<1>3. Rows(W) \cup UNION {Places(W)[k] : k \in Slots} = W
  <2>1. \A k \in Slots : Places(W)[k] \subseteq W
    BY <1>1 DEF InSlot
  <2>2. \A a \in W : a \in Rows(W) \/ \E k \in Slots : a \in Places(W)[k]
    <3> SUFFICES ASSUME NEW a \in W, a \notin Rows(W)
                 PROVE  \E k \in Slots : a \in Places(W)[k]
      OBVIOUS
    <3>1. IsLow(a)
      BY DEF Rows
    <3>2. SlotOf(a) \in Slots /\ a \in Places(W)[SlotOf(a)]
      BY <1>1, <1>2, <3>1
    <3> QED
      BY <3>2
  <2> QED
    BY <2>1, <2>2 DEF Rows
<1> QED
  BY <1>1, <1>2, <1>3

\* A set in which m has the place of old.
Replaced(W, old, m) == (W \ {old}) \cup {m}

\* Replacing leaves the rows alone, empties the old place and fills the new one.
LEMMA LowReplaced ==
  ASSUME NEW W, Storable(W), NEW old \in W, IsLow(old), NEW m, IsLow(m), Formed(m),
         \A a \in W : a = old \/ ~SameSlot(m, a)
  PROVE  /\ Rows(Replaced(W, old, m)) = Rows(W) /\ SlotOf(m) \in Slots
         /\ Places(Replaced(W, old, m)) =
              [Places(W) EXCEPT ![SlotOf(old)] = {}, ![SlotOf(m)] = {m}]
<1> DEFINE V == Replaced(W, old, m)
<1>1. Rows(V) = Rows(W)
  BY DEF Rows, Replaced
<1>2. SlotOf(m) \in Slots /\ SlotOf(old) \in Slots
  BY DEF Formed, SlotOf, Storable
<1>3. ASSUME NEW k \in Slots
      PROVE  InSlot(V, k) = IF k = SlotOf(m) THEN {m}
                            ELSE IF k = SlotOf(old) THEN {} ELSE InSlot(W, k)
  <2>1. \A a \in W : IsLow(a) /\ a # old => SlotOf(a) # SlotOf(m)
    BY SlotIsPlace DEF SlotOf
  <2>2. \A a \in W \ {old} : IsLow(a) => SlotOf(a) # SlotOf(old)
    BY SlotIsPlace DEF SlotOf, Storable
  <2> QED
    BY <2>1, <2>2 DEF InSlot, SlotOf, Replaced
<1> DEFINE p == Places(W)
<1>4. p = [k \in Slots |-> InSlot(W, k)] /\ Places(V) = [k \in Slots |-> InSlot(V, k)]
  BY Zenon DEF Places
<1> HIDE DEF V, p
<1>5. Places(V) = [p EXCEPT ![SlotOf(old)] = {}, ![SlotOf(m)] = {m}]
  BY <1>2, <1>3, <1>4
<1> QED
  BY <1>1, <1>2, <1>5 DEF V, p

\* Taking one empties its place.
LEMMA LowTaken ==
  ASSUME NEW W, Storable(W), NEW old \in W, IsLow(old)
  PROVE  /\ Rows(W \ {old}) = Rows(W)
         /\ Places(W \ {old}) = [Places(W) EXCEPT ![SlotOf(old)] = {}]
<1> DEFINE V == W \ {old}
           p == Places(W)
<1>1. Rows(V) = Rows(W)
  BY DEF Rows
<1>2. ASSUME NEW k \in Slots
      PROVE  InSlot(V, k) = IF k = SlotOf(old) THEN {} ELSE InSlot(W, k)
  <2>1. \A a \in W \ {old} : IsLow(a) => SlotOf(a) # SlotOf(old)
    BY SlotIsPlace DEF SlotOf, Storable
  <2> QED
    BY <2>1 DEF InSlot, SlotOf
<1>3. p = [k \in Slots |-> InSlot(W, k)] /\ Places(V) = [k \in Slots |-> InSlot(V, k)]
  BY Zenon DEF Places
<1> HIDE DEF V, p
<1>4. Places(V) = [p EXCEPT ![SlotOf(old)] = {}]
  BY <1>2, <1>3
<1> QED
  BY <1>1, <1>4 DEF V, p

\* Adding one of a slot nothing waits in fills its place.
LEMMA LowAdded ==
  ASSUME NEW W, Storable(W), NEW m, IsLow(m), Formed(m), \A a \in W : ~SameSlot(m, a)
  PROVE  /\ Rows(W \cup {m}) = Rows(W) /\ SlotOf(m) \in Slots
         /\ Places(W)[SlotOf(m)] = {}
         /\ Places(W \cup {m}) = [Places(W) EXCEPT ![SlotOf(m)] = {m}]
<1> DEFINE V == W \cup {m}
           p == Places(W)
<1>1. Rows(V) = Rows(W)
  BY DEF Rows
<1>2. SlotOf(m) \in Slots
  BY DEF Formed, SlotOf
<1>3. /\ InSlot(W, SlotOf(m)) = {}
      /\ \A k \in Slots : InSlot(V, k) = IF k = SlotOf(m) THEN {m} ELSE InSlot(W, k)
  <2>1. \A a \in W : IsLow(a) => SlotOf(a) # SlotOf(m)
    BY SlotIsPlace DEF SlotOf
  <2> QED
    BY <2>1 DEF InSlot, SlotOf
<1>4. p = [k \in Slots |-> InSlot(W, k)] /\ Places(V) = [k \in Slots |-> InSlot(V, k)]
  BY Zenon DEF Places
<1> HIDE DEF V, p
<1>5. Places(V) = [p EXCEPT ![SlotOf(m)] = {m}] /\ p[SlotOf(m)] = {}
  BY <1>2, <1>3, <1>4
<1> QED
  BY <1>1, <1>2, <1>5 DEF V, p

\* Rows and errors are in no slot.
LEMMA HighMoved ==
  ASSUME NEW W, NEW m, ~IsLow(m)
  PROVE  /\ Rows(W \cup {m}) = Rows(W) \cup {m} /\ Places(W \cup {m}) = Places(W)
         /\ Rows(W \ {m}) = Rows(W) \ {m} /\ Places(W \ {m}) = Places(W)
<1>1. \A k : InSlot(W \cup {m}, k) = InSlot(W, k) /\ InSlot(W \ {m}, k) = InSlot(W, k)
  BY DEF InSlot
<1> QED
  BY <1>1 DEF Rows, Places

\* What waits could wait.
LEMMA BehindStorable ==
  ASSUME RInv
  PROVE  Storable(Behind(sendQueue))
<1>1. Len(sendQueue) \in Nat /\ SlotsUnique
  BY LenProperties DEF RInv, OInv, IInv, TypeOK
<1>2. \A a \in Behind(sendQueue) : Formed(a)
  BY <1>1 DEF Behind, RInv, WellFormed
<1>3. \A a, b \in Behind(sendQueue) : SameSlot(a, b) => a = b
  BY <1>1 DEF Behind, SlotsUnique
<1> QED
  BY <1>2, <1>3 DEF Storable

\* The outbox is what waits behind the head, and full when the queue is.
Mapped ==
  /\ OutboxRows = Rows(Behind(sendQueue))
  /\ OutboxSlot = Places(Behind(sendQueue))
  /\ Outbox!LowSlots = Slots
  /\ sending => (Outbox!Full <=> Len(sendQueue) >= QueueMax)
  /\ sending <=> outstanding # {}

\* That holds in every state the queue can be in.
LEMMA OutboxMapped == RInv => Mapped
<1> SUFFICES ASSUME RInv PROVE Mapped
  OBVIOUS
<1> DEFINE W == Behind(sendQueue)
<1>1. ToSet(Waiting) = W /\ Storable(W) /\ IInv
  BY WaitingIsBehind, BehindStorable DEF RInv, OInv
<1>2. OutboxRows = Rows(W) /\ OutboxSlot = Places(W)
  BY <1>1, Zenon DEF OutboxRows, OutboxSlot, Occupant, Rows, Places, InSlot
<1>3. Outbox!LowSlots = Slots
  BY Zenon DEF Outbox!LowSlots, Slots
<1>4. Outbox!WaitingMessages = W
  <2>1. Outbox!WaitingMessages = Rows(W) \cup UNION {Places(W)[k] : k \in Slots}
    BY <1>2, <1>3, Zenon DEF Outbox!WaitingMessages
  <2> QED
    BY <1>1, <2>1, PlacesFilled
<1>5. sending => (Outbox!Full <=> Len(sendQueue) >= QueueMax)
  <2> SUFFICES ASSUME sending PROVE Outbox!Full <=> Len(sendQueue) >= QueueMax
    OBVIOUS
  <2>1. Len(sendQueue) \in Nat /\ Len(sendQueue) >= 1
    BY <1>1, LenProperties, EmptySeq DEF IInv, TypeOK, HeadIsOutstanding
  <2>2. Cardinality(W) = Len(sendQueue) - 1
    BY <2>1, BehindCounted DEF RInv
  <2> HIDE DEF W
  <2>3. Outbox!Full <=> Cardinality(W) >= QueueMax - 1
    <3>1. Outbox!Cardinality(W) = Cardinality(W)
      BY Zenon DEF Outbox!Cardinality, Cardinality, Outbox!IsFiniteSet, IsFiniteSet
    <3> QED
      BY <1>4, <3>1, Zenon DEF Outbox!Full
  <2> QED
    BY <2>1, <2>2, <2>3, QueueMaxAssumption
<1>6. sending <=> outstanding # {}
  BY <1>1 DEF IInv, HeadIsOutstanding
<1> QED
  BY <1>2, <1>3, <1>5, <1>6 DEF Mapped

\* After a step as before it.
LEMMA OutboxMappedNext == RInv' => Mapped'
  BY OutboxMapped, PTL

\* A slot is used when a message of it waits.
LEMMA UsedSlots ==
  ASSUME RInv
  PROVE  /\ \A old \in Behind(sendQueue) :
              IsLow(old) => SlotOf(old) \in Outbox!Used /\ OutboxSlot[SlotOf(old)] = {old}
         /\ (\A old \in Behind(sendQueue) : ~IsLow(old)) => Outbox!Used = {}
<1> DEFINE W == Behind(sendQueue)
<1>1. OutboxSlot = Places(W) /\ Outbox!LowSlots = Slots /\ Storable(W)
  BY OutboxMapped, BehindStorable DEF Mapped
<1>2. Outbox!Used = {k \in Slots : Places(W)[k] # {}}
  BY <1>1, Zenon DEF Outbox!Used
<1>3. (\A old \in W : ~IsLow(old)) => \A k \in Slots : Places(W)[k] = {}
  BY DEF Places, InSlot
<1>4. \A old \in W : IsLow(old) => SlotOf(old) \in Slots /\ Places(W)[SlotOf(old)] = {old}
  BY <1>1, PlacesFilled
<1> QED
  BY <1>1, <1>2, <1>3, <1>4

-----------------------------------------------------------------------------
(***************************************************************************)
(* The steps.                                                              *)
(***************************************************************************)

\* The invariant, and what enqueueMessage does, for a new message.
LEMMA EnqueueBehind ==
  ASSUME RInv, NEW m, Posted(m),
         Coalesce(m) \/ AppendMessage(m) \/ EvictAndAppend(m) \/ Refuse(m)
  PROVE  /\ DistinctNumbers(sendQueue') /\ WellFormed(sendQueue')
         /\ sending => EnqueuedBehind(m) /\ outstanding' = outstanding
         /\ ~sending => Behind(sendQueue') = {} /\ outstanding' = {m}
<1>1. sending => outstanding' = outstanding
  BY DEF Coalesce, AppendMessage, EvictAndAppend, Refuse, FlushSendQueue
<1> QED
  BY <1>1, CoalesceBehind, AppendBehind

\* A row or an error that is posted.
LEMMA RowPosted ==
  ASSUME RInv, RInv', NEW m, Posted(m), ~IsLow(m),
         Coalesce(m) \/ AppendMessage(m) \/ EvictAndAppend(m) \/ Refuse(m)
  PROVE  Outbox!PostIdle(m) \/ Outbox!PostRow(m)
<1> DEFINE W == Behind(sendQueue)
           V == Behind(sendQueue')
<1>1. /\ OutboxRows = Rows(W) /\ OutboxSlot = Places(W)
      /\ OutboxRows' = Rows(V) /\ OutboxSlot' = Places(V)
      /\ sending <=> outstanding # {}
  BY OutboxMapped, OutboxMappedNext DEF Mapped
<1>2. Storable(W) /\ \A old : ~SameSlot(m, old)
  BY BehindStorable DEF SameSlot
<1>3. CASE ~sending
  <2>1. V = {} /\ outstanding' = {m}
    BY <1>3, EnqueueBehind
  <2>2. sendQueue = <<>>
    BY <1>3 DEF RInv, OInv, IInv, HeadIsOutstanding
  <2>3. W = {}
    BY <2>2 DEF Behind
  <2> QED
    BY <1>1, <1>3, <2>1, <2>3 DEF Outbox!PostIdle
<1>4. CASE sending
  <2>1. EnqueuedBehind(m) /\ outstanding' = outstanding
    BY <1>4, EnqueueBehind
  <2>2. Outbox!Full <=> Len(sendQueue) >= QueueMax
    BY <1>4, OutboxMapped DEF Mapped
  <2>3. /\ Len(sendQueue) \in Nat /\ QueueMax \in Nat
    BY LenProperties, QueueMaxAssumption DEF RInv, OInv, IInv, TypeOK
  <2> HIDE DEF W, V
  <2>4. CASE Len(sendQueue) < QueueMax /\ V = W \cup {m}
    <3>1. Rows(V) = Rows(W) \cup {m} /\ Places(V) = Places(W)
      BY <2>4, HighMoved
    <3>2. ~Outbox!Full
      BY <2>2, <2>3, <2>4
    <3> QED
      BY <1>1, <1>4, <2>1, <3>1, <3>2 DEF Outbox!PostRow
  <2>5. CASE /\ Len(sendQueue) >= QueueMax
             /\ \E old \in W : IsLow(old) /\ V = (W \ {old}) \cup {m}
    <3>1. PICK old \in W : IsLow(old) /\ V = (W \ {old}) \cup {m}
      BY <2>5
    <3>2. /\ Rows(W \ {old}) = Rows(W)
          /\ Places(W \ {old}) = [Places(W) EXCEPT ![SlotOf(old)] = {}]
      BY <1>2, <3>1, LowTaken
    <3>3. Rows(V) = Rows(W \ {old}) \cup {m} /\ Places(V) = Places(W \ {old})
      BY <3>1, HighMoved
    <3>4. SlotOf(old) \in Outbox!Used
      BY <3>1, UsedSlots DEF W
    <3>5. /\ OutboxSlot' = [OutboxSlot EXCEPT ![SlotOf(old)] = {}]
          /\ OutboxRows' = OutboxRows \cup {m} /\ Outbox!Full
      BY <1>1, <2>2, <2>5, <3>2, <3>3
    <3> QED
      BY <1>1, <1>4, <2>1, <3>4, <3>5 DEF Outbox!PostRow
  <2>6. CASE /\ Len(sendQueue) >= QueueMax
             /\ \A old \in W : ~IsLow(old)
             /\ V = W
    <3>1. Outbox!Used = {} /\ Outbox!Full
      BY <2>2, <2>6, UsedSlots DEF W
    <3> QED
      BY <1>1, <1>4, <2>1, <2>6, <3>1 DEF Outbox!PostRow
  <2> QED
    BY <1>2, <2>1, <2>4, <2>5, <2>6 DEF EnqueuedBehind, W, V
<1> QED
  BY <1>3, <1>4

\* A status, settings or detail that is posted.
LEMMA LatestPosted ==
  ASSUME RInv, RInv', NEW m, Posted(m), IsLow(m),
         Coalesce(m) \/ AppendMessage(m) \/ EvictAndAppend(m) \/ Refuse(m)
  PROVE  Outbox!PostIdle(m) \/ Outbox!PostLatest(m)
<1> DEFINE W == Behind(sendQueue)
           V == Behind(sendQueue')
<1>1. /\ OutboxRows = Rows(W) /\ OutboxSlot = Places(W)
      /\ OutboxRows' = Rows(V) /\ OutboxSlot' = Places(V)
      /\ sending <=> outstanding # {}
  BY OutboxMapped, OutboxMappedNext DEF Mapped
<1>2. Storable(W) /\ Formed(m) /\ SlotOf(m) = <<m.type, m.thread>>
  BY BehindStorable DEF Posted, SlotOf
<1>3. CASE ~sending
  <2>1. V = {} /\ outstanding' = {m}
    BY <1>3, EnqueueBehind
  <2>2. sendQueue = <<>>
    BY <1>3 DEF RInv, OInv, IInv, HeadIsOutstanding
  <2>3. W = {}
    BY <2>2 DEF Behind
  <2> QED
    BY <1>1, <1>3, <2>1, <2>3 DEF Outbox!PostIdle
<1>4. CASE sending
  <2>1. EnqueuedBehind(m) /\ outstanding' = outstanding
    BY <1>4, EnqueueBehind
  <2>2. Outbox!Full <=> Len(sendQueue) >= QueueMax
    BY <1>4, OutboxMapped DEF Mapped
  <2>3. /\ Len(sendQueue) \in Nat /\ QueueMax \in Nat
    BY LenProperties, QueueMaxAssumption DEF RInv, OInv, IInv, TypeOK
  <2> HIDE DEF W, V
  <2>4. CASE \E old \in W : SameSlot(m, old) /\ V = (W \ {old}) \cup {m}
    <3>1. PICK old \in W : SameSlot(m, old) /\ V = (W \ {old}) \cup {m}
      BY <2>4
    <3>2. /\ IsLow(old) /\ V = Replaced(W, old, m)
          /\ \A a \in W : a = old \/ ~SameSlot(m, a)
      BY <1>2, <3>1, SlotIsPlace DEF Storable, Replaced
    <3>3. /\ SlotOf(old) = SlotOf(m) /\ Places(W)[SlotOf(m)] = {old}
          /\ DOMAIN Places(W) = Slots /\ SlotOf(m) \in Slots
      BY <1>2, <3>1, <3>2, PlacesFilled DEF SameSlot, SlotOf, Places
    <3>4. /\ Rows(V) = Rows(W)
          /\ Places(V) = [Places(W) EXCEPT ![SlotOf(old)] = {}, ![SlotOf(m)] = {m}]
      <4>1. Storable(W) /\ old \in W /\ IsLow(old) /\ IsLow(m) /\ Formed(m)
        BY <1>2, <3>1, <3>2
      <4>2. \A a \in W : a = old \/ ~SameSlot(m, a)
        BY <3>2
      <4>3. /\ Rows(Replaced(W, old, m)) = Rows(W)
            /\ Places(Replaced(W, old, m)) =
              [Places(W) EXCEPT ![SlotOf(old)] = {}, ![SlotOf(m)] = {m}]
        BY <4>1, <4>2, LowReplaced
      <4> QED
        BY <3>2, <4>3
    <3>5. Places(V) = [Places(W) EXCEPT ![SlotOf(m)] = {m}]
      BY <3>3, <3>4
    <3> QED
      BY <1>1, <1>2, <1>4, <2>1, <3>3, <3>4, <3>5 DEF Outbox!PostLatest
  <2>5. CASE /\ \A old \in W : ~SameSlot(m, old)
             /\ Len(sendQueue) < QueueMax /\ V = W \cup {m}
    <3>1. Rows(V) = Rows(W) /\ Places(V) = [Places(W) EXCEPT ![SlotOf(m)] = {m}]
      BY <1>2, <2>5, LowAdded
    <3>2. ~Outbox!Full
      BY <2>2, <2>3, <2>5
    <3> QED
      BY <1>1, <1>2, <1>4, <2>1, <3>1, <3>2 DEF Outbox!PostLatest
  <2>6. CASE /\ \A old \in W : ~SameSlot(m, old)
             /\ Len(sendQueue) >= QueueMax
             /\ \E old \in W : IsLow(old) /\ V = (W \ {old}) \cup {m}
    <3>1. PICK old \in W : IsLow(old) /\ V = (W \ {old}) \cup {m}
      BY <2>6
    <3>2. /\ Rows(V) = Rows(W)
          /\ Places(V) = [Places(W) EXCEPT ![SlotOf(old)] = {}, ![SlotOf(m)] = {m}]
      <4>1. Storable(W) /\ old \in W /\ IsLow(old) /\ IsLow(m) /\ Formed(m)
        BY <1>2, <3>1
      <4>2. \A a \in W : a = old \/ ~SameSlot(m, a)
        BY <2>6
      <4>3. /\ Rows(Replaced(W, old, m)) = Rows(W)
            /\ Places(Replaced(W, old, m)) =
              [Places(W) EXCEPT ![SlotOf(old)] = {}, ![SlotOf(m)] = {m}]
        BY <4>1, <4>2, LowReplaced
      <4>4. V = Replaced(W, old, m)
        BY <3>1 DEF Replaced
      <4> QED
        BY <4>3, <4>4
    <3>3. Places(W)[SlotOf(m)] = {}
      BY <1>2, <2>6, LowAdded
    <3>4. SlotOf(old) \in Outbox!Used /\ Outbox!Full
      BY <2>2, <2>6, <3>1, UsedSlots DEF W
    <3> QED
      BY <1>1, <1>2, <1>4, <2>1, <3>2, <3>3, <3>4 DEF Outbox!PostLatest
  <2>7. CASE /\ Len(sendQueue) >= QueueMax
             /\ \A old \in W : ~IsLow(old)
             /\ V = W
    <3>1. Outbox!Used = {} /\ Outbox!Full
      BY <2>2, <2>7, UsedSlots DEF W
    <3> QED
      BY <1>1, <1>4, <2>1, <2>7, <3>1 DEF Outbox!PostLatest
  <2> QED
    BY <2>1, <2>4, <2>5, <2>6, <2>7 DEF EnqueuedBehind, W, V
<1> QED
  BY <1>3, <1>4

\* A callback.
LEMMA CallbackDone ==
  ASSUME RInv, RInv', NEW m \in outstanding, Shift(m)
  PROVE  Outbox!Done
<1> DEFINE W == Behind(sendQueue)
           V == Behind(sendQueue')
<1>1. /\ OutboxRows = Rows(W) /\ OutboxSlot = Places(W)
      /\ OutboxRows' = Rows(V) /\ OutboxSlot' = Places(V)
      /\ outstanding # {} /\ posted' = posted
  BY OutboxMapped, OutboxMappedNext DEF Mapped, Shift, RInv, OInv, IInv, HeadIsOutstanding
<1>2. Storable(W)
  BY BehindStorable
<1>3. CASE W = {} /\ V = {} /\ outstanding' = {}
  <2>1. Outbox!Used = {} /\ Rows(W) = {}
    BY <1>3, UsedSlots DEF Rows
  <2> QED
    BY <1>1, <1>3, <2>1 DEF Outbox!Done
<1>4. CASE \E next \in W :
             /\ outstanding' = {next} /\ V = W \ {next}
             /\ ~IsLow(next) => \A r \in Rows(W) : next.n <= r.n
  <2>1. PICK next \in W :
          /\ outstanding' = {next} /\ V = W \ {next}
          /\ ~IsLow(next) => \A r \in Rows(W) : next.n <= r.n
    BY <1>4
  <2> HIDE DEF W, V
  <2>2. CASE IsLow(next)
    <3>1. Rows(V) = Rows(W) /\ Places(V) = [Places(W) EXCEPT ![SlotOf(next)] = {}]
      BY <1>2, <2>1, <2>2, LowTaken
    <3>2. SlotOf(next) \in Outbox!Used /\ OutboxSlot[SlotOf(next)] = {next}
      BY <2>1, <2>2, UsedSlots DEF W
    <3> QED
      BY <1>1, <2>1, <3>1, <3>2 DEF Outbox!Done
  <2>3. CASE ~IsLow(next)
    <3>1. Rows(V) = Rows(W) \ {next} /\ Places(V) = Places(W) /\ next \in Rows(W)
      BY <2>1, <2>3, HighMoved DEF Rows
    <3> QED
      BY <1>1, <2>1, <2>3, <3>1 DEF Outbox!Done
  <2> QED
    BY <2>2, <2>3
<1> QED
  BY <1>3, <1>4, ShiftBehind

-----------------------------------------------------------------------------

\* Whatever sendEnvelope does with a new message is a step of the outbox.
LEMMA SendEnvelopePosts ==
  ASSUME RInv, NEW type \in LowPriority \cup Priority, NEW id \in Threads \cup {NoThread},
         type \in Priority \/ <<type, id>> \in Slots,
         type \in Priority => id = NoThread,
         SendEnvelope(type, id)
  PROVE  RInv' /\ Outbox!Next
<1> DEFINE m == [type |-> type, thread |-> id, n |-> posted + 1]
<1>1. OInv' /\ m \in Message /\ posted' = posted + 1 /\ posted < MaxSends
  BY SendEnvelopeOrder, NewMessage DEF RInv, OInv, IInv, SendEnvelope
<1>2. /\ Coalesce(m) \/ AppendMessage(m) \/ EvictAndAppend(m) \/ Refuse(m)
      /\ received' = received
  BY DEF SendEnvelope
<1>3. m.n = posted + 1 /\ m.type = type /\ m.thread = id
  OBVIOUS
<1> HIDE DEF m
<1>4. IsLow(m) <=> type \notin Priority
  BY <1>3, PriorityAssumption DEF IsLow
<1>5. Posted(m)
  BY <1>1, <1>2, <1>3, <1>4 DEF Posted, Fresh, Formed
<1>6. RInv'
  BY <1>1, <1>2, <1>5, EnqueueBehind DEF RInv
<1>7. CASE type \in Priority
  <2>1. m = Outbox!Msg(type, NoThread)
    BY <1>7 DEF Outbox!Msg, m
  <2>2. Outbox!PostIdle(m) \/ Outbox!PostRow(m)
    BY <1>2, <1>4, <1>5, <1>6, <1>7, RowPosted
  <2> QED
    BY <1>1, <1>6, <1>7, <2>1, <2>2 DEF Outbox!Next, Outbox!Post
<1>8. CASE type \notin Priority
  <2>1. <<type, id>> \in Outbox!LowSlots
    BY <1>8, Zenon DEF Outbox!LowSlots, Slots
  <2>2. m = Outbox!Msg(<<type, id>>[1], <<type, id>>[2])
    BY DEF Outbox!Msg, m
  <2>3. Outbox!PostIdle(m) \/ Outbox!PostLatest(m)
    BY <1>2, <1>4, <1>5, <1>6, <1>8, LatestPosted
  <2> QED
    BY <1>1, <1>6, <2>1, <2>2, <2>3 DEF Outbox!Next, Outbox!Post
<1> QED
  BY <1>7, <1>8

\* Both callbacks are the end of a send.
LEMMA CallbackEnds ==
  ASSUME RInv, NEW m \in outstanding, Acked(m) \/ Failed(m)
  PROVE  RInv' /\ Outbox!Next
<1>1. Shift(m)
  BY DEF Acked, Failed
<1>2. OInv'
  <2>1. [Next]_vars
    BY DEF Next, Callback
  <2> QED
    BY <2>1, NextOrder DEF RInv
<1>3. RInv'
  BY <1>1, <1>2, ShiftBehind DEF RInv
<1> QED
  BY <1>1, <1>3, CallbackDone DEF Outbox!Next

\* Every step of the queue is a step of the outbox, or none.
LEMMA StepRefines == RInv /\ [Next]_vars => RInv' /\ [Outbox!Next]_(Outbox!ovars)
<1> SUFFICES ASSUME RInv, [Next]_vars PROVE RInv' /\ [Outbox!Next]_(Outbox!ovars)
  OBVIOUS
<1>1. ASSUME NEW type \in Priority \cup {"sync_status", "settings_state"},
             SendEnvelope(type, NoThread)
      PROVE  RInv' /\ Outbox!Next
  <2>1. type \in Priority \/ <<type, NoThread>> \in Slots
    BY DEF Slots
  <2> QED
    BY <1>1, <2>1, SendEnvelopePosts DEF LowPriority
<1>2. ASSUME NEW id \in Threads, SendEnvelope("detail_update", id)
      PROVE  RInv' /\ Outbox!Next
  <2>1. <<"detail_update", id>> \in Slots /\ "detail_update" \in LowPriority
    BY DEF Slots, LowPriority
  <2> QED
    BY <1>2, <2>1, SendEnvelopePosts, PriorityAssumption
<1>3. ASSUME NEW m \in outstanding, Acked(m) \/ Failed(m)
      PROVE  RInv' /\ Outbox!Next
  BY <1>3, CallbackEnds
<1>4. CASE UNCHANGED vars
  <2>1. UNCHANGED <<OutboxRows, OutboxSlot>>
    BY <1>4, Zenon DEF vars, OutboxRows, OutboxSlot, Occupant, Waiting
  <2>2. OInv'
    BY <1>4, NextOrder DEF RInv
  <2> QED
    BY <1>4, <2>1, <2>2 DEF vars, RInv, DistinctNumbers, WellFormed, Outbox!ovars
<1> QED
  BY <1>1, <1>2, <1>3, <1>4 DEF Next, Post, Callback

\* The queue starts as the outbox does.
LEMMA StartsEmpty == Init => RInv /\ Outbox!Init
<1> SUFFICES ASSUME Init PROVE RInv /\ Outbox!Init
  OBVIOUS
<1>1. OInv /\ Len(sendQueue) = 0 /\ ~sending /\ outstanding = {} /\ posted = 0
  BY InitOrder DEF Init
<1>2. RInv
  BY <1>1 DEF RInv, DistinctNumbers, WellFormed
<1>3. ToSet(Waiting) = {}
  BY <1>1 DEF Waiting, ToSet
<1>4. OutboxRows = {} /\ OutboxSlot = [k \in Slots |-> {}]
  BY <1>3 DEF OutboxRows, OutboxSlot, Occupant
<1>5. Outbox!LowSlots = Slots
  BY Zenon DEF Outbox!LowSlots, Slots
<1> QED
  BY <1>1, <1>2, <1>4, <1>5 DEF Outbox!Init

(***************************************************************************)
(* The queue, its searches and its callbacks, implements the outbox: rows  *)
(* and errors are sent oldest first, and each status, settings or detail   *)
(* slot holds its newest message only (sendEnvelope to flushSendQueue).    *)
(***************************************************************************)
THEOREM QueueIsOutbox == Spec => OutboxSpec
  BY StartsEmpty, StepRefines, PTL DEF Spec, OutboxSpec, Outbox!Spec

-----------------------------------------------------------------------------
(***************************************************************************)
(* What the messages say: rows and texts, for every length of a text and   *)
(* every size of a body.                                                   *)
(*                                                                         *)
(* Texts and bodies are measured, cut and encoded by recursive functions.  *)
(* That such a function is there, and what holds of all its values, is     *)
(* proved from a rank that falls with each call, for sets in place of      *)
(* operators: RecursionDefines and RecursionReaches, which rest on a set   *)
(* of numbers having a least one.                                          *)
(***************************************************************************)
\* A set of numbers has a least one.  That there is one is taken from the
\* intervals up to each of them, ordered by inclusion.
LEMMA LeastNumber ==
  ASSUME NEW S \in SUBSET Nat, S # {}
  PROVE  \E x \in S : \A y \in S : x <= y
<1> DEFINE Below == {0..x : x \in S}
<1>1. Below \subseteq FiniteSubsetsOf(Nat) /\ Below # {}
  <2>1. \A x \in S : 0..x \subseteq Nat /\ IsFiniteSet(0..x)
    BY FS_Interval
  <2> QED
    BY <2>1, Zenon DEF FiniteSubsetsOf
<1>2. PICK B \in Below : \A C \in Below : <<C, B>> \notin StrictSubsetOrdering(Nat)
  BY <1>1, FS_StrictSubsetOrderingWellFounded, WFMin, Zenon
<1>3. PICK x \in S : B = 0..x
  BY <1>2
<1>4. ASSUME NEW y \in S, y < x PROVE FALSE
  <2>1. 0..y \subseteq 0..x /\ 0..y # 0..x /\ 0..y \in Below
    BY <1>4
  <2>2. <<0..y, B>> \in StrictSubsetOrdering(Nat)
    BY <2>1, <1>3, <1>4 DEF StrictSubsetOrdering
  <2> QED
    BY <2>1, <2>2, <1>2
<1>5. \A y \in S : x <= y
  BY <1>4
<1> QED
  BY <1>5

\* Induction: a set that has 0 and with each number the next has them all.
LEMMA EveryNumber ==
  ASSUME NEW S, 0 \in S, \A n \in Nat : n \in S => n + 1 \in S
  PROVE  Nat \subseteq S
<1> SUFFICES ASSUME Nat \ S # {} PROVE FALSE
  OBVIOUS
<1>1. PICK n \in Nat \ S : \A m \in Nat \ S : n <= m
  BY LeastNumber
<1>2. n # 0 /\ n - 1 \in Nat /\ n - 1 \in S /\ (n - 1) + 1 = n
  BY <1>1
<1> QED
  BY <1>2

\* A function from D to V that is what Step makes of it.
Solves(f, D, V, Step) == f \in [D -> V] /\ f = Step[f]

\* Recursion: where what a function is to be at a place takes only its values at
\* places of lower rank, there is such a function.
LEMMA RecursionDefines ==
  ASSUME NEW D, NEW V, V # {}, NEW N \in Nat, NEW rank \in [D -> 0..N],
         NEW Step \in [[D -> V] -> [D -> V]],
         \A g, h \in [D -> V] : \A i \in D :
           (\A j \in D : rank[j] < rank[i] => g[j] = h[j]) => Step[g][i] = Step[h][i]
  PROVE  \E f : Solves(f, D, V, Step)
<1> DEFINE UpTo(g, n) == \A i \in D : rank[i] < n => g[i] = Step[g][i]
           S == {n \in Nat : \E g \in [D -> V] : UpTo(g, n)}
<1>1. 0 \in S
  <2>1. PICK v \in V : TRUE
    OBVIOUS
  <2>2. [i \in D |-> v] \in [D -> V] /\ UpTo([i \in D |-> v], 0)
    OBVIOUS
  <2> QED
    BY <2>2
<1>2. ASSUME NEW n \in Nat, n \in S PROVE n + 1 \in S
  <2>1. PICK g \in [D -> V] : UpTo(g, n)
    BY <1>2
  <2>2. PICK h \in [D -> V] : h = Step[g]
    OBVIOUS
  <2>3. ASSUME NEW i \in D, rank[i] < n + 1 PROVE h[i] = Step[h][i]
    <3>1. ASSUME NEW j \in D, rank[j] < rank[i] PROVE g[j] = h[j]
      <4>1. rank[j] < n
        BY <3>1, <2>3
      <4> QED
        BY <4>1, <2>1, <2>2
    <3>2. Step[g][i] = Step[h][i]
      BY <3>1
    <3> QED
      BY <3>2, <2>2
  <2> QED
    BY <2>3
<1>3. N + 1 \in S
  <2> HIDE DEF S
  <2> QED
    BY <1>1, <1>2, EveryNumber
<1>4. PICK f \in [D -> V] : UpTo(f, N + 1)
  BY <1>3
<1>5. \A i \in D : f[i] = Step[f][i]
  BY <1>4
<1>6. Step[f] \in [D -> V]
  OBVIOUS
<1> QED
  BY <1>5, <1>6 DEF Solves

\* and what holds at a place when it holds at all of lower rank holds everywhere.
LEMMA RecursionReaches ==
  ASSUME NEW D, NEW N \in Nat, NEW rank \in [D -> 0..N],
         NEW T, \A i \in D : (\A j \in D : rank[j] < rank[i] => j \in T) => i \in T
  PROVE  D \subseteq T
<1> DEFINE S == {n \in Nat : \A i \in D : rank[i] < n => i \in T}
<1>1. 0 \in S
  OBVIOUS
<1>2. ASSUME NEW n \in Nat, n \in S PROVE n + 1 \in S
  <2> SUFFICES ASSUME NEW i \in D, rank[i] < n + 1 PROVE i \in T
    OBVIOUS
  <2>1. \A j \in D : rank[j] < rank[i] => j \in T
    BY <1>2
  <2> QED
    BY <2>1
<1>3. N + 1 \in S
  <2> HIDE DEF S
  <2> QED
    BY <1>1, <1>2, EveryNumber
<1> QED
  BY <1>3

\* A set of numbers that is bounded has a greatest one, and a set of numbers a least.
LEMMA MaxIsGreatest ==
  ASSUME NEW n \in Nat, NEW S \in SUBSET (0..n), S # {}
  PROVE  Max(S) \in S /\ \A i \in S : i <= Max(S)
<1> DEFINE rest == {n - i : i \in S}
<1>1. rest \in SUBSET Nat /\ rest # {}
  <2>1. \A i \in S : n - i \in Nat
    OBVIOUS
  <2> QED
    BY <2>1
<1>2. PICK z \in rest : \A y \in rest : z <= y
  <2> HIDE DEF rest
  <2> QED
    BY <1>1, LeastNumber
<1>3. PICK m \in S : z = n - m
  BY <1>2
<1>4. \A i \in S : n - m <= n - i
  BY <1>2, <1>3
<1>5. \A i \in S : m >= i
  BY <1>4
<1>6. Max(S) \in S /\ \A i \in S : Max(S) >= i
  BY <1>5 DEF Max
<1> QED
  BY <1>6

LEMMA MinIsLeast ==
  ASSUME NEW S \in SUBSET Nat, S # {}
  PROVE  Min(S) \in S /\ \A i \in S : Min(S) <= i
BY LeastNumber DEF Min

-----------------------------------------------------------------------------
(***************************************************************************)
(* Bodies.                                                                 *)
(***************************************************************************)
AnySection == [you : BOOLEAN, bytes : Nat]

\* The bytes of the first sections of a body.
Sums(s, f) ==
  /\ f \in [0..Len(s) -> Nat]
  /\ f[0] = 0
  /\ \A i \in 1..Len(s) : f[i] = f[i - 1] + s[i].bytes + (IF i > 1 THEN 2 ELSE 0)

LEMMA JoinedSums ==
  ASSUME NEW s \in Seq(AnySection)
  PROVE  \E f : Sums(s, f) /\ Joined(s) = f[Len(s)]
<1> DEFINE N == Len(s)
           D == 0..N
           At(f, i) == IF i = 0 THEN 0 ELSE f[i - 1] + s[i].bytes + (IF i > 1 THEN 2 ELSE 0)
           sum == CHOOSE f : f = [i \in D |-> At(f, i)]
           rank == [i \in D |-> i]
           Step == [g \in [D -> Nat] |-> [i \in D |-> At(g, i)]]
<1>1. N \in Nat /\ DOMAIN s = 1..N /\ \A i \in 1..N : s[i].bytes \in Nat
  <2>1. \A section \in AnySection : section.bytes \in Nat
    BY DEF AnySection
  <2> HIDE DEF AnySection
  <2> QED
    BY <2>1
<1>2. Joined(s) = sum[N]
  BY Zenon DEF Joined
<1> HIDE DEF N
<1>3. rank \in [D -> 0..N] /\ \A i \in D : rank[i] = i
  BY <1>1
<1>4. ASSUME NEW g, NEW i \in D, i = 0 \/ g[i - 1] \in Nat PROVE At(g, i) \in Nat
  <2>1. i # 0 => i \in 1..N
    BY <1>1
  <2> QED
    BY <2>1, <1>1, <1>4
<1>5. \A i \in D : \A g \in [D -> Nat] : At(g, i) \in Nat
  <2> HIDE DEF At
  <2>1. \A i \in D : i = 0 \/ i - 1 \in D
    BY <1>1
  <2> QED
    BY <2>1, <1>4
<1>6. Step \in [[D -> Nat] -> [D -> Nat]]
  <2> HIDE DEF At, D
  <2> QED
    BY <1>5
<1>7. ASSUME NEW g \in [D -> Nat], NEW h \in [D -> Nat], NEW i \in D,
             \A j \in D : rank[j] < rank[i] => g[j] = h[j]
      PROVE  Step[g][i] = Step[h][i]
  <2>1. At(g, i) = At(h, i)
    <3>1. i # 0 => i - 1 \in D /\ i - 1 < i
      BY <1>1
    <3> QED
      BY <3>1, <1>3, <1>7
  <2> HIDE DEF At, D
  <2> QED
    BY <2>1
<1> HIDE DEF rank
<1>8. \E f : Solves(f, D, Nat, Step)
  <2>1. Nat # {}
    OBVIOUS
  <2>2. N \in Nat
    BY <1>1
  <2>3. rank \in [D -> 0..N]
    BY <1>3
  <2>4. \A g, h \in [D -> Nat] : \A i \in D :
          (\A j \in D : rank[j] < rank[i] => g[j] = h[j]) => Step[g][i] = Step[h][i]
    BY <1>7
  <2> HIDE DEF D, At, Step
  <2> QED
    BY <1>6, <2>1, <2>2, <2>3, <2>4, RecursionDefines
<1>9. sum = [i \in D |-> At(sum, i)]
  <2> HIDE DEF At, D
  <2>1. PICK f \in [D -> Nat] : f = [i \in D |-> At(f, i)]
    BY <1>8 DEF Solves
  <2> QED
    BY <2>1, Zenon
<1> HIDE DEF sum
<1>10. \A i \in D : sum[i] = At(sum, i)
  <2> HIDE DEF At, D
  <2> QED
    BY <1>9
<1> DEFINE T == {i \in D : sum[i] \in Nat}
<1>11. \A i \in D : (\A j \in D : rank[j] < rank[i] => j \in T) => i \in T
  <2> SUFFICES ASSUME NEW i \in D, \A j \in D : rank[j] < rank[i] => j \in T
               PROVE  sum[i] \in Nat
    OBVIOUS
  <2>1. i = 0 \/ (i - 1 \in D /\ i - 1 < i)
    BY <1>1
  <2>2. i = 0 \/ sum[i - 1] \in Nat
    BY <2>1, <1>3
  <2> HIDE DEF At, D
  <2> QED
    BY <2>2, <1>4, <1>10
<1>12. D \subseteq T
  <2>1. N \in Nat /\ rank \in [D -> 0..N]
    BY <1>1, <1>3
  <2> HIDE DEF D, T, N
  <2>2. \A i \in D : (\A j \in D : rank[j] < rank[i] => j \in T) => i \in T
    BY <1>11
  <2>3. N \in Nat
    BY <2>1
  <2>4. rank \in [D -> 0..N]
    BY <2>1
  <2> HIDE DEF Step, At
  <2> QED
    BY <2>2, <2>3, <2>4, RecursionReaches
<1>13. sum \in [D -> Nat]
  <2>1. \A i \in D : sum[i] \in Nat
    BY <1>12
  <2> HIDE DEF D
  <2>2. DOMAIN sum = D /\ sum = [i \in DOMAIN sum |-> sum[i]]
    <3> HIDE DEF At
    <3> QED
      BY <1>9
  <2> HIDE DEF At
  <2> QED
    BY <2>1, <2>2
<1>14. Sums(s, sum)
  <2>1. 0 \in D /\ sum[0] = 0
    BY <1>1, <1>10
  <2>2. \A i \in 1..N : i \in D /\ i # 0
    BY <1>1
  <2>3. \A i \in 1..N : sum[i] = sum[i - 1] + s[i].bytes + (IF i > 1 THEN 2 ELSE 0)
    BY <1>10, <2>2
  <2> QED
    BY <1>13, <2>1, <2>3 DEF Sums, N
<1> QED
  BY <1>2, <1>14 DEF N

\* A section that is added adds its bytes, and the separator before it.
LEMMA JoinedAppend ==
  ASSUME NEW s \in Seq(AnySection), NEW x \in AnySection
  PROVE  /\ Append(s, x) \in Seq(AnySection)
         /\ Joined(Append(s, x)) = Joined(s) + x.bytes + (IF s = <<>> THEN 0 ELSE 2)
<1> DEFINE u == Append(s, x)
<1>1. /\ u \in Seq(AnySection) /\ Len(u) = Len(s) + 1 /\ u[Len(s) + 1] = x
      /\ \A i \in 1..Len(s) : u[i] = s[i]
  BY AppendProperties
<1>2. Len(s) \in Nat /\ (s = <<>> <=> Len(s) = 0) /\ x.bytes \in Nat
  BY EmptySeq DEF AnySection
<1> HIDE DEF u
<1>3. PICK f : Sums(s, f) /\ Joined(s) = f[Len(s)]
  BY JoinedSums
<1>4. PICK g : Sums(u, g) /\ Joined(u) = g[Len(u)]
  BY <1>1, JoinedSums
<1> DEFINE S == {n \in Nat : n <= Len(s) => f[n] = g[n]}
<1>5. 0 \in S
  BY <1>3, <1>4 DEF Sums
<1>6. ASSUME NEW n \in Nat, n \in S PROVE n + 1 \in S
  <2> SUFFICES ASSUME n + 1 <= Len(s) PROVE f[n + 1] = g[n + 1]
    OBVIOUS
  <2>1. n + 1 \in 1..Len(s) /\ n + 1 \in 1..Len(u) /\ (n + 1) - 1 = n /\ f[n] = g[n] /\ u[n + 1] = s[n + 1]
    BY <1>1, <1>2, <1>6
  <2>2. f[n + 1] = f[n] + s[n + 1].bytes + (IF n + 1 > 1 THEN 2 ELSE 0)
    BY <2>1, <1>3 DEF Sums
  <2>3. g[n + 1] = g[n] + u[n + 1].bytes + (IF n + 1 > 1 THEN 2 ELSE 0)
    BY <2>1, <1>4 DEF Sums
  <2> QED
    BY <2>1, <2>2, <2>3
<1>7. f[Len(s)] = g[Len(s)]
  <2>1. Nat \subseteq S
    <3> HIDE DEF S
    <3> QED
      BY <1>5, <1>6, EveryNumber
  <2> QED
    BY <2>1, <1>2
<1>8. g[Len(s) + 1] = g[Len(s)] + x.bytes + (IF Len(s) + 1 > 1 THEN 2 ELSE 0)
  <2>1. Len(s) + 1 \in 1..Len(u) /\ (Len(s) + 1) - 1 = Len(s)
    BY <1>1, <1>2
  <2> QED
    BY <2>1, <1>1, <1>4 DEF Sums
<1>9. Joined(u) = Joined(s) + x.bytes + (IF s = <<>> THEN 0 ELSE 2)
  BY <1>1, <1>2, <1>3, <1>4, <1>7, <1>8
<1> QED
  BY <1>1, <1>9 DEF u

LEMMA JoinedShort ==
  /\ Joined(<<>>) = 0
  /\ \A s \in Seq(AnySection) : Joined(s) \in Nat
  /\ \A x \in AnySection : <<x>> \in Seq(AnySection) /\ Joined(<<x>>) = x.bytes
<1>1. ASSUME NEW s \in Seq(AnySection) PROVE Joined(s) \in Nat /\ (s = <<>> => Joined(s) = 0)
  <2>1. Len(s) \in Nat /\ (s = <<>> => Len(s) = 0)
    OBVIOUS
  <2>2. PICK f : Sums(s, f) /\ Joined(s) = f[Len(s)]
    BY JoinedSums
  <2> QED
    BY <2>1, <2>2 DEF Sums
<1>2. Joined(<<>>) = 0
  <2>1. <<>> \in Seq(AnySection)
    OBVIOUS
  <2> QED
    BY <1>1, <2>1
<1>3. ASSUME NEW x \in AnySection PROVE <<x>> \in Seq(AnySection) /\ Joined(<<x>>) = x.bytes
  <2>1. <<>> \in Seq(AnySection) /\ Append(<<>>, x) = <<x>> /\ x.bytes \in Nat
    BY DEF AnySection
  <2>2. Joined(Append(<<>>, x)) = 0 + x.bytes + 0
    BY <2>1, <1>2, JoinedAppend
  <2> QED
    BY <2>1, <2>2
<1> QED
  BY <1>1, <1>2, <1>3

\* What a body is cut to fits, also in the section that is cut.
LEMMA CutFits ==
  ASSUME NEW s \in Seq(AnySection), NEW maxBytes \in Nat
  PROVE  Cut(s, maxBytes) \in Seq(AnySection) /\ Joined(Cut(s, maxBytes)) <= maxBytes
<1> DEFINE fitting == {0} \cup {i \in DOMAIN s : Joined(SubSeq(s, 1, i)) <= maxBytes}
           whole == Max(fitting)
           kept == SubSeq(s, 1, whole)
           used == IF whole = 0 THEN 0 ELSE Joined(kept) + 2
           part == [s[whole + 1] EXCEPT !.bytes = maxBytes - used]
<1>1. Len(s) \in Nat /\ DOMAIN s = 1..Len(s) /\ \A i \in DOMAIN s : s[i] \in AnySection
  OBVIOUS
<1>2. whole \in fitting
  <2>1. fitting \in SUBSET (0..Len(s)) /\ fitting # {}
    BY <1>1
  <2> HIDE DEF fitting
  <2> QED
    BY <1>1, <2>1, MaxIsGreatest
<1>3. Cut(s, maxBytes) = kept \o (IF whole < Len(s) /\ used < maxBytes THEN <<part>> ELSE <<>>)
  BY Zenon DEF Cut
<1>4. whole \in Nat /\ whole <= Len(s) /\ (whole # 0 => Joined(SubSeq(s, 1, whole)) <= maxBytes)
  <2> HIDE DEF whole
  <2> QED
    BY <1>1, <1>2
<1> HIDE DEF whole
<1>5. kept \in Seq(AnySection) /\ Len(kept) = whole
  BY <1>1, <1>4, SubSeqProperties
<1>6. Joined(kept) \in Nat /\ Joined(kept) <= maxBytes /\ used \in Nat
      /\ (whole = 0 => kept = <<>> /\ Joined(kept) = 0)
  <2>1. whole = 0 => kept = <<>>
    BY <1>5, EmptySeq
  <2> HIDE DEF kept
  <2>2. Joined(kept) \in Nat /\ (whole = 0 => Joined(kept) = 0)
    BY <1>5, <2>1, JoinedShort
  <2>3. Joined(kept) <= maxBytes
    BY <1>4, <2>2 DEF kept
  <2> QED
    BY <2>1, <2>2, <2>3, <1>4
<1>7. CASE whole < Len(s) /\ used < maxBytes
  <2>1. Cut(s, maxBytes) = Append(kept, part)
    <3>1. Cut(s, maxBytes) = kept \o <<part>>
      BY <1>3, <1>7
    <3> HIDE DEF kept, part
    <3> QED
      BY <3>1, <1>5, AppendIsConcat
  <2>2. part \in AnySection /\ part.bytes = maxBytes - used
    <3>1. s[whole + 1] \in AnySection
      BY <1>1, <1>4, <1>7
    <3>2. maxBytes - used \in Nat
      BY <1>6, <1>7
    <3> HIDE DEF used
    <3> QED
      BY <3>1, <3>2 DEF AnySection
  <2>3. Append(kept, part) \in Seq(AnySection)
        /\ Joined(Append(kept, part)) = Joined(kept) + part.bytes + (IF kept = <<>> THEN 0 ELSE 2)
    <3> HIDE DEF kept, part
    <3> QED
      BY <1>5, <2>2, JoinedAppend
  <2>4. kept = <<>> <=> whole = 0
    BY <1>5, EmptySeq
  <2> HIDE DEF kept, part
  <2>5. Joined(kept) + part.bytes + (IF kept = <<>> THEN 0 ELSE 2) <= maxBytes
    BY <1>6, <2>2, <2>4
  <2> QED
    BY <2>1, <2>3, <2>5
<1>8. CASE ~(whole < Len(s) /\ used < maxBytes)
  <2>1. Cut(s, maxBytes) = kept \o <<>>
    BY <1>3, <1>8
  <2> HIDE DEF kept
  <2>2. Cut(s, maxBytes) = kept
    BY <2>1, <1>5, ConcatEmptySeq
  <2> QED
    BY <2>2, <1>5, <1>6
<1> QED
  BY <1>7, <1>8

\* The texts and the bodies on the way are sequences of units and of sections.
TextInv == text \in Seq(Units) /\ body \in Seq(Section)

LEMMA TextInvariant == TextInit /\ [][TextNext]_textVars => []TextInv
<1>1. TextInit => TextInv
  <2>1. <<>> \in Seq(Units) /\ <<>> \in Seq(Section)
    OBVIOUS
  <2> QED
    BY <2>1 DEF TextInit, TextInv
<1>2. TextInv /\ [TextNext]_textVars => TextInv'
  <2> SUFFICES ASSUME TextInv, [TextNext]_textVars PROVE TextInv'
    OBVIOUS
  <2> HIDE DEF Units, Section
  <2>1. CASE \E unit \in Units : Type(unit)
    <3>1. PICK unit \in Units : text' = Append(text, unit) /\ body' = body
      BY <2>1 DEF Type
    <3> QED
      BY <3>1, AppendProperties DEF TextInv
  <2>2. CASE \E section \in Section : Grow(section)
    <3>1. PICK section \in Section : body' = Append(body, section) /\ text' = text
      BY <2>2 DEF Grow
    <3> QED
      BY <3>1, AppendProperties DEF TextInv
  <2>3. CASE UNCHANGED textVars
    BY <2>3 DEF textVars, TextInv
  <2> QED
    BY <2>1, <2>2, <2>3 DEF TextNext
<1> QED
  BY <1>1, <1>2, PTL

\* The line after what is left of the body fits, or it is too long by itself.
LEMMA SuffixFits ==
  ASSUME NEW s \in Seq(AnySection), NEW line \in AnySection
  PROVE  LET joined == AppendWithReservedSuffix(s, line)
         IN  /\ joined \in Seq(AnySection) /\ Len(joined) \in Nat \ {0}
             /\ joined[Len(joined)] = line
             /\ \/ Joined(joined) <= BodyLimit /\ line.bytes <= BodyLimit
                \/ joined = <<line>> /\ line.bytes > BodyLimit
<1> DEFINE room == BodyLimit - line.bytes - 2
           joined == AppendWithReservedSuffix(s, line)
<1>1. line.bytes \in Nat /\ BodyLimit \in Nat
  BY LimitAssumption DEF AnySection
<1>2. /\ <<line>> \in Seq(AnySection) /\ Joined(<<line>>) = line.bytes
      /\ Len(<<line>>) = 1 /\ <<line>>[1] = line
  BY JoinedShort
<1>3. CASE s = <<>> \/ room <= 0
  <2>1. joined = <<line>>
    BY <1>3, Zenon DEF AppendWithReservedSuffix
  <2> HIDE DEF joined
  <2>2. (Joined(joined) <= BodyLimit /\ line.bytes <= BodyLimit) \/ line.bytes > BodyLimit
    BY <1>1, <1>2, <2>1
  <2> QED
    BY <1>2, <2>1, <2>2 DEF joined
<1>4. CASE ~(s = <<>> \/ room <= 0)
  <2> DEFINE kept == Cut(s, room)
  <2>1. joined = Append(kept, line)
    BY <1>4, Zenon DEF AppendWithReservedSuffix
  <2>2. room \in Nat
    BY <1>1, <1>4
  <2>3. kept \in Seq(AnySection) /\ Joined(kept) <= room
    <3> HIDE DEF room
    <3> QED
      BY <2>2, CutFits
  <2> HIDE DEF kept, joined
  <2>4. /\ joined \in Seq(AnySection) /\ Len(joined) = Len(kept) + 1
        /\ joined[Len(kept) + 1] = line /\ Len(kept) \in Nat
    BY <2>1, <2>3, AppendProperties
  <2>5. Joined(joined) = Joined(kept) + line.bytes + (IF kept = <<>> THEN 0 ELSE 2)
        /\ Joined(kept) \in Nat
    BY <2>1, <2>3, JoinedAppend, JoinedShort
  <2>6. Joined(joined) <= BodyLimit /\ line.bytes <= BodyLimit
    BY <1>1, <2>3, <2>5
  <2> QED
    BY <2>4, <2>6 DEF joined
<1> QED
  BY <1>3, <1>4

\* A section that is too long alone is cut to the limit.
LEMMA CutLine ==
  ASSUME NEW line \in AnySection, line.bytes > BodyLimit
  PROVE  SanitizeDetailBody(<<line>>, BodyLimit) = <<[line EXCEPT !.bytes = BodyLimit]>>
<1> DEFINE s == <<line>>
           fitting == {0} \cup {i \in DOMAIN s : Joined(SubSeq(s, 1, i)) <= BodyLimit}
           whole == Max(fitting)
           used == IF whole = 0 THEN 0 ELSE Joined(SubSeq(s, 1, whole)) + 2
           recent == {i \in DOMAIN s : Joined(SubSeq(s, i, Len(s))) <= BodyLimit}
<1>1. line.bytes \in Nat /\ BodyLimit \in Nat \ {0}
  BY LimitAssumption DEF AnySection
<1>2. s \in Seq(AnySection) /\ Joined(s) = line.bytes /\ Len(s) = 1 /\ DOMAIN s = {1} /\ s[1] = line
  BY JoinedShort
<1>3. SubSeq(s, 1, 1) = s
  BY <1>2, SubSeqFull
<1>4. fitting = {0} /\ recent = {}
  <2>1. ~(Joined(s) <= BodyLimit)
    BY <1>1, <1>2
  <2> HIDE DEF s
  <2>2. \A i \in DOMAIN s : ~(Joined(SubSeq(s, 1, i)) <= BodyLimit)
    BY <1>2, <1>3, <2>1
  <2>3. \A i \in DOMAIN s : ~(Joined(SubSeq(s, i, Len(s))) <= BodyLimit)
    BY <1>2, <1>3, <2>1
  <2> QED
    BY <2>2, <2>3
<1>5. whole = 0
  <2>1. Max({0}) = 0
    BY DEF Max
  <2> HIDE DEF fitting
  <2> QED
    BY <1>4, <2>1
<1>6. SubSeq(s, 1, 0) = <<>>
  BY <1>2, SubSeqEmpty
<1>7. Cut(s, BodyLimit) = <<[line EXCEPT !.bytes = BodyLimit]>>
  <2>1. Cut(s, BodyLimit) =
          SubSeq(s, 1, whole) \o (IF whole < Len(s) /\ used < BodyLimit
                                  THEN <<[s[whole + 1] EXCEPT !.bytes = BodyLimit - used]>> ELSE <<>>)
    BY Zenon DEF Cut
  <2>2. used = 0
    <3> HIDE DEF whole
    <3> QED
      BY <1>5
  <2> HIDE DEF whole, used, s
  <2>3. whole + 1 = 1 /\ whole < Len(s) /\ used < BodyLimit /\ BodyLimit - used = BodyLimit
    BY <1>1, <1>2, <1>5, <2>2
  <2>4. Cut(s, BodyLimit) = <<>> \o <<[line EXCEPT !.bytes = BodyLimit]>>
    BY <1>2, <1>5, <1>6, <2>1, <2>3
  <2> QED
    BY <2>4, ConcatEmptySeq
<1>8. SanitizeDetailBody(s, BodyLimit) = FitRecentDetailBody(s, BodyLimit)
  <2> HIDE DEF s
  <2> QED
    BY <1>1, <1>2 DEF SanitizeDetailBody
<1>9. FitRecentDetailBody(s, BodyLimit) = Cut(<<s[Len(s)]>>, BodyLimit)
  <2>1. FitRecentDetailBody(s, BodyLimit) =
          IF s[1].you /\ Len(s) > 1 /\ ~HasLaterUserSection(s)
          THEN JoinPreservingPrefix(s[1], Tail(s), BodyLimit)
          ELSE IF recent = {} THEN Cut(<<s[Len(s)]>>, BodyLimit)
          ELSE SubSeq(s, Min(recent), Len(s))
    BY Zenon DEF FitRecentDetailBody
  <2> HIDE DEF recent, s
  <2>2. ~(Len(s) > 1)
    BY <1>2
  <2> QED
    BY <2>1, <2>2, <1>4
<1> QED
  BY <1>2, <1>7, <1>8, <1>9

\* A line of live progress is seen: whatever the body was, the body that is sent
\* with the line at its end fits the limit and ends with the line, whole if it
\* fits at all, for every limit and all lengths of sections and lines
\* (appendWithReservedSuffix, sanitizeDetailBody).
THEOREM LiveLineShown == TextInit /\ [][TextNext]_textVars => []LiveLineIsShown
<1>1. TextInv => LiveLineIsShown
  <2> SUFFICES ASSUME TextInv PROVE LiveLineIsShown
    OBVIOUS
  <2>1. body \in Seq(AnySection)
    <3>1. Section \subseteq AnySection
      BY LimitAssumption DEF Section, AnySection
    <3> QED
      BY <3>1, SeqMonotonic DEF TextInv
  <2>2. ASSUME NEW line \in [you : {FALSE}, bytes : Sizes]
        PROVE  LET sent == SanitizeDetailBody(AppendWithReservedSuffix(body, line), BodyLimit)
               IN  /\ Joined(sent) <= BodyLimit
                   /\ sent[Len(sent)].bytes = Min({line.bytes, BodyLimit})
                   /\ line.bytes <= BodyLimit => sent[Len(sent)] = line
    <3> DEFINE joined == AppendWithReservedSuffix(body, line)
               sent == SanitizeDetailBody(joined, BodyLimit)
    <3>1. line \in AnySection /\ line.bytes \in Nat /\ BodyLimit \in Nat
      BY LimitAssumption DEF AnySection
    <3>2. /\ joined \in Seq(AnySection) /\ Len(joined) \in Nat \ {0}
          /\ joined[Len(joined)] = line
          /\ \/ Joined(joined) <= BodyLimit /\ line.bytes <= BodyLimit
             \/ joined = <<line>> /\ line.bytes > BodyLimit
      BY <2>1, <3>1, SuffixFits
    <3>3. Min({line.bytes, BodyLimit}) = IF line.bytes <= BodyLimit THEN line.bytes ELSE BodyLimit
      BY <3>1 DEF Min
    <3> HIDE DEF joined
    <3>4. CASE Joined(joined) <= BodyLimit /\ line.bytes <= BodyLimit
      <4>1. sent = joined
        BY <3>4, Zenon DEF SanitizeDetailBody
      <4> HIDE DEF sent
      <4> QED
        BY <3>2, <3>3, <3>4, <4>1 DEF sent, joined
    <3>5. CASE joined = <<line>> /\ line.bytes > BodyLimit
      <4> DEFINE part == [line EXCEPT !.bytes = BodyLimit]
      <4>1. sent = <<part>>
        <5>1. sent = SanitizeDetailBody(<<line>>, BodyLimit)
          BY <3>5
        <5> HIDE DEF sent
        <5> QED
          BY <5>1, <3>1, <3>5, CutLine
      <4>2. part \in AnySection /\ part.bytes = BodyLimit
        BY <3>1 DEF AnySection
      <4> HIDE DEF part, sent
      <4>3. Joined(sent) = BodyLimit /\ sent[Len(sent)].bytes = BodyLimit
        BY <4>1, <4>2, JoinedShort
      <4>4. ~(line.bytes <= BodyLimit)
        BY <3>1, <3>5
      <4> QED
        BY <3>1, <3>3, <4>3, <4>4 DEF sent, joined
    <3> QED
      BY <3>2, <3>4, <3>5
  <2> QED
    BY <2>2, Zenon DEF LiveLineIsShown
<1> QED
  BY <1>1, TextInvariant, PTL

-----------------------------------------------------------------------------
(***************************************************************************)
(* Times.                                                                  *)
(***************************************************************************)
LEMMA Division ==
  ASSUME NEW a \in Nat, NEW n \in Nat \ {0}
  PROVE  a = n * (a \div n) + (a % n) /\ a \div n \in Nat /\ a % n \in 0..(n - 1)
OBVIOUS

\* Times of one day with the same clock are the same,
LEMMA ClockTells ==
  ASSUME NEW a \in Nat, NEW b \in Nat, ClockTime(a) = ClockTime(b)
  PROVE  a % Day = b % Day
<1>1. Hour \in Nat \ {0} /\ Day \in Nat \ {0}
  BY TimeAssumption
<1>2. a % Day \in Nat /\ b % Day \in Nat
  BY <1>1, Division
<1> DEFINE x == a % Day
           y == b % Day
<1>3. x \div Hour = y \div Hour /\ x % Hour = y % Hour
  BY DEF ClockTime
<1> HIDE DEF x, y
<1>4. x = Hour * (x \div Hour) + (x % Hour) /\ y = Hour * (y \div Hour) + (y % Hour)
  BY <1>1, <1>2, Division DEF x, y
<1> QED
  BY <1>3, <1>4 DEF x, y

\* and so are times of one weekday less than a week apart.
LEMMA DayTells ==
  ASSUME NEW a \in Nat, NEW b \in Nat, ClockTime(a) = ClockTime(b)
  PROVE  /\ DayOf(a) = DayOf(b) => a = b
         /\ DayOf(a) % 7 = DayOf(b) % 7 /\ a - b < Week /\ b - a < Week => a = b
<1> DEFINE d == a \div Day
           e == b \div Day
<1>1. Day \in Nat \ {0}
  BY TimeAssumption
<1>2. d \in Nat /\ e \in Nat /\ a % Day \in Nat /\ a = Day * d + (a % Day) /\ b = Day * e + (b % Day)
  <2>1. a = Day * (a \div Day) + (a % Day) /\ a \div Day \in Nat /\ a % Day \in 0..(Day - 1)
    BY <1>1, Division
  <2>2. b = Day * (b \div Day) + (b % Day) /\ b \div Day \in Nat
    BY <1>1, Division
  <2> QED
    BY <1>1, <2>1, <2>2
<1>3. DayOf(a) = d /\ DayOf(b) = e /\ Week = 7 * Day
  BY Zenon DEF DayOf, Week
<1>4. a % Day = b % Day
  BY ClockTells
<1> HIDE DEF d, e
<1> DEFINE r == a % Day
<1>5. a = Day * d + r /\ b = Day * e + r /\ r \in Nat
  BY <1>2, <1>4
<1> HIDE DEF r
<1>6. ASSUME NEW x \in Nat, NEW y \in Nat, x % 7 = y % 7, x # y, x > y
      PROVE  Day * x - Day * y >= 7 * Day
  <2>1. x - y >= 7
    BY <1>6
  <2>2. Day * (x - y) >= Day * 7
    BY <1>1, <2>1
  <2> QED
    BY <1>1, <2>2
<1>7. ASSUME d % 7 = e % 7, a - b < 7 * Day, b - a < 7 * Day PROVE d = e
  <2>1. CASE d > e
    <3>1. Day * d - Day * e >= 7 * Day
      BY <1>2, <1>6, <1>7, <2>1
    <3> QED
      BY <1>1, <1>2, <1>5, <1>7, <3>1
  <2>2. CASE e > d
    <3>1. Day * e - Day * d >= 7 * Day
      BY <1>2, <1>6, <1>7, <2>2
    <3> QED
      BY <1>1, <1>2, <1>5, <1>7, <3>1
  <2> QED
    BY <1>2, <2>1, <2>2
<1>8. d = e => a = b
  BY <1>5
<1> QED
  BY <1>3, <1>7, <1>8

LEMMA ShortConcats ==
  \A x, y, z, v : <<x>> \o <<z, v>> = <<x, z, v>> /\ <<x, y>> \o <<z, v>> = <<x, y, z, v>>
<1> SUFFICES ASSUME NEW x, NEW y, NEW z, NEW v
             PROVE  <<x>> \o <<z, v>> = <<x, z, v>> /\ <<x, y>> \o <<z, v>> = <<x, y, z, v>>
  OBVIOUS
<1> DEFINE S == {x, y, z, v}
<1>1. <<x>> \in Seq(S) /\ <<x, y>> \in Seq(S) /\ <<z, v>> \in Seq(S)
  OBVIOUS
<1>2. <<x, z, v>> \in Seq(S) /\ <<x, y, z, v>> \in Seq(S)
  OBVIOUS
<1> DEFINE p == <<x>> \o <<z, v>>
           q == <<x, y>> \o <<z, v>>
<1>3. p \in Seq(S) /\ Len(p) = 3 /\ p[1] = x /\ p[2] = z /\ p[3] = v
  BY <1>1, ConcatProperties
<1>4. q \in Seq(S) /\ Len(q) = 4 /\ q[1] = x /\ q[2] = y /\ q[3] = z /\ q[4] = v
  BY <1>1, ConcatProperties
<1> HIDE DEF p, q, S
<1>5. p = <<x, z, v>>
  BY <1>2, <1>3, SeqEqual
<1>6. q = <<x, y, z, v>>
  BY <1>2, <1>4, SeqEqual
<1> QED
  BY <1>5, <1>6 DEF p, q

\* What is said of a time that has passed.
LEMMA SaidOfTime ==
  ASSUME NEW a \in Nat, NEW n \in Nat, a <= n
  PROVE  LET said == ListThreadTime(a, n)
             h == ClockTime(a)[1]
             m == ClockTime(a)[2]
         IN  \/ a = n /\ said = <<"now">>
             \/ n - a < Hour /\ said = <<"ago", n - a>>
             \/ DayOf(a) = DayOf(n) /\ said = <<"today", h, m>>
             \/ n - a < Week /\ said = <<"day", DayOf(a) % 7, h, m>>
             \/ said = <<"date", DayOf(a), h, m>>
<1> DEFINE said == ListThreadTime(a, n)
           h == ClockTime(a)[1]
           m == ClockTime(a)[2]
<1>1. said = IF a > n THEN <<"date", DayOf(a)>> \o ClockTime(a)
             ELSE IF n - a < 1 THEN <<"now">>
             ELSE IF n - a < Hour THEN <<"ago", n - a>>
             ELSE IF DayOf(a) = DayOf(n) THEN <<"today">> \o ClockTime(a)
             ELSE IF n - a < Week THEN <<"day", DayOf(a) % 7>> \o ClockTime(a)
             ELSE <<"date", DayOf(a)>> \o ClockTime(a)
  BY Zenon DEF ListThreadTime
<1>2. ClockTime(a) = <<h, m>>
  BY DEF ClockTime
<1> HIDE DEF said, h, m
<1>3. ~(a > n) /\ (n - a < 1 => a = n)
  OBVIOUS
<1>4. /\ <<"today">> \o <<h, m>> = <<"today", h, m>>
      /\ \A x, y : <<x, y>> \o <<h, m>> = <<x, y, h, m>>
  BY ShortConcats
<1>5. \/ a = n /\ said = <<"now">>
      \/ n - a < Hour /\ said = <<"ago", n - a>>
      \/ DayOf(a) = DayOf(n) /\ said = <<"today">> \o <<h, m>>
      \/ n - a < Week /\ said = <<"day", DayOf(a) % 7>> \o <<h, m>>
      \/ said = <<"date", DayOf(a)>> \o <<h, m>>
  BY <1>1, <1>2, <1>3, Zenon
<1> QED
  BY <1>4, <1>5, Zenon DEF said, h, m

\* Two times that have passed are said differently.
LEMMA TimesDiffer ==
  ASSUME NEW n \in Nat, NEW a \in 0..n, NEW b \in 0..n, ListThreadTime(a, n) = ListThreadTime(b, n)
  PROVE  a = b
<1> DEFINE Clock(t) == ClockTime(t)
           h(t) == ClockTime(t)[1]
           m(t) == ClockTime(t)[2]
           Says(t, x) == \/ t = n /\ x = <<"now">>
                         \/ n - t < Hour /\ x = <<"ago", n - t>>
                         \/ DayOf(t) = DayOf(n) /\ x = <<"today", h(t), m(t)>>
                         \/ n - t < Week /\ x = <<"day", DayOf(t) % 7, h(t), m(t)>>
                         \/ x = <<"date", DayOf(t), h(t), m(t)>>
<1>1. PICK x : x = ListThreadTime(a, n) /\ x = ListThreadTime(b, n)
  OBVIOUS
<1>2. Says(a, x) /\ Says(b, x)
  BY <1>1, SaidOfTime
<1>3. h(a) = h(b) /\ m(a) = m(b) => ClockTime(a) = ClockTime(b)
  BY DEF ClockTime
<1>4. a \in Nat /\ b \in Nat /\ Week \in Nat
  BY TimeAssumption DEF Week
<1> HIDE DEF h, m
<1>5. \/ a = n /\ b = n
      \/ n - a = n - b
      \/ DayOf(a) = DayOf(b) /\ h(a) = h(b) /\ m(a) = m(b)
      \/ n - a < Week /\ n - b < Week /\ DayOf(a) % 7 = DayOf(b) % 7 /\ h(a) = h(b) /\ m(a) = m(b)
  <2>1. CASE x = <<"now">>
    BY <1>2, <2>1
  <2>2. CASE x = <<"ago", n - a>>
    BY <1>2, <2>2
  <2>3. CASE x = <<"today", h(a), m(a)>> /\ DayOf(a) = DayOf(n)
    BY <1>2, <2>3
  <2>4. CASE x = <<"day", DayOf(a) % 7, h(a), m(a)>> /\ n - a < Week
    BY <1>2, <2>4
  <2>5. CASE x = <<"date", DayOf(a), h(a), m(a)>>
    BY <1>2, <2>5
  <2> QED
    BY <1>2, <2>1, <2>2, <2>3, <2>4, <2>5
<1>6. n - a < Week /\ n - b < Week => a - b < Week /\ b - a < Week
  BY <1>4
<1> HIDE DEF h, m
<1> QED
  BY <1>3, <1>4, <1>5, <1>6, DayTells

\* Two threads that were last used in different minutes say so, whether minutes,
\* hours, days or weeks ago, however long an hour and a day are (listThreadTime).
THEOREM TimesDistinct == RowsInit /\ [][Tick]_rowsVars => []TimesAreDistinct
<1>1. now \in Nat => TimesAreDistinct
  <2> SUFFICES ASSUME now \in Nat PROVE TimesAreDistinct
    OBVIOUS
  <2> DEFINE times == 0..now
             said == {ListThreadTime(time, now) : time \in times}
             f == [time \in times |-> ListThreadTime(time, now)]
  <2>1. f \in Bijection(times, said)
    <3>1. f \in Surjection(times, said)
      BY DEF Surjection
    <3>2. \A a, b \in times : f[a] = f[b] => a = b
      BY TimesDiffer
    <3>3. f \in Injection(times, said)
      <4> HIDE DEF times
      <4>1. f \in [times -> said]
        OBVIOUS
      <4> HIDE DEF f, said
      <4> QED
        BY <3>2, <4>1, Zenon DEF Injection, IsInjective
    <3> QED
      BY <3>1, <3>3 DEF Bijection
  <2>2. IsFiniteSet(times) /\ Cardinality(times) = now + 1
    <3>1. now - 0 + 1 = now + 1 /\ 0 \in Int /\ now \in Int /\ 0 <= now
      OBVIOUS
    <3> QED
      BY <3>1, FS_Interval
  <2>3. Cardinality(said) = Cardinality(times)
    <3> HIDE DEF times, said, f
    <3> QED
      BY <2>1, <2>2, FS_Bijection DEF ExistsBijection
  <2> QED
    BY <2>2, <2>3 DEF TimesAreDistinct
<1>2. RowsInit => now \in Nat
  BY DEF RowsInit
<1>3. now \in Nat /\ [Tick]_rowsVars => (now \in Nat)'
  BY DEF Tick, rowsVars
<1> QED
  BY <1>1, <1>2, <1>3, PTL

-----------------------------------------------------------------------------
(***************************************************************************)
(* What rows and sections say: sequences of anything but "null".           *)
(***************************************************************************)
Speaks(s) == \E S : s \in Seq(S) /\ Null \notin S

LEMMA SpeaksNoNull == \A s : Speaks(s) => Null \notin Said(s)
<1> SUFFICES ASSUME NEW s, Speaks(s) PROVE Null \notin Said(s)
  OBVIOUS
<1>1. PICK S : s \in Seq(S) /\ Null \notin S
  BY DEF Speaks
<1>2. \A i \in DOMAIN s : s[i] \in S
  BY <1>1
<1> QED
  BY <1>1, <1>2 DEF Said

LEMMA SpeaksOf ==
  ASSUME NEW s, NEW S, s \in Seq(S), Null \notin S
  PROVE  Speaks(s)
BY Zenon DEF Speaks

LEMMA SpeaksOn ==
  ASSUME NEW s, NEW t, Speaks(s), Speaks(t)
  PROVE  Speaks(s \o t)
<1>1. PICK S : s \in Seq(S) /\ Null \notin S
  BY DEF Speaks
<1>2. PICK T : t \in Seq(T) /\ Null \notin T
  BY DEF Speaks
<1>3. s \in Seq(S \cup T) /\ t \in Seq(S \cup T)
  BY <1>1, <1>2, SeqMonotonic
<1>4. s \o t \in Seq(S \cup T) /\ Null \notin S \cup T
  BY <1>1, <1>2, <1>3, ConcatProperties
<1> QED
  BY <1>4, SpeaksOf

LEMMA SpeaksShort ==
  /\ Speaks(<<>>)
  /\ \A x : x # Null => Speaks(<<x>>)
  /\ \A x, y : x # Null /\ y # Null => Speaks(<<x, y>>)
  /\ \A x, y, z : x # Null /\ y # Null /\ z # Null => Speaks(<<x, y, z>>)
<1>1. <<>> \in Seq({}) /\ Null \notin {}
  OBVIOUS
<1>2. Speaks(<<>>)
  <2> DEFINE s == <<>>
  <2>1. s \in Seq({}) /\ Null \notin {}
    BY <1>1
  <2> HIDE DEF s
  <2>2. Speaks(s)
    BY <2>1, SpeaksOf
  <2> QED
    BY <2>2 DEF s
<1>3. ASSUME NEW x, NEW y, NEW z, x # Null, y # Null, z # Null
      PROVE  Speaks(<<x>>) /\ Speaks(<<x, y>>) /\ Speaks(<<x, y, z>>)
  <2> DEFINE S == {x, y, z}
             s == <<x>>
             t == <<x, y>>
             u == <<x, y, z>>
  <2>1. s \in Seq(S) /\ t \in Seq(S) /\ u \in Seq(S) /\ Null \notin S
    BY <1>3
  <2> HIDE DEF S, s, t, u
  <2>2. Speaks(s) /\ Speaks(t) /\ Speaks(u)
    BY <2>1, SpeaksOf
  <2> QED
    BY <2>2 DEF s, t, u
<1>4. ASSUME NEW x, x # Null PROVE Speaks(<<x>>)
  <2>1. Speaks(<<x>>) /\ Speaks(<<x, x>>) /\ Speaks(<<x, x, x>>)
    <3> HIDE DEF Null
    <3> QED
      BY <1>3, <1>4
  <2> QED
    BY <2>1
<1>5. ASSUME NEW x, NEW y, x # Null, y # Null PROVE Speaks(<<x, y>>)
  <2>1. Speaks(<<x>>) /\ Speaks(<<x, y>>) /\ Speaks(<<x, y, y>>)
    <3> HIDE DEF Null
    <3> QED
      BY <1>3, <1>5
  <2> QED
    BY <2>1
<1> QED
  BY <1>2, <1>3, <1>4, <1>5, Zenon

\* A part is left out when there is nothing to say.
LEMMA PartSpeaks ==
  /\ \A value : Speaks(Part(value))
  /\ \A a, b : b # Null => Or(a, b) # Null
<1>1. ASSUME NEW value PROVE Speaks(Part(value))
  <2>1. CASE value \in {"", Null}
    <3>1. Part(value) = <<>>
      BY <2>1, Zenon DEF Part
    <3> QED
      BY <3>1, SpeaksShort
  <2>2. CASE value \notin {"", Null}
    <3>1. Part(value) = <<value>> /\ value # Null
      BY <2>2, Zenon DEF Part
    <3> QED
      BY <3>1, SpeaksShort
  <2> QED
    BY <2>1, <2>2
<1> QED
  BY <1>1, Zenon DEF Or

LEMMA RowSpeaks ==
  ASSUME NEW th \in ListedThread
  PROVE  /\ Speaks(ListTitle(th))
         /\ Speaks(ListDetail(th)) /\ ListDetail(th) # <<>>
<1>1. ThreadProjectName(th) # Null
  <2>1. "Codex" # Null
    BY DEF Null
  <2>2. Or(BaseName(th.gitInfo.originUrl), "Codex") # Null
    BY <2>1, PartSpeaks, Zenon
  <2> QED
    BY <2>2, PartSpeaks, Zenon DEF ThreadProjectName
<1>2. ThreadStateLabel(th) # Null
  <2> DEFINE status == th.status.type
             flags == th.status.activeFlags
  <2>1. \/ status \in {"notLoaded", "idle", "systemError"} /\ flags = {}
        \/ status = "active" /\ flags \subseteq {"waitingOnApproval", "waitingOnUserInput"}
    <3>1. th.status \in ThreadStatus
      BY DEF ListedThread, Thread
    <3> QED
      BY <3>1 DEF ThreadStatus, ThreadActiveFlag
  <2>2. ThreadStateLabel(th) =
          CASE "waitingOnApproval" \in flags -> "approval"
            [] "waitingOnApproval" \notin flags /\ "waitingOnUserInput" \in flags -> "input"
            [] status = "active" /\ flags = {} -> "working"
            [] status = "systemError" -> "error"
            [] status = "notLoaded" -> "saved"
            [] status = "idle" -> "idle"
    BY Zenon DEF ThreadStateLabel
  <2> HIDE DEF status, flags
  <2>3. ThreadStateLabel(th) \in {"approval", "input", "working", "error", "saved", "idle"}
    BY <2>1, <2>2
  <2> QED
    BY <2>3 DEF Null
<1>3. Speaks(ListTitle(th))
  BY <1>1, <1>2, SpeaksShort, Zenon DEF ListTitle
<1>4. Speaks(ListContext(th))
  BY PartSpeaks, SpeaksOn, Zenon DEF ListContext
<1> DEFINE parts == ListContext(th) \o Part(ListPrompt(th))
<1>5. Speaks(parts)
  BY <1>4, PartSpeaks, SpeaksOn, Zenon
<1>6. ListDetail(th) = IF parts = <<>> THEN <<"Open for latest content">> ELSE parts
  BY Zenon DEF ListDetail
<1> HIDE DEF parts
<1>7. Speaks(<<"Open for latest content">>) /\ <<"Open for latest content">> # <<>>
  <2>1. "Open for latest content" # Null
    BY DEF Null
  <2> QED
    BY <2>1, SpeaksShort
<1> QED
  BY <1>3, <1>5, <1>6, <1>7

\* The parts of a user's message that are texts.
LEMMA UserInputSpeaks ==
  ASSUME NEW S, NEW content \in Seq(S)
  PROVE  Speaks(UserInputText(content))
<1> DEFINE N == Len(content)
           D == 0..N
           V == Seq({"text"})
           At(f, i) == IF i = 0 THEN <<>>
                       ELSE IF content[i] = "text" THEN Append(f[i - 1], content[i]) ELSE f[i - 1]
           parts == CHOOSE f : f = [i \in D |-> At(f, i)]
           rank == [i \in D |-> i]
           Step == [g \in [D -> V] |-> [i \in D |-> At(g, i)]]
<1>1. UserInputText(content) = parts[N]
  BY Zenon DEF UserInputText
<1>2. N \in Nat
  OBVIOUS
<1> HIDE DEF N
<1>3. rank \in [D -> 0..N] /\ \A i \in D : rank[i] = i
  OBVIOUS
<1>4. <<>> \in V /\ \A s \in V : Append(s, "text") \in V
  OBVIOUS
<1>5. ASSUME NEW g, NEW i \in D, i = 0 \/ g[i - 1] \in V PROVE At(g, i) \in V
  <2> HIDE DEF V
  <2> QED
    BY <1>4, <1>5
<1>6. \A i \in D : i = 0 \/ (i - 1 \in D /\ i - 1 < i)
  BY <1>2
<1>7. \A i \in D : \A g \in [D -> V] : At(g, i) \in V
  <2> HIDE DEF At, V
  <2> QED
    BY <1>5, <1>6
<1>8. Step \in [[D -> V] -> [D -> V]]
  <2> HIDE DEF At, D, V
  <2> QED
    BY <1>7
<1>9. \A g, h \in [D -> V] : \A i \in D :
        (\A j \in D : rank[j] < rank[i] => g[j] = h[j]) => Step[g][i] = Step[h][i]
  <2> SUFFICES ASSUME NEW g \in [D -> V], NEW h \in [D -> V], NEW i \in D,
                      \A j \in D : rank[j] < rank[i] => g[j] = h[j]
               PROVE  Step[g][i] = Step[h][i]
    OBVIOUS
  <2> HIDE DEF rank, V
  <2>1. i = 0 \/ g[i - 1] = h[i - 1]
    BY <1>3, <1>6
  <2>2. At(g, i) = At(h, i)
    BY <2>1
  <2> HIDE DEF At, D
  <2> QED
    BY <2>2
<1> HIDE DEF rank
<1>10. \E f : Solves(f, D, V, Step)
  <2>1. V # {}
    BY <1>4
  <2>2. rank \in [D -> 0..N]
    BY <1>3
  <2> HIDE DEF D, At, Step, V
  <2> QED
    BY <1>2, <1>8, <1>9, <2>1, <2>2, RecursionDefines
<1>11. parts = [i \in D |-> At(parts, i)]
  <2> HIDE DEF At, D, V
  <2>1. PICK f \in [D -> V] : f = [i \in D |-> At(f, i)]
    BY <1>10 DEF Solves
  <2> QED
    BY <2>1, Zenon
<1> HIDE DEF parts
<1>12. \A i \in D : parts[i] = At(parts, i)
  <2> HIDE DEF At, D
  <2> QED
    BY <1>11
<1> DEFINE T == {i \in D : parts[i] \in V}
<1>13. \A i \in D : (\A j \in D : rank[j] < rank[i] => j \in T) => i \in T
  <2> SUFFICES ASSUME NEW i \in D, \A j \in D : rank[j] < rank[i] => j \in T
               PROVE  parts[i] \in V
    OBVIOUS
  <2>1. i = 0 \/ parts[i - 1] \in V
    BY <1>3, <1>6
  <2> HIDE DEF At, D, V
  <2> QED
    BY <2>1, <1>5, <1>12
<1>14. D \subseteq T
  <2>1. rank \in [D -> 0..N]
    BY <1>3
  <2> HIDE DEF D, T, At, Step, V
  <2> QED
    BY <1>2, <1>13, <2>1, RecursionReaches
<1>15. parts[N] \in V
  BY <1>2, <1>14
<1>16. Null \notin {"text"}
  BY DEF Null
<1> QED
  BY <1>1, <1>15, <1>16, SpeaksOf

LEMMA SectionSpeaks ==
  ASSUME NEW it \in ThreadItem
  PROVE  Speaks(ThreadItemSummary(it)) /\ Speaks(ItemStartedSummary(it))
<1> DEFINE Says(s) == Speaks(s)
<1>1. /\ \A x \in String : x # Null
      /\ \A x \in CommandExecutionStatus : x # Null
      /\ "Codex: " # Null /\ "You: " # Null /\ "Plan: " # Null /\ "$ " # Null
      /\ "Files changed: " # Null /\ "Tool: " # Null /\ "Reasoning: " # Null
      /\ "Context compacted" # Null /\ "Codex: writing..." # Null /\ "(running)" # Null
      /\ "Plan updated" # Null /\ "Codex: working..." # Null
  BY DEF String, CommandExecutionStatus, Null
<1>2. CASE it \in [type : {"agentMessage", "plan"}, text : String]
  <2>1. it.text # Null /\ it.type \in {"agentMessage", "plan"}
    BY <1>1, <1>2
  <2>2. it.type = "agentMessage" => ThreadItemSummary(it) = <<"Codex: ", it.text>>
                                      /\ ItemStartedSummary(it) = <<"Codex: writing...">>
    BY DEF ThreadItemSummary, ItemStartedSummary
  <2>3. it.type = "plan" =>
          /\ ThreadItemSummary(it) = <<"Plan: ", it.text>>
          /\ ItemStartedSummary(it) \in {<<"Plan updated">>, <<"Plan: ", it.text>>}
    BY DEF ThreadItemSummary, ItemStartedSummary
  <2>4. /\ Speaks(<<"Codex: ", it.text>>) /\ Speaks(<<"Plan: ", it.text>>)
        /\ Speaks(<<"Codex: writing...">>) /\ Speaks(<<"Plan updated">>)
    BY <1>1, <2>1, SpeaksShort, Zenon
  <2> QED
    BY <2>1, <2>2, <2>3, <2>4
<1>3. CASE it \in [type : {"userMessage"}, content : {<<>>} \cup (UserInput \X UserInput)]
  <2>1. it.type = "userMessage" /\ it.content \in Seq(UserInput)
    <3> HIDE DEF UserInput
    <3>1. <<>> \in Seq(UserInput) /\ \A a, b \in UserInput : <<a, b>> \in Seq(UserInput)
      OBVIOUS
    <3>2. it.type = "userMessage" /\ it.content \in {<<>>} \cup (UserInput \X UserInput)
      BY <1>3
    <3>3. it.content = <<>> \/ \E a, b \in UserInput : it.content = <<a, b>>
      BY <3>2
    <3> QED
      BY <3>1, <3>2, <3>3, Zenon
  <2>2. ThreadItemSummary(it) = <<"You: ">> \o UserInputText(it.content)
        /\ ItemStartedSummary(it) = <<"Codex: working...">>
    BY <2>1 DEF ThreadItemSummary, ItemStartedSummary
  <2>3. Speaks(UserInputText(it.content))
    BY <2>1, UserInputSpeaks
  <2>4. Speaks(<<"You: ">>) /\ Speaks(<<"Codex: working...">>)
    BY <1>1, SpeaksShort, Zenon
  <2>5. Speaks(<<"You: ">> \o UserInputText(it.content))
    BY <2>3, <2>4, SpeaksOn, Zenon
  <2> QED
    BY <2>2, <2>4, <2>5
<1>4. CASE it \in [type : {"reasoning"}, summary : {<<>>, <<"some">>}]
  <2>1. it.type = "reasoning" /\ it.summary \in {<<>>, <<"some">>}
    BY <1>4
  <2>2. ThreadItemSummary(it) = (IF it.summary = <<>> THEN <<>> ELSE <<"Reasoning: ">> \o it.summary)
        /\ ItemStartedSummary(it) = <<"Codex: working...">>
    BY <2>1 DEF ThreadItemSummary, ItemStartedSummary
  <2>3. "some" # Null
    BY DEF Null
  <2>4. /\ Speaks(<<>>) /\ Speaks(<<"some">>) /\ Speaks(<<"Reasoning: ">>)
        /\ Speaks(<<"Codex: working...">>)
    BY <1>1, <2>3, SpeaksShort, Zenon
  <2>5. Speaks(it.summary)
    BY <2>1, <2>4
  <2>6. Speaks(<<"Reasoning: ">> \o it.summary)
    BY <2>4, <2>5, SpeaksOn, Zenon
  <2> QED
    BY <2>2, <2>4, <2>6
<1>5. CASE it \in [type : {"commandExecution"}, command : String, status : CommandExecutionStatus]
  <2>1. it.type = "commandExecution" /\ it.command # Null /\ it.status # Null
    BY <1>1, <1>5
  <2>2. ThreadItemSummary(it) = <<"$ ", it.command, it.status>>
        /\ ItemStartedSummary(it) = <<"$ ", it.command, "(running)">>
    BY <2>1 DEF ThreadItemSummary, ItemStartedSummary
  <2> QED
    BY <1>1, <2>1, <2>2, SpeaksShort, Zenon
<1>6. CASE it \in [type : {"fileChange"}, status : CommandExecutionStatus]
  <2>1. it.type = "fileChange" /\ it.status # Null
    BY <1>1, <1>6
  <2>2. ThreadItemSummary(it) = <<"Files changed: ", it.status>>
        /\ ItemStartedSummary(it) = <<"Codex: working...">>
    BY <2>1 DEF ThreadItemSummary, ItemStartedSummary
  <2> QED
    BY <1>1, <2>1, <2>2, SpeaksShort, Zenon
<1>7. CASE it \in [type : {"mcpToolCall"}, server : String, tool : String,
                   status : {"inProgress", "completed", "failed"}]
  <2>1. it.type = "mcpToolCall" /\ it.server # Null /\ it.tool # Null /\ it.status # Null
    BY <1>1, <1>7 DEF Null
  <2>2. ThreadItemSummary(it) = <<"Tool: ", it.server, it.tool, it.status>>
        /\ ItemStartedSummary(it) = <<"Tool: ", it.server, it.tool, "(running)">>
    BY <2>1 DEF ThreadItemSummary, ItemStartedSummary
  <2>3. ASSUME NEW x, x # Null PROVE Speaks(<<"Tool: ", it.server, it.tool, x>>)
    <3> DEFINE S == {"Tool: ", it.server, it.tool, x}
               s == <<"Tool: ", it.server, it.tool, x>>
    <3>1. s \in Seq(S)
      OBVIOUS
    <3>2. Null \notin S
      BY <1>1, <2>1, <2>3
    <3> HIDE DEF s, S
    <3>3. Speaks(s)
      BY <3>1, <3>2, SpeaksOf
    <3> QED
      BY <3>3 DEF s
  <2>4. Speaks(<<"Tool: ", it.server, it.tool, it.status>>)
    BY <2>1, <2>3
  <2>5. Speaks(<<"Tool: ", it.server, it.tool, "(running)">>)
    BY <1>1, <2>3
  <2> QED
    BY <2>2, <2>4, <2>5
<1>8. CASE it \in [type : {"dynamicToolCall"}, namespace : Nullable, tool : String]
  <2>1. it.type = "dynamicToolCall" /\ it.tool # Null
    BY <1>1, <1>8
  <2>2. ThreadItemSummary(it) = <<"Tool: ">> \o Part(it.namespace) \o <<it.tool>>
        /\ ItemStartedSummary(it) = <<"Tool: ">> \o Part(it.namespace) \o <<it.tool, "(running)">>
    BY <2>1 DEF ThreadItemSummary, ItemStartedSummary
  <2>3. /\ Speaks(<<"Tool: ">>) /\ Speaks(Part(it.namespace))
        /\ Speaks(<<it.tool>>) /\ Speaks(<<it.tool, "(running)">>)
    BY <1>1, <2>1, SpeaksShort, PartSpeaks, Zenon
  <2>4. Speaks(<<"Tool: ">> \o Part(it.namespace))
    BY <2>3, SpeaksOn, Zenon
  <2>5. /\ Speaks(<<"Tool: ">> \o Part(it.namespace) \o <<it.tool>>)
        /\ Speaks(<<"Tool: ">> \o Part(it.namespace) \o <<it.tool, "(running)">>)
    BY <2>3, <2>4, SpeaksOn, Zenon
  <2> QED
    BY <2>2, <2>5
<1>9. CASE it \in [type : {"hookPrompt", "collabAgentToolCall", "webSearch", "imageView",
                           "imageGeneration", "enteredReviewMode", "exitedReviewMode",
                           "contextCompaction"}]
  <2>1. it.type \in {"hookPrompt", "collabAgentToolCall", "webSearch", "imageView",
                     "imageGeneration", "enteredReviewMode", "exitedReviewMode",
                     "contextCompaction"}
    BY <1>9
  <2>2. ThreadItemSummary(it) \in {<<>>, <<"Context compacted">>}
    BY <2>1 DEF ThreadItemSummary
  <2>3. ItemStartedSummary(it) = <<"Codex: working...">>
    BY <2>1 DEF ItemStartedSummary
  <2>4. Speaks(<<>>) /\ Speaks(<<"Context compacted">>) /\ Speaks(<<"Codex: working...">>)
    BY <1>1, SpeaksShort, Zenon
  <2> QED
    BY <2>2, <2>3, <2>4
<1>10. \/ it \in [type : {"agentMessage", "plan"}, text : String]
       \/ it \in [type : {"userMessage"}, content : {<<>>} \cup (UserInput \X UserInput)]
       \/ it \in [type : {"reasoning"}, summary : {<<>>, <<"some">>}]
       \/ it \in [type : {"commandExecution"}, command : String, status : CommandExecutionStatus]
       \/ it \in [type : {"fileChange"}, status : CommandExecutionStatus]
       \/ it \in [type : {"mcpToolCall"}, server : String, tool : String,
                  status : {"inProgress", "completed", "failed"}]
       \/ it \in [type : {"dynamicToolCall"}, namespace : Nullable, tool : String]
       \/ it \in [type : {"hookPrompt", "collabAgentToolCall", "webSearch", "imageView",
                          "imageGeneration", "enteredReviewMode", "exitedReviewMode",
                          "contextCompaction"}]
  BY Zenon DEF ThreadItem
<1> QED
  BY <1>2, <1>3, <1>4, <1>5, <1>6, <1>7, <1>8, <1>9, <1>10, Zenon

LEMMA PlanSpeaks ==
  ASSUME NEW params \in TurnPlanUpdatedNotification
  PROVE  Speaks(PlanNotificationSummary(params))
<1> DEFINE said == {i \in DOMAIN params.plan : params.plan[i].step # ""}
<1>1. PICK plan : plan = params.plan /\ plan \in Seq(TurnPlanStep)
  <2> HIDE DEF TurnPlanStep
  <2>1. <<>> \in Seq(TurnPlanStep) /\ \A s, t \in TurnPlanStep : <<s, t>> \in Seq(TurnPlanStep)
    OBVIOUS
  <2>2. params.plan \in {<<>>} \cup (TurnPlanStep \X TurnPlanStep)
    BY DEF TurnPlanUpdatedNotification
  <2>3. params.plan = <<>> \/ \E s, t \in TurnPlanStep : params.plan = <<s, t>>
    BY <2>2
  <2>4. params.plan \in Seq(TurnPlanStep)
    BY <2>1, <2>3, Zenon
  <2> QED
    BY <2>4
<1>2. said # {} => params.plan[Max(said)].step # Null
  <2> SUFFICES ASSUME said # {} PROVE params.plan[Max(said)].step # Null
    OBVIOUS
  <2>1. Len(plan) \in Nat /\ DOMAIN plan = 1..Len(plan) /\ \A i \in 1..Len(plan) : plan[i] \in TurnPlanStep
    <3>1. plan \in Seq(TurnPlanStep)
      BY <1>1, Zenon
    <3> HIDE DEF TurnPlanStep, said
    <3> QED
      BY <3>1
  <2>2. said \in SUBSET (0..Len(plan)) /\ said \subseteq DOMAIN plan
    <3>1. said \subseteq DOMAIN params.plan
      OBVIOUS
    <3> HIDE DEF said
    <3>2. said \subseteq DOMAIN plan
      BY <1>1, <3>1
    <3>3. 1..Len(plan) \subseteq 0..Len(plan)
      BY <2>1
    <3> QED
      BY <2>1, <3>2, <3>3
  <2>3. Max(said) \in said
    <3> HIDE DEF said
    <3> QED
      BY <2>1, <2>2, MaxIsGreatest
  <2> HIDE DEF said
  <2>4. plan[Max(said)] \in TurnPlanStep
    BY <2>1, <2>2, <2>3
  <2>5. plan[Max(said)].step # Null
    BY <2>4 DEF TurnPlanStep, String, Null
  <2> QED
    BY <1>1, <2>5
<1>3. "Plan: " # Null /\ "Plan updated" # Null
  BY DEF Null
<1>4. PlanNotificationSummary(params) =
        IF said # {} THEN <<"Plan: ", params.plan[Max(said)].step>>
        ELSE IF params.explanation # Null THEN <<"Plan: ", params.explanation>>
        ELSE <<"Plan updated">>
  BY Zenon DEF PlanNotificationSummary
<1> HIDE DEF said
<1> QED
  BY <1>2, <1>3, <1>4, SpeaksShort, Zenon

\* No row and no section says "null", and none is blank, whatever of a thread
\* and an item the protocol leaves out (listDetail, threadItemSummary).
THEOREM NothingSaysNull == RowsInit /\ [][Tick]_rowsVars => []NothingIsNull
<1> DEFINE Inv == thread \in ListedThread /\ item \in ThreadItem
<1>1. FirstThread \in ListedThread /\ FirstItem \in ThreadItem
  <2>1. ThreadItem # {}
    <3>1. [type |-> "agentMessage", text |-> ""] \in [type : {"agentMessage", "plan"}, text : String]
      <4>1. "" \in String /\ "agentMessage" \in {"agentMessage", "plan"}
        BY DEF String
      <4> HIDE DEF String
      <4> QED
        BY <4>1
    <3>2. [type : {"agentMessage", "plan"}, text : String] \subseteq ThreadItem
      BY Zenon DEF ThreadItem
    <3> QED
      BY <3>1, <3>2
  <2>2. ListedThread # {}
    <3> DEFINE status == [type |-> "idle", activeFlags |-> {}]
               source == [kind |-> "cli"]
               git == [branch |-> Null, originUrl |-> Null]
               th == [status |-> status, cwd |-> "", gitInfo |-> git, source |-> source,
                      agentRole |-> Null, agentNickname |-> Null, preview |-> "", name |-> Null]
    <3>1. status \in ThreadStatus
      BY DEF ThreadStatus
    <3>2. source \in SessionSource /\ source.kind \in SourceKinds
      BY DEF SessionSource, SourceKinds
    <3>3. Null \in Nullable /\ "" \in String
      BY DEF Nullable, String
    <3>4. git \in GitInfo
      BY <3>3 DEF GitInfo
    <3> HIDE DEF status, source, git
    <3>5. th \in Thread
      <4> HIDE DEF Null, Nullable, String
      <4> QED
        BY <3>1, <3>2, <3>3, <3>4 DEF Thread
    <3>6. th.source = source
      OBVIOUS
    <3> HIDE DEF th
    <3> QED
      BY <3>2, <3>5, <3>6 DEF ListedThread
  <2> QED
    BY <2>1, <2>2, Zenon DEF FirstThread, FirstItem
<1>2. RowsInit => Inv
  BY <1>1 DEF RowsInit
<1>3. Inv /\ [Tick]_rowsVars => Inv'
  BY Zenon DEF Tick, rowsVars
<1>4. Inv => NothingIsNull
  <2> SUFFICES ASSUME Inv PROVE NothingIsNull
    OBVIOUS
  <2>1. /\ Null \notin Said(ListTitle(thread)) /\ Null \notin Said(ListDetail(thread))
        /\ Null \notin Said(ThreadItemSummary(item)) /\ Null \notin Said(ItemStartedSummary(item))
        /\ ListDetail(thread) # <<>>
    BY RowSpeaks, SectionSpeaks, SpeaksNoNull
  <2>2. \A params \in TurnPlanUpdatedNotification : Null \notin Said(PlanNotificationSummary(params))
    BY PlanSpeaks, SpeaksNoNull
  <2> QED
    BY <2>1, <2>2, Zenon DEF NothingIsNull
<1> QED
  BY <1>2, <1>3, <1>4, PTL

-----------------------------------------------------------------------------
(***************************************************************************)
(* Bytes: how many places of a kind there are, from one cut to the next.   *)
(***************************************************************************)
Count(X, k) == Cardinality(X \cap (1..k))

LEMMA CountStep ==
  ASSUME NEW X, NEW k \in Nat
  PROVE  /\ Count(X, k) \in Nat /\ Count(X, 0) = 0
         /\ Count(X, k + 1) = Count(X, k) + (IF k + 1 \in X THEN 1 ELSE 0)
<1> DEFINE A == X \cap (1..k)
           B == X \cap (1..(k + 1))
<1>1. IsFiniteSet(A)
  <2>1. IsFiniteSet(1..k) /\ A \subseteq 1..k
    BY FS_Interval
  <2> QED
    BY <2>1, FS_Subset
<1>2. Cardinality(A) \in Nat
  BY <1>1, FS_CardinalityType
<1>3. X \cap (1..0) = {}
  OBVIOUS
<1>4. Cardinality(B) = Cardinality(A) + (IF k + 1 \in X THEN 1 ELSE 0)
  <2>1. CASE k + 1 \in X
    <3>1. B = A \cup {k + 1} /\ k + 1 \notin A
      BY <2>1
    <3> HIDE DEF A, B
    <3> QED
      BY <1>1, <2>1, <3>1, FS_AddElement
  <2>2. CASE k + 1 \notin X
    <3>1. B = A
      BY <2>2
    <3> HIDE DEF A, B
    <3> QED
      BY <1>2, <2>2, <3>1
  <2> QED
    BY <2>1, <2>2
<1> QED
  BY <1>2, <1>3, <1>4, FS_EmptySet DEF Count

\* The places after the k-th.
LEMMA CountAfter ==
  ASSUME NEW X, NEW k \in Nat, NEW m \in Nat
  PROVE  Cardinality({i \in 1..m : i + k \in X}) = Count(X, k + m) - Count(X, k)
<1> DEFINE Y == {i \in Nat : i + k \in X}
           S == {j \in Nat : Count(Y, j) = Count(X, k + j) - Count(X, k)}
<1>1. 0 \in S
  <2>1. Count(Y, 0) = 0 /\ Count(X, k) \in Nat
    BY CountStep
  <2> HIDE DEF Y
  <2> QED
    BY <2>1
<1>2. ASSUME NEW j \in Nat, j \in S PROVE j + 1 \in S
  <2>1. Count(Y, j + 1) = Count(Y, j) + (IF j + 1 \in Y THEN 1 ELSE 0) /\ Count(Y, j) \in Nat
    <3> HIDE DEF Y
    <3> QED
      BY CountStep
  <2>2. Count(X, (k + j) + 1) = Count(X, k + j) + (IF (k + j) + 1 \in X THEN 1 ELSE 0)
        /\ Count(X, k + j) \in Nat /\ Count(X, k) \in Nat
    BY CountStep
  <2>3. (k + j) + 1 = k + (j + 1) /\ (j + 1 \in Y <=> (k + j) + 1 \in X)
    OBVIOUS
  <2>4. Count(Y, j) = Count(X, k + j) - Count(X, k)
    BY <1>2
  <2> HIDE DEF Y
  <2> QED
    BY <2>1, <2>2, <2>3, <2>4
<1>3. m \in S
  <2> HIDE DEF S
  <2> QED
    BY <1>1, <1>2, EveryNumber
<1>4. {i \in 1..m : i + k \in X} = Y \cap (1..m)
  OBVIOUS
<1> QED
  BY <1>3, <1>4 DEF Count

AllUnits == Units \cup {"."}
PlacesOf(s, units) == {i \in 1..Len(s) : s[i] \in units}
Pairs(s) == {i \in 1..Len(s) : Pair(s, i)}

OneByte == {"a", "|", "\n", " ", "."}
TwoBytes == {"e"}
ThreeBytes == {"k", "High", "Low"}

\* The bytes of a text up to a place.
Bytes(s, k) ==
  Count(PlacesOf(s, OneByte), k) + 2 * Count(PlacesOf(s, TwoBytes), k)
    + 3 * Count(PlacesOf(s, ThreeBytes), k) - 2 * Count(Pairs(s), k)

LEMMA BytesBetween ==
  ASSUME NEW s, NEW k \in Nat, NEW n \in Nat, NEW bytes,
         bytes = (Count(PlacesOf(s, OneByte), n) - Count(PlacesOf(s, OneByte), k))
                 + 2 * (Count(PlacesOf(s, TwoBytes), n) - Count(PlacesOf(s, TwoBytes), k))
                 + 3 * (Count(PlacesOf(s, ThreeBytes), n) - Count(PlacesOf(s, ThreeBytes), k))
                 - 2 * (Count(Pairs(s), n) - Count(Pairs(s), k))
  PROVE  bytes = Bytes(s, n) - Bytes(s, k)
<1>1. /\ Count(PlacesOf(s, OneByte), k) \in Nat /\ Count(PlacesOf(s, OneByte), n) \in Nat
      /\ Count(PlacesOf(s, TwoBytes), k) \in Nat /\ Count(PlacesOf(s, TwoBytes), n) \in Nat
      /\ Count(PlacesOf(s, ThreeBytes), k) \in Nat /\ Count(PlacesOf(s, ThreeBytes), n) \in Nat
      /\ Count(Pairs(s), k) \in Nat /\ Count(Pairs(s), n) \in Nat
  BY CountStep
<1> QED
  BY <1>1 DEF Bytes

LEMMA BytesOfBeginning ==
  ASSUME NEW s \in Seq(AllUnits), NEW k \in Cuts(s)
  PROVE  ByteCount(SubSeq(s, 1, k)) = Bytes(s, k)
<1> DEFINE t == SubSeq(s, 1, k)
           n == Len(s)
           all(units) == Cardinality({i \in DOMAIN t : t[i] \in units})
           pairs == Cardinality({i \in DOMAIN t : Pair(t, i)})
<1>1. n \in Nat /\ k \in 0..n /\ (k = 0 \/ ~Pair(s, k))
  BY DEF Cuts
<1>2. t \in Seq(AllUnits) /\ Len(t) = k /\ \A i \in 1..k : t[i] = s[i]
  <2> HIDE DEF AllUnits
  <2> QED
    BY <1>1, SubSeqProperties
<1>3. DOMAIN t = 1..k
  BY <1>2
<1>4. ByteCount(t) = all(OneByte) + 2 * all(TwoBytes) + 3 * all(ThreeBytes) - 2 * pairs
  BY Zenon DEF ByteCount, OneByte, TwoBytes, ThreeBytes
<1> HIDE DEF t, n
<1>5. ASSUME NEW units PROVE all(units) = Count(PlacesOf(s, units), k)
  <2>1. {i \in DOMAIN t : t[i] \in units} = PlacesOf(s, units) \cap (1..k)
    BY <1>1, <1>2, <1>3 DEF PlacesOf, n
  <2> QED
    BY <2>1 DEF Count
<1>6. pairs = Count(Pairs(s), k)
  <2>1. \A i \in 1..k : Pair(t, i) <=> (i < k /\ Pair(s, i))
    BY <1>1, <1>2 DEF Pair, n
  <2>2. \A i \in 1..k : Pair(s, i) => i < k
    BY <1>1
  <2>3. {i \in DOMAIN t : Pair(t, i)} = Pairs(s) \cap (1..k)
    BY <1>1, <1>3, <2>1, <2>2 DEF Pairs, n
  <2> QED
    BY <2>3 DEF Count
<1> HIDE DEF all, pairs
<1> QED
  BY <1>4, <1>5, <1>6, Zenon DEF Bytes, t

LEMMA BytesOfEnd ==
  ASSUME NEW s \in Seq(AllUnits), NEW k \in 0..Len(s)
  PROVE  ByteCount(SubSeq(s, k + 1, Len(s))) = Bytes(s, Len(s)) - Bytes(s, k)
<1> DEFINE n == Len(s)
           t == SubSeq(s, k + 1, n)
           m == n - k
           all(units) == Cardinality({i \in DOMAIN t : t[i] \in units})
           pairs == Cardinality({i \in DOMAIN t : Pair(t, i)})
<1>1. n \in Nat /\ k \in Nat /\ m \in Nat /\ k + m = n /\ k <= n /\ m = n - k
  OBVIOUS
<1>2. t \in Seq(AllUnits) /\ Len(t) = m /\ \A i \in 1..m : t[i] = s[i + k]
  <2> HIDE DEF AllUnits
  <2>1. t \in Seq(AllUnits) /\ Len(t) = (IF k + 1 <= n THEN n - (k + 1) + 1 ELSE 0)
        /\ \A i \in 1..(n - (k + 1) + 1) : t[i] = s[(k + 1) + i - 1]
    BY <1>1, SubSeqProperties
  <2>2. \A i \in 1..m : (k + 1) + i - 1 = i + k /\ i \in 1..(n - (k + 1) + 1)
    BY <1>1
  <2> HIDE DEF t, n, m
  <2>3. (IF k + 1 <= n THEN n - (k + 1) + 1 ELSE 0) = m
    BY <1>1
  <2>4. ASSUME NEW i \in 1..m PROVE t[i] = s[i + k]
    <3>1. t[i] = s[(k + 1) + i - 1]
      BY <2>1, <2>2
    <3> QED
      BY <2>2, <3>1
  <2> QED
    BY <2>1, <2>3, <2>4
<1>3. DOMAIN t = 1..m
  BY <1>2
<1>4. ByteCount(t) = all(OneByte) + 2 * all(TwoBytes) + 3 * all(ThreeBytes) - 2 * pairs
  BY Zenon DEF ByteCount, OneByte, TwoBytes, ThreeBytes
<1> HIDE DEF t, n, m
<1>5. ASSUME NEW units PROVE all(units) = Count(PlacesOf(s, units), n) - Count(PlacesOf(s, units), k)
  <2>1. \A i \in 1..m : t[i] \in units <=> i + k \in PlacesOf(s, units)
    BY <1>1, <1>2 DEF PlacesOf, n
  <2>2. {i \in DOMAIN t : t[i] \in units} = {i \in 1..m : i + k \in PlacesOf(s, units)}
    BY <1>3, <2>1
  <2>3. Cardinality({i \in 1..m : i + k \in PlacesOf(s, units)})
          = Count(PlacesOf(s, units), k + m) - Count(PlacesOf(s, units), k)
    BY <1>1, CountAfter
  <2> QED
    BY <1>1, <2>2, <2>3, Zenon
<1>6. pairs = Count(Pairs(s), n) - Count(Pairs(s), k)
  <2>1. \A i \in 1..m : Pair(t, i) <=> i + k \in Pairs(s)
    <3> SUFFICES ASSUME NEW i \in 1..m PROVE Pair(t, i) <=> i + k \in Pairs(s)
      OBVIOUS
    <3>1. i + k \in 1..n /\ (i < m <=> i + k < n) /\ t[i] = s[i + k]
      BY <1>1, <1>2
    <3>2. i < m => t[i + 1] = s[(i + k) + 1]
      <4> SUFFICES ASSUME i < m PROVE t[i + 1] = s[(i + k) + 1]
        OBVIOUS
      <4>1. i + 1 \in 1..m /\ (i + 1) + k = (i + k) + 1
        BY <1>1
      <4> QED
        BY <1>2, <4>1
    <3> QED
      BY <1>2, <3>1, <3>2 DEF Pair, Pairs, n
  <2>2. {i \in DOMAIN t : Pair(t, i)} = {i \in 1..m : i + k \in Pairs(s)}
    BY <1>3, <2>1
  <2>3. Cardinality({i \in 1..m : i + k \in Pairs(s)}) = Count(Pairs(s), k + m) - Count(Pairs(s), k)
    BY <1>1, CountAfter
  <2> QED
    BY <1>1, <2>2, <2>3, Zenon
<1>7. /\ all(OneByte) = Count(PlacesOf(s, OneByte), n) - Count(PlacesOf(s, OneByte), k)
      /\ all(TwoBytes) = Count(PlacesOf(s, TwoBytes), n) - Count(PlacesOf(s, TwoBytes), k)
      /\ all(ThreeBytes) = Count(PlacesOf(s, ThreeBytes), n) - Count(PlacesOf(s, ThreeBytes), k)
  BY <1>5
<1> HIDE DEF all, pairs
<1>8. ByteCount(t) = (Count(PlacesOf(s, OneByte), n) - Count(PlacesOf(s, OneByte), k))
                     + 2 * (Count(PlacesOf(s, TwoBytes), n) - Count(PlacesOf(s, TwoBytes), k))
                     + 3 * (Count(PlacesOf(s, ThreeBytes), n) - Count(PlacesOf(s, ThreeBytes), k))
                     - 2 * (Count(Pairs(s), n) - Count(Pairs(s), k))
  BY <1>4, <1>6, <1>7, Zenon
<1>9. ByteCount(t) = Bytes(s, n) - Bytes(s, k)
  BY <1>1, <1>8, BytesBetween
<1> QED
  BY <1>9 DEF t, n

\* From a cut to the next.
LEMMA NextCut ==
  ASSUME NEW s \in Seq(AllUnits), NEW k \in Cuts(s), k < Len(s)
  PROVE  LET next == k + UnitsAt(s, k + 1)
         IN  /\ next \in Cuts(s) /\ next > k
             /\ \A c \in Cuts(s) : c > k => c >= next
             /\ BytesAt(s, k + 1) \in 1..4
             /\ Bytes(s, next) = Bytes(s, k) + BytesAt(s, k + 1)
<1> DEFINE n == Len(s)
           A == PlacesOf(s, OneByte)
           B == PlacesOf(s, TwoBytes)
           D == PlacesOf(s, ThreeBytes)
           P == Pairs(s)
<1>1. n \in Nat /\ k \in Nat /\ k + 1 \in 1..n /\ \A i \in 1..n : s[i] \in AllUnits
  <2> HIDE DEF AllUnits
  <2> QED
    BY DEF Cuts
<1> HIDE DEF n
<1>2. ASSUME NEW X
      PROVE  /\ Count(X, k) \in Nat /\ Count(X, k + 1) \in Nat
             /\ Count(X, k + 1) = Count(X, k) + (IF k + 1 \in X THEN 1 ELSE 0)
             /\ Count(X, k + 2) = Count(X, k + 1) + (IF k + 2 \in X THEN 1 ELSE 0)
  <2>1. k + 1 \in Nat /\ (k + 1) + 1 = k + 2
    BY <1>1
  <2>2. Count(X, k) \in Nat /\ Count(X, k + 1) = Count(X, k) + (IF k + 1 \in X THEN 1 ELSE 0)
    BY <1>1, CountStep
  <2>3. /\ Count(X, k + 1) \in Nat
        /\ Count(X, (k + 1) + 1) = Count(X, k + 1) + (IF (k + 1) + 1 \in X THEN 1 ELSE 0)
    BY <2>1, CountStep
  <2> QED
    BY <2>1, <2>2, <2>3
<1>3. \A i \in 1..n : /\ (i \in A <=> s[i] \in OneByte) /\ (i \in B <=> s[i] \in TwoBytes)
                      /\ (i \in D <=> s[i] \in ThreeBytes) /\ (i \in P <=> Pair(s, i))
  BY DEF PlacesOf, Pairs, n
<1>4. \A i \in 1..n : \/ s[i] \in OneByte /\ s[i] \notin TwoBytes /\ s[i] \notin ThreeBytes /\ BytesOfUnit(s[i]) = 1
                      \/ s[i] \notin OneByte /\ s[i] \in TwoBytes /\ s[i] \notin ThreeBytes /\ BytesOfUnit(s[i]) = 2
                      \/ s[i] \notin OneByte /\ s[i] \notin TwoBytes /\ s[i] \in ThreeBytes /\ BytesOfUnit(s[i]) = 3
  <2> SUFFICES ASSUME NEW x \in AllUnits
               PROVE  \/ x \in OneByte /\ x \notin TwoBytes /\ x \notin ThreeBytes /\ BytesOfUnit(x) = 1
                      \/ x \notin OneByte /\ x \in TwoBytes /\ x \notin ThreeBytes /\ BytesOfUnit(x) = 2
                      \/ x \notin OneByte /\ x \notin TwoBytes /\ x \in ThreeBytes /\ BytesOfUnit(x) = 3
    BY <1>1
  <2> QED
    BY DEF AllUnits, Units, OneByte, TwoBytes, ThreeBytes, BytesOfUnit
<1>5. \A j \in Nat : Bytes(s, j) = Count(A, j) + 2 * Count(B, j) + 3 * Count(D, j) - 2 * Count(P, j)
  BY Zenon DEF Bytes
<1>6. CASE Pair(s, k + 1)
  <2>1. UnitsAt(s, k + 1) = 2 /\ BytesAt(s, k + 1) = 4
    BY <1>6 DEF UnitsAt, BytesAt
  <2>2. k + 2 \in 1..n /\ s[k + 1] = "High" /\ s[k + 2] = "Low" /\ (k + 1) + 1 = k + 2
    BY <1>1, <1>6 DEF Pair, n
  <2>3. ~Pair(s, k + 2)
    BY <2>2 DEF Pair
  <2>4. k + 2 \in Cuts(s) /\ \A c \in Cuts(s) : c > k => c >= k + 2
    BY <1>1, <1>6, <2>2, <2>3 DEF Cuts, n
  <2>5. "High" \in ThreeBytes /\ "Low" \in ThreeBytes /\ "High" \notin OneByte /\ "Low" \notin OneByte
        /\ "High" \notin TwoBytes /\ "Low" \notin TwoBytes
    BY DEF OneByte, TwoBytes, ThreeBytes
  <2>6. /\ k + 1 \notin A /\ k + 1 \notin B /\ k + 1 \in D /\ k + 1 \in P
        /\ k + 2 \notin A /\ k + 2 \notin B /\ k + 2 \in D /\ k + 2 \notin P
    BY <1>1, <1>3, <1>6, <2>2, <2>3, <2>5
  <2> HIDE DEF A, B, D, P
  <2>7. /\ Count(A, k + 2) = Count(A, k) /\ Count(B, k + 2) = Count(B, k)
        /\ Count(D, k + 2) = Count(D, k) + 2 /\ Count(P, k + 2) = Count(P, k) + 1
        /\ Count(A, k) \in Nat /\ Count(B, k) \in Nat /\ Count(D, k) \in Nat /\ Count(P, k) \in Nat
    <3>1. /\ Count(A, k) \in Nat
          /\ Count(A, k + 1) = Count(A, k) + (IF k + 1 \in A THEN 1 ELSE 0)
          /\ Count(A, k + 2) = Count(A, k + 1) + (IF k + 2 \in A THEN 1 ELSE 0)
      BY <1>2
    <3>2. /\ Count(B, k) \in Nat
          /\ Count(B, k + 1) = Count(B, k) + (IF k + 1 \in B THEN 1 ELSE 0)
          /\ Count(B, k + 2) = Count(B, k + 1) + (IF k + 2 \in B THEN 1 ELSE 0)
      BY <1>2
    <3>3. /\ Count(D, k) \in Nat
          /\ Count(D, k + 1) = Count(D, k) + (IF k + 1 \in D THEN 1 ELSE 0)
          /\ Count(D, k + 2) = Count(D, k + 1) + (IF k + 2 \in D THEN 1 ELSE 0)
      BY <1>2
    <3>4. /\ Count(P, k) \in Nat
          /\ Count(P, k + 1) = Count(P, k) + (IF k + 1 \in P THEN 1 ELSE 0)
          /\ Count(P, k + 2) = Count(P, k + 1) + (IF k + 2 \in P THEN 1 ELSE 0)
      BY <1>2
    <3> QED
      BY <2>6, <3>1, <3>2, <3>3, <3>4
  <2>8. Bytes(s, k + 2) = Bytes(s, k) + 4
    BY <1>1, <1>5, <2>7, SMTT(40)
  <2> QED
    BY <1>1, <2>1, <2>4, <2>8
<1>7. CASE ~Pair(s, k + 1)
  <2>1. UnitsAt(s, k + 1) = 1 /\ BytesAt(s, k + 1) = BytesOfUnit(s[k + 1])
    BY <1>7 DEF UnitsAt, BytesAt
  <2>2. k + 1 \in Cuts(s) /\ \A c \in Cuts(s) : c > k => c >= k + 1
    BY <1>1, <1>7 DEF Cuts, n
  <2>3. k + 1 \notin P
    BY <1>1, <1>3, <1>7
  <2>4. /\ Count(A, k) \in Nat /\ Count(B, k) \in Nat /\ Count(D, k) \in Nat /\ Count(P, k) \in Nat
        /\ Count(P, k + 1) = Count(P, k)
        /\ \/ /\ BytesOfUnit(s[k + 1]) = 1 /\ Count(A, k + 1) = Count(A, k) + 1
              /\ Count(B, k + 1) = Count(B, k) /\ Count(D, k + 1) = Count(D, k)
           \/ /\ BytesOfUnit(s[k + 1]) = 2 /\ Count(A, k + 1) = Count(A, k)
              /\ Count(B, k + 1) = Count(B, k) + 1 /\ Count(D, k + 1) = Count(D, k)
           \/ /\ BytesOfUnit(s[k + 1]) = 3 /\ Count(A, k + 1) = Count(A, k)
              /\ Count(B, k + 1) = Count(B, k) /\ Count(D, k + 1) = Count(D, k) + 1
    <3>1. \/ k + 1 \in A /\ k + 1 \notin B /\ k + 1 \notin D /\ BytesOfUnit(s[k + 1]) = 1
          \/ k + 1 \notin A /\ k + 1 \in B /\ k + 1 \notin D /\ BytesOfUnit(s[k + 1]) = 2
          \/ k + 1 \notin A /\ k + 1 \notin B /\ k + 1 \in D /\ BytesOfUnit(s[k + 1]) = 3
      BY <1>1, <1>3, <1>4
    <3> HIDE DEF A, B, D, P
    <3>2. /\ Count(A, k) \in Nat
          /\ Count(A, k + 1) = Count(A, k) + (IF k + 1 \in A THEN 1 ELSE 0)
      BY <1>2
    <3>3. /\ Count(B, k) \in Nat
          /\ Count(B, k + 1) = Count(B, k) + (IF k + 1 \in B THEN 1 ELSE 0)
      BY <1>2
    <3>4. /\ Count(D, k) \in Nat
          /\ Count(D, k + 1) = Count(D, k) + (IF k + 1 \in D THEN 1 ELSE 0)
      BY <1>2
    <3>5. /\ Count(P, k) \in Nat
          /\ Count(P, k + 1) = Count(P, k) + (IF k + 1 \in P THEN 1 ELSE 0)
      BY <1>2
    <3> QED
      BY <2>3, <3>1, <3>2, <3>3, <3>4, <3>5
  <2> HIDE DEF A, B, D, P
  <2>5. BytesOfUnit(s[k + 1]) \in 1..4 /\ Bytes(s, k + 1) = Bytes(s, k) + BytesOfUnit(s[k + 1])
    <3>1. Bytes(s, k) = Count(A, k) + 2 * Count(B, k) + 3 * Count(D, k) - 2 * Count(P, k)
      BY <1>1, <1>5
    <3>2. Bytes(s, k + 1) = Count(A, k + 1) + 2 * Count(B, k + 1) + 3 * Count(D, k + 1) - 2 * Count(P, k + 1)
      BY <1>1, <1>5
    <3> QED
      BY <2>4, <3>1, <3>2, SMTT(40)
  <2> QED
    BY <1>1, <2>1, <2>2, <2>5
<1> QED
  BY <1>6, <1>7

\* From a cut to the one before it.
LEMMA PreviousCut ==
  ASSUME NEW s \in Seq(AllUnits), NEW k \in Cuts(s), k > 0
  PROVE  LET before == Before(s, k)
         IN  /\ before \in Cuts(s) /\ before < k
             /\ \A c \in Cuts(s) : c < k => c <= before
             /\ BytesAt(s, before + 1) \in 1..4
             /\ Bytes(s, k) = Bytes(s, before) + BytesAt(s, before + 1)
<1> DEFINE before == Before(s, k)
<1>1. Len(s) \in Nat /\ k \in 1..Len(s) /\ ~Pair(s, k)
  BY DEF Cuts
<1>2. before \in Cuts(s) /\ before < k /\ before + UnitsAt(s, before + 1) = k
  <2>1. CASE k > 1 /\ Pair(s, k - 1)
    <3>1. before = k - 2 /\ before + 1 = k - 1 /\ before \in 0..Len(s)
      BY <1>1, <2>1 DEF Before
    <3>2. before = 0 \/ ~Pair(s, before)
      <4>1. s[k - 1] = "High"
        BY <2>1 DEF Pair
      <4> QED
        BY <1>1, <3>1, <4>1 DEF Pair
    <3>3. UnitsAt(s, before + 1) = 2
      BY <2>1, <3>1 DEF UnitsAt
    <3> HIDE DEF before
    <3> QED
      BY <1>1, <3>1, <3>2, <3>3 DEF Cuts
  <2>2. CASE ~(k > 1 /\ Pair(s, k - 1))
    <3>1. before = k - 1 /\ before + 1 = k /\ before \in 0..Len(s)
      BY <1>1, <2>2 DEF Before
    <3>2. before = 0 \/ ~Pair(s, before)
      BY <1>1, <2>2, <3>1
    <3>3. UnitsAt(s, before + 1) = 1
      BY <1>1, <3>1 DEF UnitsAt
    <3> HIDE DEF before
    <3> QED
      BY <1>1, <3>1, <3>2, <3>3 DEF Cuts
  <2> QED
    BY <2>1, <2>2
<1> HIDE DEF before
<1>3. before < Len(s)
  BY <1>1, <1>2 DEF Cuts
<1>4. /\ \A c \in Cuts(s) : c > before => c >= k
      /\ BytesAt(s, before + 1) \in 1..4
      /\ Bytes(s, k) = Bytes(s, before) + BytesAt(s, before + 1)
  BY <1>2, <1>3, NextCut
<1>5. \A c \in Cuts(s) : c < k => c <= before
  <2>1. \A c \in Cuts(s) : c \in Nat /\ before \in Nat
    BY <1>2 DEF Cuts
  <2> QED
    BY <1>1, <1>4, <2>1
<1> QED
  BY <1>2, <1>4, <1>5 DEF before

\* The bytes grow from cut to cut.
LEMMA BytesGrow ==
  ASSUME NEW s \in Seq(AllUnits)
  PROVE  /\ 0 \in Cuts(s) /\ Len(s) \in Cuts(s)
         /\ Bytes(s, 0) = 0
         /\ \A k \in Cuts(s) : Bytes(s, k) \in Nat
         /\ \A k, c \in Cuts(s) : k <= c => Bytes(s, k) <= Bytes(s, c)
<1> DEFINE n == Len(s)
           D == 0..n
           rank == [i \in D |-> n - i]
           T == {k \in D : k \in Cuts(s) => \A c \in Cuts(s) : k <= c => Bytes(s, k) <= Bytes(s, c)}
<1>1. n \in Nat /\ 0 \in Cuts(s) /\ n \in Cuts(s) /\ Cuts(s) \subseteq D
  BY DEF Cuts, Pair
<1>2. \A j \in Nat : Bytes(s, j) \in Int
  <2> SUFFICES ASSUME NEW j \in Nat PROVE Bytes(s, j) \in Int
    OBVIOUS
  <2>1. /\ Count(PlacesOf(s, OneByte), j) \in Nat /\ Count(PlacesOf(s, TwoBytes), j) \in Nat
        /\ Count(PlacesOf(s, ThreeBytes), j) \in Nat /\ Count(Pairs(s), j) \in Nat
    BY CountStep
  <2> QED
    BY <2>1 DEF Bytes
<1>3. Bytes(s, 0) = 0
  <2>1. /\ Count(PlacesOf(s, OneByte), 0) = 0 /\ Count(PlacesOf(s, TwoBytes), 0) = 0
        /\ Count(PlacesOf(s, ThreeBytes), 0) = 0 /\ Count(Pairs(s), 0) = 0
    BY CountStep
  <2> QED
    BY <2>1 DEF Bytes
<1> HIDE DEF n
<1>4. rank \in [D -> 0..n] /\ \A i \in D : rank[i] = n - i
  BY <1>1
<1> HIDE DEF rank
<1>5. ASSUME NEW k \in D, \A j \in D : rank[j] < rank[k] => j \in T PROVE k \in T
  <2> SUFFICES ASSUME k \in Cuts(s), NEW c \in Cuts(s), k <= c PROVE Bytes(s, k) <= Bytes(s, c)
    BY DEF T
  <2>1. k \in Nat /\ c \in Nat /\ c <= n /\ Bytes(s, k) \in Int /\ Bytes(s, c) \in Int
    BY <1>1, <1>2
  <2>2. CASE k = c
    BY <2>1, <2>2
  <2>3. CASE k < c
    <3> DEFINE next == k + UnitsAt(s, k + 1)
    <3>1. k < Len(s)
      BY <1>1, <2>1, <2>3 DEF n
    <3>2. /\ next \in Cuts(s) /\ next > k /\ (\A d \in Cuts(s) : d > k => d >= next)
          /\ BytesAt(s, k + 1) \in 1..4 /\ Bytes(s, next) = Bytes(s, k) + BytesAt(s, k + 1)
      BY <3>1, NextCut
    <3> HIDE DEF next
    <3>3. next \in D /\ next <= c /\ next \in Nat
      BY <1>1, <2>1, <2>3, <3>2
    <3>4. rank[next] < rank[k]
      BY <1>1, <1>4, <2>1, <3>2, <3>3
    <3>5. Bytes(s, next) <= Bytes(s, c)
      BY <1>5, <3>2, <3>3, <3>4
    <3> QED
      BY <2>1, <3>2, <3>5
  <2> QED
    BY <2>1, <2>2, <2>3
<1>6. D \subseteq T
  <2>1. n \in Nat
    BY <1>1
  <2>2. rank \in [D -> 0..n]
    BY <1>4
  <2> HIDE DEF D, T
  <2>3. \A i \in D : (\A j \in D : rank[j] < rank[i] => j \in T) => i \in T
    BY <1>5
  <2> QED
    BY <2>1, <2>2, <2>3, RecursionReaches
<1>7. \A k, c \in Cuts(s) : k <= c => Bytes(s, k) <= Bytes(s, c)
  BY <1>1, <1>6
<1>8. \A k \in Cuts(s) : Bytes(s, k) \in Nat
  <2> SUFFICES ASSUME NEW k \in Cuts(s) PROVE Bytes(s, k) \in Nat
    OBVIOUS
  <2>1. k \in Nat /\ 0 <= k
    BY <1>1
  <2>2. Bytes(s, 0) <= Bytes(s, k)
    BY <1>1, <1>7, <2>1
  <2> QED
    BY <1>2, <1>3, <2>1, <2>2
<1> QED
  BY <1>1, <1>3, <1>7, <1>8 DEF n

LEMMA UnitSize ==
  ASSUME NEW x \in AllUnits
  PROVE  BytesOfUnit(x) \in 1..4
<1>1. BytesOfUnit(x) = 1 \/ BytesOfUnit(x) = 2 \/ BytesOfUnit(x) = 3
  BY DEF BytesOfUnit, AllUnits, Units
<1> QED
  BY <1>1

\* Every unit has bytes, also the half of a pair.
LEMMA UnitBytes ==
  ASSUME NEW s \in Seq(AllUnits), NEW i \in 1..Len(s)
  PROVE  /\ BytesAt(s, i) \in 1..4
         /\ i + UnitsAt(s, i) \in 1..(Len(s) + 1) /\ i + UnitsAt(s, i) > i
<1>1. Len(s) \in Nat /\ i \in Nat /\ s[i] \in AllUnits
  <2> HIDE DEF AllUnits
  <2> QED
    OBVIOUS
<1>2. CASE Pair(s, i)
  BY <1>1, <1>2 DEF BytesAt, UnitsAt, Pair
<1>3. CASE ~Pair(s, i)
  <2>1. BytesOfUnit(s[i]) \in 1..4
    BY <1>1, UnitSize
  <2> QED
    BY <1>1, <1>3, <2>1 DEF BytesAt, UnitsAt
<1> QED
  BY <1>2, <1>3

\* utf8ByteLength counts the bytes of the whole text.
LEMMA ByteLength ==
  ASSUME NEW s \in Seq(AllUnits)
  PROVE  Utf8ByteLength(s) = Bytes(s, Len(s))
<1> DEFINE n == Len(s)
           D == 1..(n + 1)
           At(f, i) == IF i > n THEN 0 ELSE BytesAt(s, i) + f[i + UnitsAt(s, i)]
           from == CHOOSE f : f = [i \in D |-> At(f, i)]
           rank == [i \in D |-> (n + 1) - i]
           Step == [g \in [D -> Nat] |-> [i \in D |-> At(g, i)]]
<1>1. n \in Nat /\ 1 \in D
  OBVIOUS
<1>2. Utf8ByteLength(s) = from[1]
  BY Zenon DEF Utf8ByteLength
<1>3. \A i \in 1..n : /\ BytesAt(s, i) \in 1..4 /\ i + UnitsAt(s, i) \in D
                      /\ i + UnitsAt(s, i) > i
  BY UnitBytes
<1> HIDE DEF n
<1>4. rank \in [D -> 0..n] /\ \A i \in D : rank[i] = (n + 1) - i
  BY <1>1
<1> HIDE DEF rank
<1>5. \A i \in D : i <= n => i \in 1..n
  BY <1>1
<1>6. \A i \in D : \A g \in [D -> Nat] : At(g, i) \in Nat
  <2> SUFFICES ASSUME NEW i \in D, NEW g \in [D -> Nat] PROVE At(g, i) \in Nat
    OBVIOUS
  <2>1. CASE i > n
    BY <2>1
  <2>2. CASE i <= n
    <3>1. BytesAt(s, i) \in 1..4 /\ i + UnitsAt(s, i) \in D
      BY <1>3, <1>5, <2>2
    <3> HIDE DEF D
    <3>2. g[i + UnitsAt(s, i)] \in Nat
      BY <3>1
    <3> QED
      BY <3>1, <3>2
  <2> QED
    BY <1>1, <2>1, <2>2
<1>7. Step \in [[D -> Nat] -> [D -> Nat]]
  <2> HIDE DEF At, D
  <2> QED
    BY <1>6
<1>8. ASSUME NEW g \in [D -> Nat], NEW h \in [D -> Nat], NEW i \in D,
             \A j \in D : rank[j] < rank[i] => g[j] = h[j]
      PROVE  Step[g][i] = Step[h][i]
  <2>1. At(g, i) = At(h, i)
    <3>1. CASE i > n
      BY <3>1
    <3>2. CASE i <= n
      <4> DEFINE next == i + UnitsAt(s, i)
      <4>1. next \in D /\ next > i
        BY <1>3, <1>5, <3>2
      <4> HIDE DEF next
      <4>2. g[next] = h[next]
        BY <1>1, <1>4, <1>8, <4>1
      <4> QED
        BY <4>2 DEF next
    <3> QED
      BY <1>1, <3>1, <3>2
  <2> HIDE DEF At, D
  <2> QED
    BY <2>1
<1>9. \E f : Solves(f, D, Nat, Step)
  <2>1. Nat # {}
    OBVIOUS
  <2>2. n \in Nat
    BY <1>1
  <2>3. rank \in [D -> 0..n]
    BY <1>4
  <2>4. \A g, h \in [D -> Nat] : \A i \in D :
          (\A j \in D : rank[j] < rank[i] => g[j] = h[j]) => Step[g][i] = Step[h][i]
    BY <1>8
  <2> HIDE DEF D, At, Step
  <2> QED
    BY <1>7, <2>1, <2>2, <2>3, <2>4, RecursionDefines
<1>10. \A i \in D : from[i] = At(from, i)
  <2> HIDE DEF At, D
  <2>1. PICK f \in [D -> Nat] : f = [i \in D |-> At(f, i)]
    BY <1>9 DEF Solves
  <2>2. from = [i \in D |-> At(from, i)]
    BY <2>1, Zenon
  <2> HIDE DEF from
  <2> QED
    BY <2>2
<1> HIDE DEF from
<1> DEFINE T == {i \in D : i - 1 \in Cuts(s) => from[i] = Bytes(s, n) - Bytes(s, i - 1)}
<1>11. ASSUME NEW i \in D, \A j \in D : rank[j] < rank[i] => j \in T PROVE i \in T
  <2> SUFFICES ASSUME i - 1 \in Cuts(s) PROVE from[i] = Bytes(s, n) - Bytes(s, i - 1)
    OBVIOUS
  <2>1. Bytes(s, n) \in Nat /\ Bytes(s, i - 1) \in Nat
    BY BytesGrow DEF n
  <2>2. CASE i > n
    <3>1. i - 1 = n /\ from[i] = 0
      BY <1>1, <1>10, <2>2
    <3> QED
      BY <2>1, <3>1
  <2>3. CASE i <= n
    <3> DEFINE k == i - 1
               next == i + UnitsAt(s, i)
    <3>1. k < Len(s) /\ k + 1 = i
      BY <1>1, <2>3 DEF n
    <3> HIDE DEF k
    <3>2. k + UnitsAt(s, k + 1) \in Cuts(s)
          /\ Bytes(s, k + UnitsAt(s, k + 1)) = Bytes(s, k) + BytesAt(s, k + 1)
      BY <3>1, NextCut DEF k
    <3>3. k + UnitsAt(s, k + 1) = next - 1
      <4>1. UnitsAt(s, i) \in Nat
        BY DEF UnitsAt
      <4> QED
        BY <1>1, <3>1, <4>1 DEF k
    <3>4. next - 1 \in Cuts(s) /\ Bytes(s, next - 1) = Bytes(s, k) + BytesAt(s, i)
      BY <3>1, <3>2, <3>3
    <3>5. BytesAt(s, i) \in 1..4 /\ next \in D /\ next > i
      BY <1>3, <1>5, <2>3
    <3>6. from[i] = BytesAt(s, i) + from[next]
      BY <1>1, <1>10, <2>3
    <3> HIDE DEF next
    <3>7. from[next] = Bytes(s, n) - Bytes(s, next - 1)
      BY <1>1, <1>4, <1>11, <3>4, <3>5
    <3> QED
      BY <2>1, <3>4, <3>5, <3>6, <3>7 DEF k
  <2> QED
    BY <1>1, <2>2, <2>3
<1>12. D \subseteq T
  <2>1. n \in Nat
    BY <1>1
  <2>2. rank \in [D -> 0..n]
    BY <1>4
  <2> HIDE DEF D, T, At
  <2>3. \A i \in D : (\A j \in D : rank[j] < rank[i] => j \in T) => i \in T
    BY <1>11
  <2> QED
    BY <2>1, <2>2, <2>3, RecursionReaches
<1>13. Bytes(s, n) \in Nat /\ Bytes(s, 0) = 0 /\ 0 \in Cuts(s)
  BY BytesGrow DEF n
<1>14. from[1] = Bytes(s, n)
  <2>1. from[1] = Bytes(s, n) - Bytes(s, 0)
    <3>1. 1 \in T /\ 1 - 1 = 0
      BY <1>1, <1>12
    <3> QED
      BY <1>13, <3>1
  <2> QED
    BY <1>13, <2>1
<1> QED
  BY <1>2, <1>14 DEF n

\* truncateUtf8 cuts at the last place up to which the bytes fit.
LEMMA TruncatesLast ==
  ASSUME NEW s \in Seq(AllUnits), NEW maxBytes \in Nat
  PROVE  \E e \in Cuts(s) :
           /\ TruncateUtf8(s, maxBytes) = SubSeq(s, 1, e)
           /\ Bytes(s, e) <= maxBytes
           /\ \A c \in Cuts(s) : c > e => Bytes(s, c) > maxBytes
<1> DEFINE n == Len(s)
           D == (1..(n + 1)) \X (0..maxBytes)
           At(f, at) == LET i == at[1]
                            length == at[2]
                        IN  IF i > n THEN n
                            ELSE IF length + BytesAt(s, i) > maxBytes THEN i - 1
                            ELSE f[<<i + UnitsAt(s, i), length + BytesAt(s, i)>>]
           end == CHOOSE f : f = [at \in D |-> At(f, at)]
           rank == [at \in D |-> (n + 1) - at[1]]
           Step == [g \in [D -> Int] |-> [at \in D |-> At(g, at)]]
<1>1. n \in Nat /\ <<1, 0>> \in D
  OBVIOUS
<1>2. TruncateUtf8(s, maxBytes) = SubSeq(s, 1, end[<<1, 0>>])
  BY Zenon DEF TruncateUtf8
<1>3. \A i \in 1..n : /\ BytesAt(s, i) \in 1..4 /\ i + UnitsAt(s, i) \in 1..(n + 1)
                      /\ i + UnitsAt(s, i) > i
  BY UnitBytes
<1>4. n \in Cuts(s) /\ 0 \in Cuts(s) /\ Bytes(s, 0) = 0 /\ \A c \in Cuts(s) : c \in 0..n
  BY BytesGrow DEF Cuts
<1>5. \A k \in Cuts(s) : Bytes(s, k) \in Nat
  BY BytesGrow
<1>6. \A k, c \in Cuts(s) : k <= c => Bytes(s, k) <= Bytes(s, c)
  BY BytesGrow
<1>7. \A k \in Cuts(s) : k < n =>
        /\ k + UnitsAt(s, k + 1) \in Cuts(s)
        /\ \A c \in Cuts(s) : c > k => c >= k + UnitsAt(s, k + 1)
        /\ Bytes(s, k + UnitsAt(s, k + 1)) = Bytes(s, k) + BytesAt(s, k + 1)
  BY NextCut
<1> HIDE DEF n
<1>8. \A at \in D : /\ at[1] \in 1..(n + 1) /\ at[2] \in 0..maxBytes
                    /\ at[1] \in Nat /\ at[2] \in Nat /\ (at[1] <= n => at[1] \in 1..n)
  BY <1>1
<1>9. \A i \in 1..(n + 1), length \in 0..maxBytes :
        <<i, length>> \in D /\ <<i, length>>[1] = i /\ <<i, length>>[2] = length
  OBVIOUS
<1>10. rank \in [D -> 0..n] /\ \A at \in D : rank[at] = (n + 1) - at[1]
  <2>1. \A at \in D : (n + 1) - at[1] \in 0..n
    BY <1>1, <1>8
  <2> HIDE DEF D
  <2> QED
    BY <2>1
<1> HIDE DEF rank, D
\* Where it goes on from a place.
<1> DEFINE Onto(at) == <<at[1] + UnitsAt(s, at[1]), at[2] + BytesAt(s, at[1])>>
<1>11. ASSUME NEW at \in D, at[1] <= n, ~(at[2] + BytesAt(s, at[1]) > maxBytes)
       PROVE  Onto(at) \in D /\ rank[Onto(at)] < rank[at]
              /\ Onto(at)[1] = at[1] + UnitsAt(s, at[1]) /\ Onto(at)[2] = at[2] + BytesAt(s, at[1])
  <2>1. at[1] \in 1..n /\ at[2] \in 0..maxBytes
    BY <1>8, <1>11
  <2>2. /\ BytesAt(s, at[1]) \in 1..4 /\ at[1] + UnitsAt(s, at[1]) \in 1..(n + 1)
        /\ at[1] + UnitsAt(s, at[1]) > at[1]
    BY <1>3, <2>1
  <2>3. at[2] + BytesAt(s, at[1]) \in 0..maxBytes
    BY <1>11, <2>1, <2>2
  <2>4. Onto(at) \in D /\ Onto(at)[1] = at[1] + UnitsAt(s, at[1]) /\ Onto(at)[2] = at[2] + BytesAt(s, at[1])
    BY <1>9, <2>2, <2>3
  <2> HIDE DEF Onto
  <2>5. rank[Onto(at)] = (n + 1) - Onto(at)[1] /\ rank[at] = (n + 1) - at[1]
    BY <1>10, <2>4
  <2> QED
    BY <1>1, <2>1, <2>2, <2>4, <2>5
<1>12. ASSUME NEW at \in D, NEW f
       PROVE  /\ at[1] > n => At(f, at) = n
              /\ at[1] <= n /\ at[2] + BytesAt(s, at[1]) > maxBytes => At(f, at) = at[1] - 1
              /\ at[1] <= n /\ ~(at[2] + BytesAt(s, at[1]) > maxBytes) => At(f, at) = f[Onto(at)]
  <2>1. ~(at[1] > n) <=> at[1] <= n
    BY <1>1, <1>8
  <2> QED
    BY <2>1
<1> HIDE DEF At
<1>13. Step \in [[D -> Int] -> [D -> Int]]
  <2>1. ASSUME NEW at \in D, NEW g \in [D -> Int] PROVE At(g, at) \in Int
    <3> HIDE DEF Onto
    <3> QED
      BY <1>1, <1>8, <1>11, <1>12
  <2> QED
    BY <2>1
<1>14. ASSUME NEW g \in [D -> Int], NEW h \in [D -> Int], NEW at \in D,
              \A j \in D : rank[j] < rank[at] => g[j] = h[j]
       PROVE  Step[g][at] = Step[h][at]
  <2>1. At(g, at) = At(h, at)
    <3> HIDE DEF Onto
    <3>1. CASE at[1] > n
      BY <1>12, <3>1
    <3>2. CASE at[1] <= n /\ at[2] + BytesAt(s, at[1]) > maxBytes
      BY <1>12, <3>2
    <3>3. CASE at[1] <= n /\ ~(at[2] + BytesAt(s, at[1]) > maxBytes)
      <4>1. g[Onto(at)] = h[Onto(at)]
        BY <1>11, <1>14, <3>3
      <4>2. At(g, at) = g[Onto(at)] /\ At(h, at) = h[Onto(at)]
        BY <1>12, <3>3
      <4> QED
        BY <4>1, <4>2
    <3> QED
      BY <1>1, <1>8, <3>1, <3>2, <3>3
  <2> QED
    BY <2>1
<1>15. \E f : Solves(f, D, Int, Step)
  <2>1. Int # {}
    OBVIOUS
  <2>2. n \in Nat
    BY <1>1
  <2>3. rank \in [D -> 0..n]
    BY <1>10
  <2>4. \A g, h \in [D -> Int] : \A i \in D :
          (\A j \in D : rank[j] < rank[i] => g[j] = h[j]) => Step[g][i] = Step[h][i]
    BY <1>14
  <2> HIDE DEF Step
  <2> QED
    BY <1>13, <2>1, <2>2, <2>3, <2>4, RecursionDefines
<1>16. \A at \in D : end[at] = At(end, at)
  <2>1. PICK f \in [D -> Int] : f = [at \in D |-> At(f, at)]
    BY <1>15 DEF Solves
  <2>2. end = [at \in D |-> At(end, at)]
    BY <2>1, Zenon
  <2> HIDE DEF end
  <2> QED
    BY <2>2
<1> HIDE DEF end
<1> DEFINE LastFit(e) == /\ e \in Cuts(s) /\ Bytes(s, e) <= maxBytes
                      /\ \A c \in Cuts(s) : c > e => Bytes(s, c) > maxBytes
           T == {at \in D : at[1] - 1 \in Cuts(s) /\ at[2] = Bytes(s, at[1] - 1) => LastFit(end[at])}
<1>17. ASSUME NEW at \in D, \A j \in D : rank[j] < rank[at] => j \in T PROVE at \in T
  <2> SUFFICES ASSUME at[1] - 1 \in Cuts(s), at[2] = Bytes(s, at[1] - 1) PROVE LastFit(end[at])
    OBVIOUS
  <2> DEFINE k == at[1] - 1
             next == k + UnitsAt(s, k + 1)
  <2>1. /\ at[1] \in Nat /\ at[2] \in 0..maxBytes /\ k \in Cuts(s) /\ Bytes(s, k) = at[2]
        /\ k + 1 = at[1] /\ k \in Nat
    BY <1>8, <1>4
  <2>2. CASE at[1] > n
    <3>1. end[at] = n /\ k = n
      <4>1. end[at] = n
        BY <1>12, <1>16, <2>2
      <4>2. at[1] <= n + 1
        BY <1>1, <1>8
      <4> QED
        BY <1>1, <2>1, <2>2, <4>1, <4>2
    <3>2. \A c \in Cuts(s) : ~(c > n)
      BY <1>1, <1>4
    <3> HIDE DEF k
    <3> QED
      BY <2>1, <3>1, <3>2
  <2>3. CASE at[1] <= n /\ at[2] + BytesAt(s, at[1]) > maxBytes
    <3>1. end[at] = k
      BY <1>12, <1>16, <2>3
    <3>2. k < n
      BY <1>1, <2>1, <2>3
    <3> HIDE DEF k
    <3>3. /\ next \in Cuts(s) /\ (\A c \in Cuts(s) : c > k => c >= next)
          /\ Bytes(s, next) = Bytes(s, k) + BytesAt(s, k + 1)
      BY <1>7, <2>1, <3>2
    <3>4. Bytes(s, next) > maxBytes
      BY <2>1, <2>3, <3>3
    <3> HIDE DEF next
    <3>5. ASSUME NEW c \in Cuts(s), c > k PROVE Bytes(s, c) > maxBytes
      <4>1. next <= c /\ Bytes(s, c) \in Nat /\ Bytes(s, next) \in Nat
        BY <1>4, <1>5, <3>3, <3>5
      <4>2. Bytes(s, next) <= Bytes(s, c)
        BY <1>6, <3>3, <4>1
      <4> QED
        BY <3>4, <4>1, <4>2
    <3> QED
      BY <2>1, <3>1, <3>5
  <2>4. CASE at[1] <= n /\ ~(at[2] + BytesAt(s, at[1]) > maxBytes)
    <3>1. end[at] = end[Onto(at)]
      BY <1>12, <1>16, <2>4
    <3>2. /\ Onto(at) \in D /\ rank[Onto(at)] < rank[at]
          /\ Onto(at)[1] = at[1] + UnitsAt(s, at[1]) /\ Onto(at)[2] = at[2] + BytesAt(s, at[1])
      BY <1>11, <2>4
    <3>3. k < n
      BY <1>1, <2>1, <2>4
    <3> HIDE DEF Onto
    <3>4. Onto(at)[1] - 1 = next
      <4>1. UnitsAt(s, k + 1) \in Nat
        BY DEF UnitsAt
      <4> HIDE DEF k
      <4> QED
        BY <2>1, <3>2, <4>1
    <3> HIDE DEF k
    <3>5. next \in Cuts(s) /\ Bytes(s, next) = Bytes(s, k) + BytesAt(s, k + 1)
      BY <1>7, <2>1, <3>3
    <3> HIDE DEF next
    <3>6. Onto(at) \in T
      BY <1>17, <3>2
    <3>7. LastFit(end[Onto(at)])
      BY <2>1, <3>2, <3>4, <3>5, <3>6
    <3> HIDE DEF LastFit
    <3> QED
      BY <3>1, <3>7
  <2> QED
    BY <1>1, <2>1, <2>2, <2>3, <2>4
<1>18. D \subseteq T
  <2>1. n \in Nat
    BY <1>1
  <2>2. rank \in [D -> 0..n]
    BY <1>10
  <2> HIDE DEF T
  <2>3. \A i \in D : (\A j \in D : rank[j] < rank[i] => j \in T) => i \in T
    BY <1>17
  <2> QED
    BY <2>1, <2>2, <2>3, RecursionReaches
<1>19. LastFit(end[<<1, 0>>])
  <2>1. <<1, 0>>[1] - 1 = 0 /\ <<1, 0>>[2] = 0
    OBVIOUS
  <2>2. <<1, 0>> \in T
    BY <1>1, <1>18
  <2> HIDE DEF LastFit
  <2> QED
    BY <1>4, <2>1, <2>2
<1> QED
  BY <1>2, <1>19

\* truncateUtf8FromEnd cuts a text that is too long at the first place after which
\* the bytes fit, with room for the dots.
LEMMA TruncatesFirst ==
  ASSUME NEW s \in Seq(AllUnits), NEW maxBytes \in Nat,
         Utf8ByteLength(s) > maxBytes, maxBytes > Utf8ByteLength(<<".", ".", ".">>),
         Utf8ByteLength(<<".", ".", ".">>) = 3
  PROVE  \E e \in Cuts(s) :
           /\ TruncateUtf8FromEnd(s, maxBytes) = <<".", ".", ".">> \o SubSeq(s, e + 1, Len(s))
           /\ Bytes(s, Len(s)) - Bytes(s, e) <= maxBytes - 3
           /\ \A c \in Cuts(s) : c < e => Bytes(s, Len(s)) - Bytes(s, c) > maxBytes - 3
<1> DEFINE n == Len(s)
           target == maxBytes - Utf8ByteLength(<<".", ".", ".">>)
           D == (0..n) \X (0..target)
           At(f, at) == LET i == at[1]
                            length == at[2] + BytesAt(s, Before(s, i) + 1)
                        IN  IF i = 0 THEN 1
                            ELSE IF length > target THEN i + 1
                            ELSE f[<<Before(s, i), length>>]
           start == CHOOSE f : f = [at \in D |-> At(f, at)]
           rank == [at \in D |-> at[1]]
           Step == [g \in [D -> Int] |-> [at \in D |-> At(g, at)]]
<1>1. n \in Nat /\ target \in Nat /\ target = maxBytes - 3 /\ <<n, 0>> \in D
  OBVIOUS
<1>2. TruncateUtf8FromEnd(s, maxBytes) = <<".", ".", ".">> \o SubSeq(s, start[<<n, 0>>], n)
  <2>1. TruncateUtf8FromEnd(s, maxBytes) =
          IF Utf8ByteLength(s) <= maxBytes THEN s
          ELSE IF maxBytes <= Utf8ByteLength(<<".", ".", ".">>) THEN TruncateUtf8(s, maxBytes)
          ELSE <<".", ".", ".">> \o SubSeq(s, start[<<n, 0>>], n)
    BY Zenon DEF TruncateUtf8FromEnd
  <2>2. Utf8ByteLength(s) \in Nat
    BY ByteLength, BytesGrow
  <2>3. ~(Utf8ByteLength(s) <= maxBytes) /\ ~(maxBytes <= Utf8ByteLength(<<".", ".", ".">>))
    BY <2>2
  <2> QED
    BY <2>1, <2>3, Zenon
<1>3. \A i \in 1..n : /\ BytesAt(s, Before(s, i) + 1) \in 1..4 /\ Before(s, i) \in 0..n
                      /\ Before(s, i) < i
  <2> SUFFICES ASSUME NEW i \in 1..n
               PROVE  BytesAt(s, Before(s, i) + 1) \in 1..4 /\ Before(s, i) \in 0..n /\ Before(s, i) < i
    OBVIOUS
  <2>1. Before(s, i) \in 0..n /\ Before(s, i) < i
    BY <1>1 DEF Before
  <2>2. Before(s, i) + 1 \in 1..Len(s)
    BY <1>1, <2>1
  <2> HIDE DEF n
  <2> QED
    BY <2>1, <2>2, UnitBytes
<1>4. n \in Cuts(s) /\ \A c \in Cuts(s) : c \in 0..n
  BY BytesGrow DEF Cuts
<1>5. \A k \in Cuts(s) : Bytes(s, k) \in Nat
  BY BytesGrow
<1>6. \A k, c \in Cuts(s) : k <= c => Bytes(s, k) <= Bytes(s, c)
  BY BytesGrow
<1>7. \A k \in Cuts(s) : k > 0 =>
        /\ Before(s, k) \in Cuts(s)
        /\ \A c \in Cuts(s) : c < k => c <= Before(s, k)
        /\ Bytes(s, k) = Bytes(s, Before(s, k)) + BytesAt(s, Before(s, k) + 1)
  BY PreviousCut
<1> HIDE DEF n, target
<1>8. \A at \in D : /\ at[1] \in 0..n /\ at[2] \in 0..target
                    /\ at[1] \in Nat /\ at[2] \in Nat /\ (at[1] # 0 => at[1] \in 1..n)
  BY <1>1
<1>9. \A i \in 0..n, length \in 0..target :
        <<i, length>> \in D /\ <<i, length>>[1] = i /\ <<i, length>>[2] = length
  OBVIOUS
<1>10. rank \in [D -> 0..n] /\ \A at \in D : rank[at] = at[1]
  <2>1. \A at \in D : at[1] \in 0..n
    BY <1>8
  <2> HIDE DEF D
  <2> QED
    BY <2>1
<1> HIDE DEF rank, D
\* Where it goes on from a place, and what it has then.
<1> DEFINE With(at) == at[2] + BytesAt(s, Before(s, at[1]) + 1)
           Onto(at) == <<Before(s, at[1]), With(at)>>
<1>11. ASSUME NEW at \in D, at[1] # 0, ~(With(at) > target)
       PROVE  Onto(at) \in D /\ rank[Onto(at)] < rank[at]
              /\ Onto(at)[1] = Before(s, at[1]) /\ Onto(at)[2] = With(at)
  <2>1. at[1] \in 1..n /\ at[2] \in 0..target
    BY <1>8, <1>11
  <2>2. /\ BytesAt(s, Before(s, at[1]) + 1) \in 1..4 /\ Before(s, at[1]) \in 0..n
        /\ Before(s, at[1]) < at[1]
    BY <1>3, <2>1
  <2>3. With(at) \in 0..target
    BY <1>1, <1>11, <2>1, <2>2
  <2> HIDE DEF With
  <2>4. Onto(at) \in D /\ Onto(at)[1] = Before(s, at[1]) /\ Onto(at)[2] = With(at)
    BY <1>9, <2>2, <2>3
  <2> HIDE DEF Onto
  <2>5. rank[Onto(at)] = Onto(at)[1] /\ rank[at] = at[1]
    BY <1>10, <2>4
  <2> QED
    BY <1>1, <2>1, <2>2, <2>4, <2>5
<1>12. ASSUME NEW at \in D, NEW f
       PROVE  /\ at[1] = 0 => At(f, at) = 1
              /\ at[1] # 0 /\ With(at) > target => At(f, at) = at[1] + 1
              /\ at[1] # 0 /\ ~(With(at) > target) => At(f, at) = f[Onto(at)]
  OBVIOUS
<1> HIDE DEF At, With
<1>13. Step \in [[D -> Int] -> [D -> Int]]
  <2>1. ASSUME NEW at \in D, NEW g \in [D -> Int] PROVE At(g, at) \in Int
    <3> HIDE DEF Onto
    <3> QED
      BY <1>1, <1>8, <1>11, <1>12
  <2> QED
    BY <2>1
<1>14. ASSUME NEW g \in [D -> Int], NEW h \in [D -> Int], NEW at \in D,
              \A j \in D : rank[j] < rank[at] => g[j] = h[j]
       PROVE  Step[g][at] = Step[h][at]
  <2>1. At(g, at) = At(h, at)
    <3> HIDE DEF Onto
    <3>1. CASE at[1] = 0
      BY <1>12, <3>1
    <3>2. CASE at[1] # 0 /\ With(at) > target
      BY <1>12, <3>2
    <3>3. CASE at[1] # 0 /\ ~(With(at) > target)
      <4>1. g[Onto(at)] = h[Onto(at)]
        BY <1>11, <1>14, <3>3
      <4>2. At(g, at) = g[Onto(at)] /\ At(h, at) = h[Onto(at)]
        BY <1>12, <3>3
      <4> QED
        BY <4>1, <4>2
    <3> QED
      BY <3>1, <3>2, <3>3
  <2> QED
    BY <2>1
<1>15. \E f : Solves(f, D, Int, Step)
  <2>1. Int # {}
    <3>1. 0 \in Int
      OBVIOUS
    <3> QED
      BY <3>1, Zenon
  <2>2. n \in Nat
    BY <1>1
  <2>3. rank \in [D -> 0..n]
    BY <1>10
  <2>4. \A g, h \in [D -> Int] : \A i \in D :
          (\A j \in D : rank[j] < rank[i] => g[j] = h[j]) => Step[g][i] = Step[h][i]
    BY <1>14
  <2> HIDE DEF Step
  <2> QED
    BY <1>13, <2>1, <2>2, <2>3, <2>4, RecursionDefines, ZenonT(60)
<1>16. \A at \in D : start[at] = At(start, at)
  <2>1. PICK f \in [D -> Int] : f = [at \in D |-> At(f, at)]
    BY <1>15 DEF Solves
  <2>2. start = [at \in D |-> At(start, at)]
    BY <2>1, Zenon
  <2> HIDE DEF start
  <2> QED
    BY <2>2
<1> HIDE DEF start
<1> DEFINE FirstFit(x) == \E e \in Cuts(s) :
                         /\ x = e + 1 /\ Bytes(s, n) - Bytes(s, e) <= target
                         /\ \A c \in Cuts(s) : c < e => Bytes(s, n) - Bytes(s, c) > target
           T == {at \in D : at[1] \in Cuts(s) /\ at[2] = Bytes(s, n) - Bytes(s, at[1]) => FirstFit(start[at])}
<1>17. ASSUME NEW at \in D, \A j \in D : rank[j] < rank[at] => j \in T PROVE at \in T
  <2> SUFFICES ASSUME at[1] \in Cuts(s), at[2] = Bytes(s, n) - Bytes(s, at[1]) PROVE FirstFit(start[at])
    OBVIOUS
  <2> DEFINE k == at[1]
             before == Before(s, k)
  <2>1. /\ k \in Nat /\ at[2] \in Nat /\ at[2] <= target /\ k \in Cuts(s)
        /\ at[2] = Bytes(s, n) - Bytes(s, k)
        /\ Bytes(s, n) \in Nat /\ Bytes(s, k) \in Nat
    BY <1>1, <1>4, <1>5, <1>8
  <2>2. CASE k = 0
    <3>1. start[at] = k + 1
      <4>1. start[at] = 1
        BY <1>12, <1>16, <2>2
      <4> HIDE DEF k
      <4> QED
        BY <2>2, <4>1
    <3>2. \A c \in Cuts(s) : ~(c < k)
      BY <1>1, <1>4, <2>2
    <3> HIDE DEF k
    <3> QED
      BY <2>1, <3>1, <3>2
  <2>3. CASE k # 0 /\ With(at) > target
    <3>1. start[at] = k + 1 /\ With(at) = at[2] + BytesAt(s, before + 1)
      BY <1>12, <1>16, <2>3 DEF With
    <3> HIDE DEF k
    <3>2. /\ before \in Cuts(s) /\ (\A c \in Cuts(s) : c < k => c <= before)
          /\ Bytes(s, k) = Bytes(s, before) + BytesAt(s, before + 1)
      BY <1>7, <2>1, <2>3
    <3> HIDE DEF before
    <3>3. BytesAt(s, before + 1) = Bytes(s, k) - Bytes(s, before)
      <4>1. Bytes(s, before) \in Nat /\ BytesAt(s, before + 1) \in Nat
        <5>1. k \in 1..n
          BY <1>4, <2>1, <2>3
        <5> QED
          BY <1>3, <1>5, <3>2, <5>1 DEF before
      <4> QED
        BY <2>1, <3>2, <4>1
    <3>4. Bytes(s, n) - Bytes(s, before) > target
      <4>1. Bytes(s, before) \in Nat
        BY <1>5, <3>2
      <4>2. at[2] + (Bytes(s, k) - Bytes(s, before)) > target
        BY <2>3, <3>1, <3>3
      <4> QED
        BY <1>1, <2>1, <4>1, <4>2
    <3>5. ASSUME NEW c \in Cuts(s), c < k PROVE Bytes(s, n) - Bytes(s, c) > target
      <4>1. c <= before /\ Bytes(s, c) \in Nat /\ Bytes(s, before) \in Nat
        BY <1>5, <3>2, <3>5
      <4>2. Bytes(s, c) <= Bytes(s, before)
        BY <1>6, <3>2, <4>1
      <4> QED
        BY <1>1, <2>1, <3>4, <4>1, <4>2
    <3> QED
      BY <2>1, <3>1, <3>5
  <2>4. CASE k # 0 /\ ~(With(at) > target)
    <3>1. start[at] = start[Onto(at)] /\ With(at) = at[2] + BytesAt(s, before + 1)
      BY <1>12, <1>16, <2>4 DEF With
    <3>2. /\ Onto(at) \in D /\ rank[Onto(at)] < rank[at]
          /\ Onto(at)[1] = before /\ Onto(at)[2] = With(at)
      BY <1>11, <2>4
    <3> HIDE DEF Onto, k
    <3>3. before \in Cuts(s) /\ Bytes(s, k) = Bytes(s, before) + BytesAt(s, before + 1)
      BY <1>7, <2>1, <2>4
    <3>4. BytesAt(s, before + 1) \in Nat /\ Bytes(s, before) \in Nat
      <4>1. k \in 1..n
        BY <1>4, <2>1, <2>4
      <4> QED
        BY <1>3, <1>5, <3>3, <4>1
    <3> HIDE DEF before
    <3>5. Onto(at)[2] = Bytes(s, n) - Bytes(s, before)
      BY <2>1, <3>1, <3>2, <3>3, <3>4
    <3>6. Onto(at) \in T
      BY <1>17, <3>2
    <3>7. FirstFit(start[Onto(at)])
      BY <3>2, <3>3, <3>5, <3>6
    <3> HIDE DEF FirstFit
    <3> QED
      BY <3>1, <3>7
  <2> QED
    BY <2>2, <2>3, <2>4
<1>18. D \subseteq T
  <2>1. n \in Nat
    BY <1>1
  <2>2. rank \in [D -> 0..n]
    BY <1>10
  <2> HIDE DEF T
  <2>3. \A i \in D : (\A j \in D : rank[j] < rank[i] => j \in T) => i \in T
    BY <1>17
  <2> QED
    BY <2>1, <2>2, <2>3, RecursionReaches
<1>19. FirstFit(start[<<n, 0>>])
  <2>1. <<n, 0>>[1] = n /\ <<n, 0>>[2] = 0 /\ Bytes(s, n) - Bytes(s, n) = 0
    BY <1>4, <1>5
  <2>2. <<n, 0>> \in T
    BY <1>1, <1>18
  <2> HIDE DEF FirstFit
  <2> QED
    BY <1>4, <2>1, <2>2
<1>20. PICK e \in Cuts(s) : /\ start[<<n, 0>>] = e + 1 /\ Bytes(s, n) - Bytes(s, e) <= target
                           /\ \A c \in Cuts(s) : c < e => Bytes(s, n) - Bytes(s, c) > target
  BY <1>19
<1>21. TruncateUtf8FromEnd(s, maxBytes) = <<".", ".", ".">> \o SubSeq(s, e + 1, n)
  BY <1>2, <1>20, Zenon
<1> QED
  BY <1>1, <1>20, <1>21 DEF n

LEMMA DotsLength ==
  LET prefix == <<".", ".", ".">>
  IN  prefix \in Seq(AllUnits) /\ Utf8ByteLength(prefix) = 3
<1> DEFINE s == <<".", ".", ".">>
<1>1. s \in Seq(AllUnits) /\ Len(s) = 3
  BY DEF AllUnits
<1>2. \A i \in 1..3 : s[i] = "."
  OBVIOUS
<1> HIDE DEF s
<1>3. \A i \in 1..3 : ~Pair(s, i)
  BY <1>2 DEF Pair
<1>4. \A i \in 1..3 : UnitsAt(s, i) = 1 /\ BytesAt(s, i) = 1
  <2>1. BytesOfUnit(".") = 1
    BY DEF BytesOfUnit
  <2> QED
    BY <1>2, <1>3, <2>1 DEF UnitsAt, BytesAt
<1>5. ASSUME NEW k \in 0..2 PROVE k \in Cuts(s) /\ Bytes(s, k + 1) = Bytes(s, k) + 1
  <2>1. k \in Cuts(s) /\ k < Len(s) /\ k + 1 \in 1..3
    BY <1>1, <1>3 DEF Cuts
  <2>2. Bytes(s, k + UnitsAt(s, k + 1)) = Bytes(s, k) + BytesAt(s, k + 1)
    BY <1>1, <2>1, NextCut
  <2> QED
    BY <1>4, <2>1, <2>2
<1>6. Bytes(s, 0) = 0
  BY <1>1, BytesGrow
<1>7. Bytes(s, 0 + 1) = Bytes(s, 0) + 1 /\ Bytes(s, 1 + 1) = Bytes(s, 1) + 1 /\ Bytes(s, 2 + 1) = Bytes(s, 2) + 1
  BY <1>5
<1>8. Bytes(s, 3) = 3
  BY <1>6, <1>7
<1>9. Utf8ByteLength(s) = 3
  BY <1>1, <1>8, ByteLength
<1> QED
  BY <1>1, <1>9 DEF s

\* The place a reference names is the one that is found.
LEMMA HeadIsGreatest ==
  ASSUME NEW s \in Seq(AllUnits), NEW limit \in Nat
  PROVE  TruncateUtf8(s, limit) =
           SubSeq(s, 1, Max({k \in Cuts(s) : ByteCount(SubSeq(s, 1, k)) <= limit}))
<1> DEFINE S == {k \in Cuts(s) : ByteCount(SubSeq(s, 1, k)) <= limit}
<1>1. PICK e \in Cuts(s) :
        /\ TruncateUtf8(s, limit) = SubSeq(s, 1, e)
        /\ Bytes(s, e) <= limit
        /\ \A c \in Cuts(s) : c > e => Bytes(s, c) > limit
  BY TruncatesLast
<1>2. \A k \in Cuts(s) : ByteCount(SubSeq(s, 1, k)) = Bytes(s, k) /\ Bytes(s, k) \in Nat /\ k \in 0..Len(s)
  BY BytesOfBeginning, BytesGrow DEF Cuts
<1>3. e \in S /\ S \in SUBSET (0..Len(s)) /\ Len(s) \in Nat
  BY <1>1, <1>2
<1>4. \A k \in S : k <= e
  <2> SUFFICES ASSUME NEW k \in S, k > e PROVE FALSE
    BY <1>3
  <2>1. Bytes(s, k) > limit /\ Bytes(s, k) <= limit /\ Bytes(s, k) \in Nat
    BY <1>1, <1>2
  <2> QED
    BY <2>1
<1> HIDE DEF S
<1>5. Max(S) \in S /\ \A i \in S : i <= Max(S)
  BY <1>3, MaxIsGreatest
<1>6. Max(S) = e
  <2>1. Max(S) <= e /\ e <= Max(S)
    BY <1>3, <1>4, <1>5
  <2>2. Max(S) \in 0..Len(s) /\ e \in 0..Len(s)
    BY <1>3, <1>5
  <2> QED
    BY <2>1, <2>2
<1> QED
  BY <1>1, <1>6, Zenon DEF S

LEMMA EndIsGreatest ==
  ASSUME NEW s \in Seq(AllUnits), NEW limit \in Nat,
         Utf8ByteLength(s) > limit, limit > 3
  PROVE  TruncateUtf8FromEnd(s, limit) =
           <<".", ".", ".">>
             \o SubSeq(s, Len(s) + 1 - Max({Len(s) - k : k \in
                  {k \in Cuts(s) : ByteCount(SubSeq(s, k + 1, Len(s))) <= limit - 3}}), Len(s))
<1> DEFINE n == Len(s)
           R == {k \in Cuts(s) : ByteCount(SubSeq(s, k + 1, n)) <= limit - 3}
           S == {n - k : k \in R}
<1>1. PICK e \in Cuts(s) :
        /\ TruncateUtf8FromEnd(s, limit) = <<".", ".", ".">> \o SubSeq(s, e + 1, n)
        /\ Bytes(s, n) - Bytes(s, e) <= limit - 3
        /\ \A c \in Cuts(s) : c < e => Bytes(s, n) - Bytes(s, c) > limit - 3
  <2>1. Utf8ByteLength(<<".", ".", ".">>) = 3
    BY DotsLength
  <2>2. limit > Utf8ByteLength(<<".", ".", ".">>)
    BY <2>1
  <2> QED
    BY <2>1, <2>2, TruncatesFirst
<1>2. \A k \in Cuts(s) : ByteCount(SubSeq(s, k + 1, n)) = Bytes(s, n) - Bytes(s, k) /\ k \in 0..n
  BY BytesOfEnd DEF Cuts
<1>3. n \in Nat /\ Bytes(s, n) \in Nat /\ \A k \in Cuts(s) : Bytes(s, k) \in Nat
  BY BytesGrow
<1> HIDE DEF n
<1>4. e \in R /\ R \subseteq 0..n
  BY <1>1, <1>2
<1>5. \A k \in R : e <= k
  <2> SUFFICES ASSUME NEW k \in R, k < e PROVE FALSE
    BY <1>3, <1>4
  <2>1. /\ Bytes(s, n) - Bytes(s, k) > limit - 3 /\ Bytes(s, n) - Bytes(s, k) <= limit - 3
        /\ Bytes(s, k) \in Nat
    BY <1>1, <1>2, <1>3
  <2> QED
    BY <1>3, <2>1
<1> HIDE DEF R
<1>6. S \in SUBSET (0..n) /\ n - e \in S
  BY <1>3, <1>4
<1>7. \A i \in S : i <= n - e
  BY <1>3, <1>4, <1>5
<1> HIDE DEF S
<1>8. Max(S) \in S /\ \A i \in S : i <= Max(S)
  BY <1>3, <1>6, MaxIsGreatest
<1>9. n + 1 - Max(S) = e + 1
  <2>1. Max(S) <= n - e /\ n - e <= Max(S)
    BY <1>6, <1>7, <1>8
  <2>2. Max(S) \in 0..n /\ e \in 0..n
    BY <1>4, <1>6, <1>8
  <2> QED
    BY <1>3, <2>1, <2>2
<1>10. TruncateUtf8FromEnd(s, limit) = <<".", ".", ".">> \o SubSeq(s, n + 1 - Max(S), n)
  BY <1>1, <1>9, Zenon
<1> QED
  BY <1>10, Zenon DEF S, R, n

\* What truncateUtf8 keeps is the longest beginning, and what truncateUtf8FromEnd
\* keeps after its dots the longest end, that fits the bytes and splits no
\* character, for texts and limits of any length, also when halves of pairs stand
\* alone.
THEOREM TruncationLongest == TextInit /\ [][TextNext]_textVars => []TruncationIsLongest
<1>1. TextInv => TruncationIsLongest
  <2> SUFFICES ASSUME TextInv, NEW limit \in 0..MaxBytes
      PROVE
        LET head(n) == SubSeq(text, 1, Max({k \in Cuts(text) : ByteCount(SubSeq(text, 1, k)) <= n}))
            end(n) == SubSeq(text, Len(text) + 1 - Max({Len(text) - k : k \in
                        {k \in Cuts(text) : ByteCount(SubSeq(text, k + 1, Len(text))) <= n}}), Len(text))
        IN  /\ TruncateUtf8(text, limit) = head(limit)
            /\ TruncateUtf8FromEnd(text, limit) =
                 IF ByteCount(text) <= limit THEN text
                 ELSE IF limit <= 3 THEN head(limit)
                 ELSE <<".", ".", ".">> \o end(limit - 3)
    BY Zenon DEF TruncationIsLongest
  <2> DEFINE head(n) == SubSeq(text, 1, Max({k \in Cuts(text) : ByteCount(SubSeq(text, 1, k)) <= n}))
             end(n) == SubSeq(text, Len(text) + 1 - Max({Len(text) - k : k \in
                         {k \in Cuts(text) : ByteCount(SubSeq(text, k + 1, Len(text))) <= n}}), Len(text))
  <2>1. text \in Seq(AllUnits)
    <3>1. Units \subseteq AllUnits
      BY DEF AllUnits
    <3> QED
      BY <3>1, SeqMonotonic DEF TextInv
  <2>2. limit \in Nat
    BY LimitAssumption
  <2>3. Utf8ByteLength(text) = ByteCount(text) /\ Utf8ByteLength(text) \in Nat
    <3>1. Len(text) \in Cuts(text) /\ Bytes(text, Len(text)) \in Nat
      BY <2>1, BytesGrow
    <3>2. Utf8ByteLength(text) = Bytes(text, Len(text))
      BY <2>1, ByteLength
    <3>3. SubSeq(text, 1, Len(text)) = text
      BY <2>1, SubSeqFull
    <3>4. ByteCount(SubSeq(text, 1, Len(text))) = Bytes(text, Len(text))
      BY <2>1, <3>1, BytesOfBeginning
    <3> QED
      BY <3>1, <3>2, <3>3, <3>4
  <2>4. TruncateUtf8(text, limit) = head(limit)
    BY <2>1, <2>2, HeadIsGreatest
  <2>5. Utf8ByteLength(<<".", ".", ".">>) = 3
    BY DotsLength
  <2>6. ByteCount(text) <= limit => TruncateUtf8FromEnd(text, limit) = text
    BY <2>3, Zenon DEF TruncateUtf8FromEnd
  <2>7. ~(ByteCount(text) <= limit) /\ limit <= 3 => TruncateUtf8FromEnd(text, limit) = head(limit)
    <3>1. ~(ByteCount(text) <= limit) /\ limit <= 3 => TruncateUtf8FromEnd(text, limit) = TruncateUtf8(text, limit)
      BY <2>3, <2>5, Zenon DEF TruncateUtf8FromEnd
    <3> QED
      BY <2>4, <3>1, Zenon
  <2>8. ~(ByteCount(text) <= limit) /\ ~(limit <= 3) =>
          TruncateUtf8FromEnd(text, limit) = <<".", ".", ".">> \o end(limit - 3)
    <3> SUFFICES ASSUME ~(ByteCount(text) <= limit), ~(limit <= 3)
                 PROVE  TruncateUtf8FromEnd(text, limit) = <<".", ".", ".">> \o end(limit - 3)
      OBVIOUS
    <3> HIDE DEF head, end
    <3>1. Utf8ByteLength(text) > limit /\ limit > 3
      BY <2>2, <2>3
    <3> USE DEF end
    <3> QED
      BY <2>1, <2>2, <3>1, EndIsGreatest
  <2> HIDE DEF head, end
  <2>9. /\ TruncateUtf8(text, limit) = head(limit)
        /\ TruncateUtf8FromEnd(text, limit) =
             IF ByteCount(text) <= limit THEN text
             ELSE IF limit <= 3 THEN head(limit)
             ELSE <<".", ".", ".">> \o end(limit - 3)
    BY <2>4, <2>6, <2>7, <2>8, Zenon
  <2> QED
    BY <2>9, Zenon DEF head, end
<1> QED
  BY <1>1, TextInvariant, PTL

-----------------------------------------------------------------------------
(***************************************************************************)
(* Fields.                                                                 *)
(***************************************************************************)
\* The bytes of one character.
Character(s, i) == [b \in 1..BytesAt(s, i) |-> <<i, s[i]>>]

LEMMA CharacterBytes ==
  ASSUME NEW U \in SUBSET AllUnits, NEW s \in Seq(U), NEW i \in 1..Len(s)
  PROVE  /\ s \in Seq(AllUnits) /\ BytesAt(s, i) \in 1..4
         /\ Character(s, i) \in Seq(Nat \X U) /\ Len(Character(s, i)) = BytesAt(s, i)
<1>1. s \in Seq(AllUnits)
  BY SeqMonotonic
<1>2. BytesAt(s, i) \in 1..4
  BY <1>1, UnitBytes
<1>3. s[i] \in U /\ i \in Nat
  OBVIOUS
<1>4. Character(s, i) \in [1..BytesAt(s, i) -> Nat \X U]
  BY <1>3 DEF Character
<1>5. BytesAt(s, i) \in Nat
  BY <1>2
<1>6. Character(s, i) \in Seq(Nat \X U)
  BY <1>4, <1>5, SeqDef
<1>7. Len(Character(s, i)) = BytesAt(s, i)
  <2>1. DOMAIN Character(s, i) = 1..BytesAt(s, i)
    BY Zenon DEF Character
  <2> QED
    BY <1>5, <1>6, <2>1
<1> QED
  BY <1>1, <1>2, <1>6, <1>7

\* The bytes from each unit on.
EncodesFrom(s, V, from) ==
  /\ from \in [1..(Len(s) + 1) -> V]
  /\ from[Len(s) + 1] = <<>>
  /\ \A i \in 1..Len(s) : from[i] = Character(s, i) \o from[i + UnitsAt(s, i)]

LEMMA EncodedFrom ==
  ASSUME NEW U \in SUBSET AllUnits, NEW s \in Seq(U)
  PROVE  \E f : EncodesFrom(s, Seq(Nat \X U), f) /\ Encoded(s) = f[1]
<1> DEFINE n == Len(s)
           D == 1..(n + 1)
           V == Seq(Nat \X U)
           At(f, i) == IF i > n THEN <<>> ELSE Character(s, i) \o f[i + UnitsAt(s, i)]
           from == CHOOSE f : f = [i \in D |-> At(f, i)]
           rank == [i \in D |-> (n + 1) - i]
           Step == [g \in [D -> V] |-> [i \in D |-> At(g, i)]]
<1>1. n \in Nat /\ 1 \in D /\ n + 1 \in D
  OBVIOUS
<1>2. Encoded(s) = from[1]
  BY Zenon DEF Encoded, Character
<1>3. \A i \in 1..n : Character(s, i) \in V /\ i + UnitsAt(s, i) \in D /\ i + UnitsAt(s, i) > i
  <2>1. s \in Seq(AllUnits)
    BY SeqMonotonic
  <2> QED
    BY <2>1, UnitBytes, CharacterBytes
<1> HIDE DEF n
<1>4. rank \in [D -> 0..n] /\ \A i \in D : rank[i] = (n + 1) - i
  BY <1>1
<1> HIDE DEF rank
<1>5. \A i \in D : i <= n => i \in 1..n
  BY <1>1
<1>6. ASSUME NEW i \in D, i <= n
      PROVE  /\ Character(s, i) \in V /\ i + UnitsAt(s, i) \in D
             /\ rank[i + UnitsAt(s, i)] < rank[i]
  <2>1. Character(s, i) \in V /\ i + UnitsAt(s, i) \in D /\ i + UnitsAt(s, i) > i
    BY <1>3, <1>5, <1>6
  <2>2. rank[i + UnitsAt(s, i)] = (n + 1) - (i + UnitsAt(s, i)) /\ rank[i] = (n + 1) - i
    BY <1>4, <2>1
  <2>3. UnitsAt(s, i) \in Nat
    BY DEF UnitsAt
  <2> QED
    BY <1>1, <2>1, <2>2, <2>3
<1>7. \A i \in D : i > n \/ i <= n
  BY <1>1
<1> HIDE DEF D
<1>8. ASSUME NEW i \in D, NEW g, i <= n => g[i + UnitsAt(s, i)] \in V
      PROVE  At(g, i) \in V
  <2>1. CASE i > n
    <3>1. <<>> \in V
      BY EmptySeq
    <3> HIDE DEF V
    <3> QED
      BY <2>1, <3>1
  <2>2. CASE ~(i > n)
    <3>1. At(g, i) = Character(s, i) \o g[i + UnitsAt(s, i)]
      BY <2>2
    <3>2. Character(s, i) \in V /\ g[i + UnitsAt(s, i)] \in V
      BY <1>6, <1>7, <1>8, <2>2
    <3> HIDE DEF At
    <3> QED
      BY <3>1, <3>2, ConcatProperties
  <2> QED
    BY <2>1, <2>2
<1> HIDE DEF V
<1>9. Step \in [[D -> V] -> [D -> V]]
  <2>1. \A i \in D : \A g \in [D -> V] : At(g, i) \in V
    <3> HIDE DEF At
    <3> QED
      BY <1>6, <1>8
  <2> HIDE DEF At
  <2> QED
    BY <2>1
<1>10. ASSUME NEW g \in [D -> V], NEW h \in [D -> V], NEW i \in D,
              \A j \in D : rank[j] < rank[i] => g[j] = h[j]
       PROVE  Step[g][i] = Step[h][i]
  <2>1. At(g, i) = At(h, i)
    <3>1. CASE i > n
      BY <3>1
    <3>2. CASE i <= n
      <4>1. g[i + UnitsAt(s, i)] = h[i + UnitsAt(s, i)]
        BY <1>6, <1>10, <3>2
      <4> QED
        BY <4>1
    <3> QED
      BY <1>7, <3>1, <3>2
  <2> HIDE DEF At
  <2> QED
    BY <2>1
<1>11. \E f : Solves(f, D, V, Step)
  <2>1. V # {}
    BY EmptySeq, Zenon DEF V
  <2>2. n \in Nat
    BY <1>1
  <2>3. rank \in [D -> 0..n]
    BY <1>4
  <2>4. \A g, h \in [D -> V] : \A i \in D :
          (\A j \in D : rank[j] < rank[i] => g[j] = h[j]) => Step[g][i] = Step[h][i]
    BY <1>10
  <2> HIDE DEF At, Step
  <2> QED
    BY <1>9, <2>1, <2>2, <2>3, <2>4, RecursionDefines
<1>12. from = [i \in D |-> At(from, i)]
  <2> HIDE DEF At
  <2>1. PICK f \in [D -> V] : f = [i \in D |-> At(f, i)]
    BY <1>11 DEF Solves
  <2> QED
    BY <2>1, Zenon
<1> HIDE DEF from
<1>13. \A i \in D : from[i] = At(from, i)
  <2> HIDE DEF At
  <2> QED
    BY <1>12
<1> DEFINE T == {i \in D : from[i] \in V}
<1>14. ASSUME NEW i \in D, \A j \in D : rank[j] < rank[i] => j \in T PROVE i \in T
  <2>1. i <= n => from[i + UnitsAt(s, i)] \in V
    BY <1>6, <1>14
  <2> HIDE DEF At
  <2> QED
    BY <1>8, <1>13, <2>1
<1>15. D \subseteq T
  <2>1. n \in Nat
    BY <1>1
  <2>2. rank \in [D -> 0..n]
    BY <1>4
  <2> HIDE DEF T, At
  <2>3. \A i \in D : (\A j \in D : rank[j] < rank[i] => j \in T) => i \in T
    BY <1>14
  <2> QED
    BY <2>1, <2>2, <2>3, RecursionReaches
<1>16. from \in [D -> V]
  <2>1. \A i \in D : from[i] \in V
    BY <1>15
  <2> HIDE DEF At
  <2>2. DOMAIN from = D /\ from = [i \in DOMAIN from |-> from[i]]
    BY <1>12
  <2> QED
    BY <2>1, <2>2
<1>17. from[n + 1] = <<>>
  <2>1. n + 1 > n
    BY <1>1
  <2> QED
    BY <1>1, <1>13, <2>1
<1>18. ASSUME NEW i \in 1..n PROVE from[i] = Character(s, i) \o from[i + UnitsAt(s, i)]
  <2>1. i \in D /\ ~(i > n)
    BY <1>1 DEF D
  <2> QED
    BY <1>13, <2>1
<1>19. EncodesFrom(s, V, from)
  BY <1>16, <1>17, <1>18 DEF EncodesFrom, D, n
<1> QED
  BY <1>2, <1>19 DEF V

\* As many bytes are sent as utf8ByteLength counts, each with its character.
LEMMA EncodedBytes ==
  ASSUME NEW U \in SUBSET AllUnits, NEW s \in Seq(U)
  PROVE  Encoded(s) \in Seq(Nat \X U) /\ Len(Encoded(s)) = Bytes(s, Len(s))
<1> DEFINE n == Len(s)
           D == 1..(n + 1)
           V == Seq(Nat \X U)
           rank == [i \in D |-> (n + 1) - i]
<1>1. n \in Nat /\ 1 \in D
  OBVIOUS
<1>2. s \in Seq(AllUnits)
  BY SeqMonotonic
<1>3. PICK from : EncodesFrom(s, V, from) /\ Encoded(s) = from[1]
  BY EncodedFrom
<1>4. /\ from \in [D -> V] /\ from[n + 1] = <<>>
      /\ \A i \in 1..n : from[i] = Character(s, i) \o from[i + UnitsAt(s, i)]
  BY <1>3 DEF EncodesFrom
<1>5. \A i \in 1..n : /\ Character(s, i) \in V /\ Len(Character(s, i)) = BytesAt(s, i)
                      /\ BytesAt(s, i) \in 1..4
                      /\ i + UnitsAt(s, i) \in D /\ i + UnitsAt(s, i) > i
  BY <1>2, UnitBytes, CharacterBytes
<1>6. /\ 0 \in Cuts(s) /\ Bytes(s, 0) = 0 /\ Bytes(s, n) \in Nat
      /\ \A k \in Cuts(s) : Bytes(s, k) \in Nat
  BY <1>2, BytesGrow
<1>7. \A k \in Cuts(s) : k < n =>
        /\ k + UnitsAt(s, k + 1) \in Cuts(s)
        /\ Bytes(s, k + UnitsAt(s, k + 1)) = Bytes(s, k) + BytesAt(s, k + 1)
  BY <1>2, NextCut
<1>8. Len(<<>>) = 0
  BY EmptySeq
<1>9. ASSUME NEW x \in V, NEW y \in V PROVE Len(x \o y) = Len(x) + Len(y) /\ Len(y) \in Nat
  BY ConcatProperties, LenProperties
<1> HIDE DEF n, V
<1>10. rank \in [D -> 0..n] /\ \A i \in D : rank[i] = (n + 1) - i
  BY <1>1
<1> HIDE DEF rank
<1> DEFINE T == {i \in D : i - 1 \in Cuts(s) => Len(from[i]) = Bytes(s, n) - Bytes(s, i - 1)}
<1>11. ASSUME NEW i \in D, \A j \in D : rank[j] < rank[i] => j \in T PROVE i \in T
  <2> SUFFICES ASSUME i - 1 \in Cuts(s) PROVE Len(from[i]) = Bytes(s, n) - Bytes(s, i - 1)
    OBVIOUS
  <2> DEFINE k == i - 1
             next == i + UnitsAt(s, i)
  <2>1. k \in Cuts(s) /\ k + 1 = i /\ Bytes(s, k) \in Nat /\ i \in Nat
    BY <1>6
  <2>2. CASE i = n + 1
    <3>1. k = n /\ from[i] = <<>>
      BY <1>1, <1>4, <2>2
    <3> HIDE DEF k
    <3>2. Len(from[i]) = Bytes(s, n) - Bytes(s, k)
      BY <1>6, <1>8, <3>1
    <3> QED
      BY <3>2 DEF k
  <2>3. CASE i # n + 1
    <3>1. i \in 1..n /\ k < n
      BY <1>1, <2>3
    <3>2. /\ Character(s, i) \in V /\ Len(Character(s, i)) = BytesAt(s, i)
          /\ BytesAt(s, i) \in 1..4 /\ next \in D /\ next > i
      BY <1>5, <3>1
    <3>3. from[i] = Character(s, i) \o from[next]
      BY <1>4, <3>1
    <3>4. k + UnitsAt(s, i) = next - 1
      <4>1. UnitsAt(s, i) \in Nat
        BY DEF UnitsAt
      <4> QED
        BY <2>1, <4>1
    <3> HIDE DEF k, next
    <3>5. next - 1 \in Cuts(s) /\ Bytes(s, next - 1) = Bytes(s, k) + BytesAt(s, i)
      BY <1>7, <2>1, <3>1, <3>4
    <3>6. rank[next] < rank[i]
      BY <1>1, <1>10, <2>1, <3>2
    <3>7. Len(from[next]) = Bytes(s, n) - Bytes(s, next - 1)
      BY <1>11, <3>2, <3>5, <3>6
    <3>8. Len(from[i]) = Len(Character(s, i)) + Len(from[next])
      BY <1>4, <1>9, <3>2, <3>3
    <3>9. Len(from[i]) = BytesAt(s, i) + (Bytes(s, n) - (Bytes(s, k) + BytesAt(s, i)))
      BY <3>2, <3>5, <3>7, <3>8
    <3>10. Len(from[i]) = Bytes(s, n) - Bytes(s, k)
      BY <1>6, <2>1, <3>2, <3>9
    <3> QED
      BY <3>10 DEF k
  <2> QED
    BY <2>2, <2>3
<1>12. D \subseteq T
  <2>1. n \in Nat
    BY <1>1
  <2>2. rank \in [D -> 0..n]
    BY <1>10
  <2> HIDE DEF T, D
  <2>3. \A i \in D : (\A j \in D : rank[j] < rank[i] => j \in T) => i \in T
    BY <1>11
  <2> QED
    BY <2>1, <2>2, <2>3, RecursionReaches
<1>13. Len(from[1]) = Bytes(s, n)
  <2>1. 1 \in T /\ 1 - 1 = 0
    BY <1>1, <1>12
  <2>2. Len(from[1]) = Bytes(s, n) - Bytes(s, 0)
    BY <1>6, <2>1
  <2> QED
    BY <1>6, <2>2
<1>14. from[1] \in V
  BY <1>1, <1>4
<1> QED
  BY <1>3, <1>13, <1>14 DEF n, V

LEMMA Associative ==
  ASSUME NEW S
  PROVE  \A x, y, z \in Seq(S) : (x \o y) \o z = x \o (y \o z)
BY ConcatAssociative

Letters == AllUnits \ {"|"}

LEMMA FieldFirst ==
  ASSUME NEW f \in Seq(Letters), NEW g \in Seq(AllUnits)
  PROVE  LET t == f \o <<"|">> \o g
         IN  /\ t \in Seq(AllUnits) /\ Len(t) = (Len(f) + 1) + Len(g)
             /\ t[Len(f) + 1] = "|"
             /\ \A i \in 1..Len(f) : t[i] = f[i]
             /\ \A i \in 1..Len(g) : t[(Len(f) + 1) + i] = g[i]
<1> DEFINE m == Len(f)
           k == Len(g)
           bar == <<"|">>
           u == f \o bar
           t == u \o g
<1>1. /\ m \in Nat /\ k \in Nat /\ f \in Seq(AllUnits) /\ bar \in Seq(AllUnits)
      /\ Len(bar) = 1 /\ bar[1] = "|"
  <2>1. Letters \subseteq AllUnits /\ "|" \in AllUnits
    BY DEF Letters, AllUnits, Units
  <2> HIDE DEF AllUnits
  <2>2. f \in Seq(AllUnits)
    BY <2>1, SeqMonotonic
  <2> QED
    BY <2>1, <2>2
<1> HIDE DEF bar
<1>2. /\ u \in Seq(AllUnits) /\ Len(u) = m + 1
      /\ \A i \in 1..(m + 1) : u[i] = IF i <= m THEN f[i] ELSE bar[i - m]
  <2> HIDE DEF m
  <2>1. /\ u \in Seq(AllUnits) /\ Len(u) = Len(f) + Len(bar)
        /\ \A i \in 1..(Len(f) + Len(bar)) : u[i] = IF i <= Len(f) THEN f[i] ELSE bar[i - Len(f)]
    BY <1>1, ConcatProperties
  <2> HIDE DEF u
  <2> QED
    BY <1>1, <2>1, Zenon DEF m
<1> HIDE DEF u
<1>3. /\ t \in Seq(AllUnits) /\ Len(t) = Len(u) + k
      /\ \A i \in 1..(Len(u) + k) : t[i] = IF i <= Len(u) THEN u[i] ELSE g[i - Len(u)]
  <2> HIDE DEF AllUnits
  <2>1. u \in Seq(AllUnits)
    BY <1>2
  <2>2. /\ u \o g \in Seq(AllUnits) /\ Len(u \o g) = Len(u) + Len(g)
        /\ \A i \in 1..(Len(u) + Len(g)) :
             (u \o g)[i] = IF i <= Len(u) THEN u[i] ELSE g[i - Len(u)]
    BY <2>1, ConcatProperties
  <2> QED
    BY <2>2, Zenon
<1> HIDE DEF t, m, k
<1>4. Len(t) = (m + 1) + k /\ \A i \in 1..((m + 1) + k) : t[i] = IF i <= m + 1 THEN u[i] ELSE g[i - (m + 1)]
  BY <1>2, <1>3, Zenon
<1>5. t[m + 1] = "|"
  <2>1. m + 1 \in 1..(m + 1) /\ ~(m + 1 <= m) /\ (m + 1) - m = 1 /\ m + 1 \in 1..((m + 1) + k)
        /\ m + 1 <= m + 1
    BY <1>1
  <2> QED
    BY <1>1, <1>2, <1>4, <2>1
<1>6. ASSUME NEW i \in 1..m PROVE t[i] = f[i]
  <2>1. i \in 1..(m + 1) /\ i <= m /\ i <= m + 1 /\ i \in 1..((m + 1) + k)
    BY <1>1
  <2> QED
    BY <1>2, <1>4, <2>1
<1>7. ASSUME NEW i \in 1..k PROVE t[(m + 1) + i] = g[i]
  <2>1. (m + 1) + i \in 1..((m + 1) + k) /\ ~((m + 1) + i <= m + 1) /\ ((m + 1) + i) - (m + 1) = i
    BY <1>1
  <2> QED
    BY <1>4, <2>1
<1> QED
  BY <1>3, <1>4, <1>5, <1>6, <1>7 DEF t, u, bar, m, k

\* After a field the first byte is the separator's.
LEMMA EncodedField ==
  ASSUME NEW f \in Seq(Letters), NEW g \in Seq(Letters)
  PROVE  \E rest \in Seq(Nat \X AllUnits) :
           /\ Encoded(f \o <<"|">> \o g) = Encoded(f) \o rest
           /\ Len(rest) > 0 /\ rest[1][2] = "|"
<1> DEFINE t == f \o <<"|">> \o g
           m == Len(f)
           D == 1..(m + 1)
           V == Seq(Nat \X AllUnits)
           rank == [i \in D |-> (m + 1) - i]
<1>1. /\ m \in Nat /\ f \in Seq(AllUnits) /\ g \in Seq(AllUnits) /\ <<"|">> \in Seq(AllUnits)
      /\ Len(<<"|">>) = 1 /\ <<"|">>[1] = "|"
  <2>1. Letters \subseteq AllUnits /\ "|" \in AllUnits
    BY DEF Letters, AllUnits, Units
  <2> HIDE DEF AllUnits
  <2>2. f \in Seq(AllUnits) /\ g \in Seq(AllUnits)
    BY <2>1, SeqMonotonic
  <2> QED
    BY <2>1, <2>2
<1>2. /\ t \in Seq(AllUnits) /\ Len(t) \in Nat /\ m + 1 <= Len(t)
      /\ t[m + 1] = "|" /\ \A i \in 1..m : t[i] = f[i]
  <2>1. /\ t \in Seq(AllUnits) /\ Len(t) = (m + 1) + Len(g)
        /\ t[m + 1] = "|" /\ \A i \in 1..m : t[i] = f[i]
    BY <1>1, FieldFirst
  <2>2. Len(g) \in Nat
    BY <1>1, LenProperties
  <2> HIDE DEF t, m
  <2>3. Len(t) \in Nat /\ m + 1 <= Len(t)
    BY <1>1, <2>1, <2>2
  <2> QED
    BY <2>1, <2>3
<1>3. \A i \in 1..m : i \in 1..Len(t) /\ Character(t, i) = Character(f, i) /\ UnitsAt(t, i) = UnitsAt(f, i)
  <2> HIDE DEF t
  <2> SUFFICES ASSUME NEW i \in 1..m
               PROVE  i \in 1..Len(t) /\ Character(t, i) = Character(f, i) /\ UnitsAt(t, i) = UnitsAt(f, i)
    OBVIOUS
  <2>1. t[i] = f[i] /\ i \in 1..Len(t)
    BY <1>1, <1>2
  <2>2. Pair(t, i) <=> Pair(f, i)
    <3>1. CASE i = m
      BY <1>1, <1>2, <3>1 DEF Pair
    <3>2. CASE i # m
      <4>1. i + 1 \in 1..m /\ i < Len(f) /\ i < Len(t)
        BY <1>1, <1>2, <3>2
      <4>2. t[i + 1] = f[i + 1]
        BY <1>2, <4>1
      <4> QED
        BY <2>1, <4>1, <4>2 DEF Pair
    <3> QED
      BY <3>1, <3>2
  <2>3. BytesAt(t, i) = BytesAt(f, i) /\ UnitsAt(t, i) = UnitsAt(f, i)
    BY <2>1, <2>2 DEF BytesAt, UnitsAt
  <2> QED
    BY <2>1, <2>3, Zenon DEF Character
<1>4. PICK from : EncodesFrom(t, V, from) /\ Encoded(t) = from[1]
  <2> HIDE DEF t
  <2> QED
    BY <1>2, EncodedFrom
<1>5. PICK fromField : EncodesFrom(f, V, fromField) /\ Encoded(f) = fromField[1]
  BY <1>1, EncodedFrom
<1> HIDE DEF t
<1>6. \A i \in 1..m : /\ Character(f, i) \in V /\ i + UnitsAt(f, i) \in D
                      /\ i + UnitsAt(f, i) > i
  BY <1>1, UnitBytes, CharacterBytes
<1>7. /\ from \in [1..(Len(t) + 1) -> V] /\ fromField \in [D -> V]
      /\ fromField[m + 1] = <<>>
      /\ \A i \in 1..m : fromField[i] = Character(f, i) \o fromField[i + UnitsAt(f, i)]
      /\ \A i \in 1..Len(t) : from[i] = Character(t, i) \o from[i + UnitsAt(t, i)]
  BY <1>4, <1>5 DEF EncodesFrom
<1> DEFINE rest == from[m + 1]
<1>8. rest \in V
  <2>1. m + 1 \in 1..(Len(t) + 1)
    BY <1>1, <1>2
  <2> HIDE DEF V, m
  <2> QED
    BY <1>7, <2>1
<1>9. \A x, y, z \in V : (x \o y) \o z = x \o (y \o z)
  <2> DEFINE Bytewise == Nat \X AllUnits
  <2>1. V = Seq(Bytewise)
    OBVIOUS
  <2> HIDE DEF Bytewise, V
  <2>2. \A x, y, z \in Seq(Bytewise) : (x \o y) \o z = x \o (y \o z)
    BY Associative, SMTT(40)
  <2> QED
    BY <2>1, <2>2, ZenonT(60)
<1>10. <<>> \o rest = rest
  BY <1>8, ConcatEmptySeq
<1>11. rank \in [D -> 0..m] /\ \A i \in D : rank[i] = (m + 1) - i
  BY <1>1
<1> HIDE DEF rank, m, V, rest
<1> DEFINE T == {i \in D : from[i] = fromField[i] \o rest}
<1>12. ASSUME NEW i \in D, \A j \in D : rank[j] < rank[i] => j \in T PROVE i \in T
  <2>1. CASE i = m + 1
    BY <1>7, <1>10, <2>1 DEF rest
  <2>2. CASE i # m + 1
    <3> DEFINE next == i + UnitsAt(f, i)
    <3>1. i \in 1..m
      BY <1>1, <2>2
    <3>2. Character(f, i) \in V /\ next \in D /\ next > i
      BY <1>6, <3>1
    <3>3. fromField[i] = Character(f, i) \o fromField[next] /\ from[i] = Character(f, i) \o from[next]
      BY <1>3, <1>7, <3>1
    <3> HIDE DEF next
    <3>4. rank[next] < rank[i]
      BY <1>1, <1>11, <3>2
    <3>5. from[next] = fromField[next] \o rest
      BY <1>12, <3>2, <3>4
    <3>6. fromField[next] \in V
      BY <1>7, <3>2
    <3> HIDE DEF D
    <3>7. from[i] = fromField[i] \o rest
      <4>1. (Character(f, i) \o fromField[next]) \o rest = Character(f, i) \o (fromField[next] \o rest)
        BY <1>8, <1>9, <3>2, <3>6
      <4> QED
        BY <3>3, <3>5, <4>1, Zenon
    <3> QED
      BY <3>7
  <2> QED
    BY <2>1, <2>2
<1>13. D \subseteq T
  <2>1. m \in Nat
    BY <1>1
  <2>2. rank \in [D -> 0..m]
    BY <1>11
  <2> HIDE DEF T, D
  <2>3. \A i \in D : (\A j \in D : rank[j] < rank[i] => j \in T) => i \in T
    BY <1>12
  <2> QED
    BY <2>1, <2>2, <2>3, RecursionReaches, SMTT(40)
<1>14. Encoded(t) = Encoded(f) \o rest
  <2>1. 1 \in T
    BY <1>1, <1>13
  <2> QED
    BY <1>4, <1>5, <2>1
<1>15. Len(rest) > 0 /\ rest[1][2] = "|"
  <2> DEFINE i == m + 1
             first == Character(t, i)
             after == from[i + UnitsAt(t, i)]
  <2>1. i \in 1..Len(t) /\ t[i] = "|"
    BY <1>1, <1>2
  <2>2. ~Pair(t, i) /\ BytesAt(t, i) = 1 /\ UnitsAt(t, i) = 1
    <3>1. ~Pair(t, i)
      BY <2>1 DEF Pair
    <3>2. BytesOfUnit("|") = 1
      BY DEF BytesOfUnit
    <3> QED
      BY <2>1, <3>1, <3>2 DEF BytesAt, UnitsAt
  <2> HIDE DEF i
  <2>3. rest = first \o after
    BY <1>7, <2>1 DEF rest, i
  <2>4. first \in V /\ Len(first) = 1
    BY <1>2, <2>1, <2>2, CharacterBytes DEF V
  <2>5. after \in V
    <3>1. i + UnitsAt(t, i) \in 1..(Len(t) + 1)
      BY <1>2, <2>1, <2>2
    <3> QED
      BY <1>7, <3>1
  <2>6. first[1] = <<i, "|">>
    <3>1. 1 \in 1..BytesAt(t, i)
      BY <2>2
    <3> QED
      BY <2>1, <3>1 DEF Character
  <2>7. <<i, "|">>[2] = "|"
    OBVIOUS
  <2> HIDE DEF first, after
  <2>8. /\ Len(first \o after) = 1 + Len(after) /\ Len(after) \in Nat
        /\ (first \o after)[1] = first[1]
    <3>1. /\ Len(first \o after) = Len(first) + Len(after) /\ Len(after) \in Nat
          /\ \A j \in 1..(Len(first) + Len(after)) :
               (first \o after)[j] = IF j <= Len(first) THEN first[j] ELSE after[j - Len(first)]
      BY <2>4, <2>5, ConcatProperties, LenProperties DEF V
    <3>2. 1 \in 1..(Len(first) + Len(after)) /\ 1 <= Len(first)
      BY <2>4, <3>1
    <3> QED
      BY <2>4, <3>1, <3>2
  <2>9. Len(rest) > 0
    BY <2>3, <2>8
  <2> QED
    BY <2>3, <2>6, <2>7, <2>8, <2>9
<1> QED
  BY <1>8, <1>14, <1>15 DEF t, V

\* prv_next_field finds the end of the field, and prv_copy_string has room for it.
LEMMA FieldFound ==
  ASSUME NEW F \in Seq(Nat \X Letters), NEW rest \in Seq(Nat \X AllUnits), NEW limit \in Nat,
         Len(F) <= limit, Len(rest) > 0, rest[1][2] = "|"
  PROVE  CopyString(NextField(F \o rest), limit + 1) = F
<1> DEFINE V == Nat \X AllUnits
           m == Len(F)
           k == Len(rest)
           bytes == F \o rest
           separators == {j \in DOMAIN bytes : bytes[j][2] = "|"}
           ends == {Len(bytes)} \cup {i - 1 : i \in separators}
<1>1. m \in Nat /\ k \in Nat /\ k > 0 /\ F \in Seq(V) /\ rest \in Seq(V)
      /\ \A i \in 1..m : F[i][2] \in Letters
  <2>1. Letters \subseteq AllUnits
    BY DEF Letters
  <2>2. Nat \X Letters \subseteq V
    BY <2>1
  <2>3. \A i \in 1..m : F[i] \in Nat \X Letters
    OBVIOUS
  <2>4. F \in Seq(V)
    <3> HIDE DEF V
    <3> QED
      BY <2>2, SeqMonotonic
  <2> QED
    BY <2>3, <2>4
<1> HIDE DEF V
<1>2. /\ bytes \in Seq(V) /\ Len(bytes) = m + k
      /\ \A i \in 1..(m + k) : bytes[i] = IF i <= m THEN F[i] ELSE rest[i - m]
  BY <1>1, ConcatProperties
<1> HIDE DEF m, k, bytes
<1>3. DOMAIN bytes = 1..(m + k)
  BY <1>2, LenProperties
<1>4. \A i \in 1..m : i \in 1..(m + k) /\ bytes[i] = F[i]
  <2>1. \A i \in 1..m : i \in 1..(m + k) /\ i <= m
    BY <1>1
  <2> QED
    BY <1>2, <2>1
<1>5. m + 1 \in separators
  <2>1. m + 1 \in 1..(m + k) /\ ~(m + 1 <= m) /\ (m + 1) - m = 1
    BY <1>1
  <2>2. bytes[m + 1] = rest[1]
    BY <1>2, <2>1
  <2> QED
    BY <1>3, <2>1, <2>2
<1>6. \A i \in separators : i \in Nat /\ i > m
  <2> SUFFICES ASSUME NEW i \in 1..(m + k), bytes[i][2] = "|", ~(i > m) PROVE FALSE
    BY <1>1, <1>3
  <2>1. i \in 1..m
    BY <1>1
  <2>2. F[i][2] = "|" /\ F[i][2] \in Letters
    BY <1>1, <1>4, <2>1
  <2> QED
    BY <2>2 DEF Letters
<1> HIDE DEF separators
<1>7. m \in ends /\ ends \in SUBSET Nat /\ \A e \in ends : m <= e
  <2>1. (m + 1) - 1 = m /\ m + k \in Nat /\ m <= m + k
    BY <1>1
  <2>2. \A i \in separators : i - 1 \in Nat /\ m <= i - 1
    BY <1>1, <1>6
  <2> QED
    BY <1>2, <1>5, <2>1, <2>2
<1> HIDE DEF ends
<1>8. Min(ends) = m
  <2>1. Min(ends) \in ends /\ \A e \in ends : Min(ends) <= e
    BY <1>7, MinIsLeast
  <2>2. Min(ends) \in Nat /\ Min(ends) <= m /\ m <= Min(ends)
    BY <1>7, <2>1
  <2> QED
    BY <1>1, <2>2
<1>9. NextField(bytes) = F
  <2>1. NextField(bytes) = SubSeq(bytes, 1, Min(ends))
    BY Zenon DEF NextField, ends, separators
  <2>2. \A i \in 1..m : bytes[i] \in V
    BY <1>2, <1>4, ElementOfSeq
  <2>3. /\ SubSeq(bytes, 1, m) \in Seq(V) /\ Len(SubSeq(bytes, 1, m)) = m
        /\ \A i \in 1..m : SubSeq(bytes, 1, m)[i] = bytes[i]
    <3>1. /\ SubSeq(bytes, 1, m) \in Seq(V)
          /\ Len(SubSeq(bytes, 1, m)) = IF 1 <= m THEN m - 1 + 1 ELSE 0
          /\ \A i \in 1..(m - 1 + 1) : SubSeq(bytes, 1, m)[i] = bytes[1 + i - 1]
      BY <1>1, <2>2, SubSeqProperties
    <3>2. m - 1 + 1 = m /\ (IF 1 <= m THEN m - 1 + 1 ELSE 0) = m /\ \A i \in 1..m : 1 + i - 1 = i
      BY <1>1
    <3> QED
      BY <3>1, <3>2
  <2>4. SubSeq(bytes, 1, m) = F
    <3> DEFINE kept == SubSeq(bytes, 1, m)
    <3>1. kept \in Seq(V) /\ F \in Seq(V) /\ Len(kept) = Len(F) /\ \A i \in 1..Len(kept) : kept[i] = F[i]
      BY <1>1, <1>4, <2>3 DEF m
    <3> HIDE DEF kept
    <3>2. kept = F
      BY <3>1, SeqEqual
    <3> QED
      BY <3>2 DEF kept
  <2> QED
    BY <1>8, <2>1, <2>4
<1>10. Min({m, (limit + 1) - 1}) = m
  <2>1. {m, (limit + 1) - 1} \in SUBSET Nat /\ m \in {m, (limit + 1) - 1} /\ m <= limit
        /\ (limit + 1) - 1 = limit
    BY <1>1 DEF m
  <2>2. Min({m, (limit + 1) - 1}) \in {m, (limit + 1) - 1}
        /\ \A e \in {m, (limit + 1) - 1} : Min({m, (limit + 1) - 1}) <= e
    BY <2>1, MinIsLeast
  <2> QED
    BY <1>1, <2>1, <2>2
<1>11. CopyString(F, limit + 1) = SubSeq(F, 1, m)
  BY <1>10, Zenon DEF CopyString, m
<1>12. SubSeq(F, 1, m) = F
  BY <1>1, SubSeqFull DEF m
<1> QED
  BY <1>9, <1>11, <1>12, Zenon DEF bytes

\* splitPayload finds the same end and takes the rest as it is.
LEMMA PayloadSplit ==
  ASSUME NEW f \in Seq(Letters), NEW g \in Seq(AllUnits)
  PROVE  SplitPayload(f \o <<"|">> \o g) = <<f, g>>
<1> DEFINE t == f \o <<"|">> \o g
           m == Len(f)
           k == Len(g)
           separators == {i \in DOMAIN t : t[i] = "|"}
<1>1. /\ m \in Nat /\ k \in Nat
      /\ \A i \in 1..m : f[i] \in Letters
      /\ f \in Seq(AllUnits)
  <2>1. Letters \subseteq AllUnits
    BY DEF Letters
  <2> QED
    BY <2>1, LenProperties, ElementOfSeq, SeqMonotonic
<1>2. /\ t \in Seq(AllUnits) /\ Len(t) = (m + 1) + k /\ t[m + 1] = "|"
      /\ \A i \in 1..m : t[i] = f[i]
      /\ \A i \in 1..k : t[(m + 1) + i] = g[i]
  BY FieldFirst
<1> HIDE DEF t, m, k
<1>3. DOMAIN t = 1..((m + 1) + k) /\ \A i \in 1..((m + 1) + k) : t[i] \in AllUnits
  BY <1>2, LenProperties, ElementOfSeq
<1>4. m + 1 \in separators /\ separators \in SUBSET Nat
  <2>1. m + 1 \in 1..((m + 1) + k)
    BY <1>1
  <2> QED
    BY <1>2, <1>3, <2>1
<1>5. \A i \in separators : m + 1 <= i
  <2> SUFFICES ASSUME NEW i \in 1..((m + 1) + k), t[i] = "|", ~(m + 1 <= i) PROVE FALSE
    BY <1>3
  <2>1. i \in 1..m
    BY <1>1
  <2>2. f[i] = "|" /\ f[i] \in Letters
    BY <1>1, <1>2, <2>1
  <2> QED
    BY <2>2 DEF Letters
<1> HIDE DEF separators
<1>6. Min(separators) = m + 1
  <2>1. Min(separators) \in separators /\ \A e \in separators : Min(separators) <= e
    BY <1>4, MinIsLeast
  <2>2. Min(separators) \in Nat /\ Min(separators) <= m + 1 /\ m + 1 <= Min(separators)
    BY <1>4, <1>5, <2>1
  <2> QED
    BY <1>1, <2>2
<1>7. SubSeq(t, 1, m) = f
  <2> DEFINE kept == SubSeq(t, 1, m)
  <2>1. \A i \in 1..m : t[i] \in AllUnits
    <3>1. \A i \in 1..m : i \in 1..((m + 1) + k)
      BY <1>1
    <3> QED
      BY <1>3, <3>1
  <2>2. /\ kept \in Seq(AllUnits)
        /\ Len(kept) = IF 1 <= m THEN m - 1 + 1 ELSE 0
        /\ \A i \in 1..(m - 1 + 1) : kept[i] = t[1 + i - 1]
    BY <1>1, <2>1, SubSeqProperties
  <2>3. m - 1 + 1 = m /\ (IF 1 <= m THEN m - 1 + 1 ELSE 0) = m /\ \A i \in 1..m : 1 + i - 1 = i
    BY <1>1
  <2> HIDE DEF kept
  <2>4. Len(kept) = m /\ \A i \in 1..m : kept[i] = f[i]
    BY <1>2, <2>2, <2>3
  <2>5. kept = f
    BY <1>1, <2>2, <2>4, SeqEqual DEF m
  <2> QED
    BY <2>5 DEF kept
<1>8. SubSeq(t, (m + 1) + 1, Len(t)) = g
  <2> DEFINE n == (m + 1) + k
             left == SubSeq(t, (m + 1) + 1, n)
  <2>1. \A i \in ((m + 1) + 1)..n : t[i] \in AllUnits
    <3>1. \A i \in ((m + 1) + 1)..n : i \in 1..((m + 1) + k)
      BY <1>1
    <3> QED
      BY <1>3, <3>1
  <2>2. /\ left \in Seq(AllUnits)
        /\ Len(left) = IF (m + 1) + 1 <= n THEN n - ((m + 1) + 1) + 1 ELSE 0
        /\ \A i \in 1..(n - ((m + 1) + 1) + 1) : left[i] = t[((m + 1) + 1) + i - 1]
    <3>1. (m + 1) + 1 \in Int /\ n \in Int
      BY <1>1
    <3> HIDE DEF n
    <3> QED
      BY <2>1, <3>1, SubSeqProperties
  <2>3. n - ((m + 1) + 1) + 1 = k /\ (IF (m + 1) + 1 <= n THEN n - ((m + 1) + 1) + 1 ELSE 0) = k
        /\ \A i \in 1..k : ((m + 1) + 1) + i - 1 = (m + 1) + i
    BY <1>1
  <2> HIDE DEF left, n
  <2>4. Len(left) = k /\ \A i \in 1..k : left[i] = g[i]
    BY <1>2, <2>2, <2>3
  <2>5. left = g
    BY <2>2, <2>4, SeqEqual DEF k
  <2> QED
    BY <1>2, <2>5 DEF left, n
<1>9. separators # {} /\ (m + 1) - 1 = m
  BY <1>1, <1>4
<1>10. SplitPayload(t) = <<SubSeq(t, 1, (m + 1) - 1), SubSeq(t, (m + 1) + 1, Len(t))>>
  <2>1. SplitPayload(t) =
          IF separators = {} THEN <<t, <<>>>>
          ELSE <<SubSeq(t, 1, Min(separators) - 1), SubSeq(t, Min(separators) + 1, Len(t))>>
    BY Zenon DEF SplitPayload, separators
  <2> QED
    BY <1>6, <1>9, <2>1, Zenon
<1>11. SplitPayload(t) = <<f, g>>
  BY <1>7, <1>8, <1>9, <1>10, Zenon
<1> QED
  BY <1>11 DEF t

\* A field has no separator and fits its limit.
LEMMA FieldFits ==
  ASSUME NEW s \in Seq(Units), NEW limit \in Nat
  PROVE  LET field == SanitizeField(s, limit)
         IN  field \in Seq(Letters) /\ Bytes(field, Len(field)) <= limit
<1> DEFINE plain == [i \in DOMAIN s |->
                       IF s[i] = "|" THEN "a" ELSE IF s[i] = "\n" THEN " " ELSE s[i]]
           trimmed == Trim(plain)
           field == TruncateUtf8(trimmed, limit)
<1>1. SanitizeField(s, limit) = field
  BY Zenon DEF SanitizeField
<1>2. plain \in Seq(Letters)
  <2>1. Len(s) \in Nat /\ DOMAIN s = 1..Len(s) /\ \A i \in 1..Len(s) : s[i] \in Units
    BY LenProperties, ElementOfSeq
  <2>2. \A x \in Units : (IF x = "|" THEN "a" ELSE IF x = "\n" THEN " " ELSE x) \in Letters
    BY DEF Units, Letters, AllUnits
  <2>3. plain \in [1..Len(s) -> Letters]
    BY <2>1, <2>2
  <2> HIDE DEF plain
  <2> QED
    BY <2>1, <2>3, SeqDef
<1> HIDE DEF plain
<1>3. trimmed \in Seq(Letters)
  <2> DEFINE solid == {i \in DOMAIN plain : plain[i] \notin {" ", "\n"}}
  <2>1. trimmed = IF solid = {} THEN <<>> ELSE SubSeq(plain, Min(solid), Max(solid))
    BY Zenon DEF Trim
  <2>2. Len(plain) \in Nat /\ DOMAIN plain = 1..Len(plain) /\ \A i \in 1..Len(plain) : plain[i] \in Letters
    BY <1>2, LenProperties, ElementOfSeq
  <2>3. CASE solid = {}
    BY <2>1, <2>3, EmptySeq
  <2>4. CASE solid # {}
    <3>1. solid \in SUBSET Nat /\ solid \in SUBSET (0..Len(plain)) /\ solid \subseteq 1..Len(plain)
      <4>1. solid \subseteq 1..Len(plain)
        BY <2>2
      <4>2. 1..Len(plain) \subseteq 0..Len(plain) /\ 1..Len(plain) \subseteq Nat
        BY <2>2
      <4> HIDE DEF solid
      <4> QED
        BY <4>1, <4>2
    <3> HIDE DEF solid, trimmed
    <3>2. Min(solid) \in solid /\ Max(solid) \in solid
      BY <2>2, <2>4, <3>1, MinIsLeast, MaxIsGreatest
    <3> DEFINE from == Min(solid)
               to == Max(solid)
    <3>3. from \in 1..Len(plain) /\ to \in 1..Len(plain)
      BY <3>1, <3>2
    <3>4. trimmed = SubSeq(plain, from, to)
      BY <2>1, <2>4
    <3> HIDE DEF from, to
    <3>5. from \in Int /\ to \in Int /\ \A i \in from..to : i \in 1..Len(plain)
      BY <2>2, <3>3
    <3>6. SubSeq(plain, from, to) \in Seq(Letters)
      BY <2>2, <3>5, SubSeqProperties
    <3> QED
      BY <3>4, <3>6
  <2> QED
    BY <2>3, <2>4
<1> HIDE DEF trimmed
<1>4. trimmed \in Seq(AllUnits)
  <2>1. Letters \subseteq AllUnits
    BY DEF Letters
  <2> QED
    BY <1>3, <2>1, SeqMonotonic
<1>5. PICK e \in Cuts(trimmed) : field = SubSeq(trimmed, 1, e) /\ Bytes(trimmed, e) <= limit
  BY <1>4, TruncatesLast
<1> HIDE DEF field
<1>6. e \in Nat /\ e <= Len(trimmed) /\ Len(trimmed) \in Nat
  BY <1>4, LenProperties DEF Cuts
<1>7. field \in Seq(Letters)
  <2>1. \A i \in 1..e : i \in 1..Len(trimmed)
    BY <1>6
  <2>2. \A i \in 1..e : trimmed[i] \in Letters
    BY <1>3, <2>1, ElementOfSeq
  <2>3. SubSeq(trimmed, 1, e) \in Seq(Letters)
    BY <1>6, <2>2, SubSeqProperties
  <2> QED
    BY <1>5, <2>3
<1>8. Bytes(field, Len(field)) = Bytes(trimmed, e)
  <2>1. ByteCount(field) = Bytes(trimmed, e)
    BY <1>4, <1>5, BytesOfBeginning
  <2>2. field \in Seq(AllUnits)
    <3>1. Letters \subseteq AllUnits
      BY DEF Letters
    <3> QED
      BY <1>7, <3>1, SeqMonotonic
  <2>3. Len(field) \in Cuts(field)
    BY <2>2, BytesGrow
  <2>4. ByteCount(SubSeq(field, 1, Len(field))) = Bytes(field, Len(field))
    BY <2>2, <2>3, BytesOfBeginning
  <2>5. SubSeq(field, 1, Len(field)) = field
    BY <2>2, SubSeqFull
  <2> QED
    BY <2>1, <2>4, <2>5, Zenon
<1>9. Bytes(field, Len(field)) <= limit
  BY <1>5, <1>8
<1> QED
  BY <1>1, <1>7, <1>9, Zenon

\* A field arrives as it was sent: the watch finds its end although more fields
\* follow, and its buffer holds it without cutting a character, for texts and
\* limits of any length.  A reply reaches the phone with the thread it is for,
\* whatever was dictated (sanitizeField, prv_next_field, prv_copy_string,
\* splitPayload).
THEOREM FieldsWhole == TextInit /\ [][TextNext]_textVars => []FieldsArriveWhole
<1>1. TextInv => FieldsArriveWhole
  <2> DEFINE field == SanitizeField(text, FieldLimit)
             payload == Encoded(field \o <<"|">> \o SanitizeField(text, FieldLimit))
             reply == PayloadField(text)
  <2> SUFFICES ASSUME TextInv
               PROVE  /\ CopyString(NextField(payload), FieldLimit + 1) = Encoded(field)
                      /\ SplitPayload(field \o <<"|">> \o reply) = <<field, reply>>
    BY Zenon DEF FieldsArriveWhole
  <2>1. text \in Seq(Units) /\ FieldLimit \in Nat
    BY LimitAssumption DEF TextInv
  <2>2. field \in Seq(Letters) /\ Bytes(field, Len(field)) <= FieldLimit
    BY <2>1, FieldFits
  <2>3. reply \in Seq(AllUnits)
    <3>1. Len(text) \in Nat /\ DOMAIN text = 1..Len(text) /\ \A i \in 1..Len(text) : text[i] \in Units
      BY <2>1, LenProperties, ElementOfSeq
    <3>2. \A x \in Units : (IF x \in {"|", "\n"} THEN " " ELSE x) \in AllUnits
      BY DEF Units, AllUnits
    <3>3. reply \in [1..Len(text) -> AllUnits]
      BY <3>1, <3>2 DEF PayloadField
    <3> HIDE DEF reply
    <3> QED
      BY <3>1, <3>3, SeqDef
  <2> HIDE DEF reply
  <2>4. payload = Encoded(field \o <<"|">> \o field)
    OBVIOUS
  <2> HIDE DEF field, payload
  <2>5. PICK rest \in Seq(Nat \X AllUnits) :
          /\ Encoded(field \o <<"|">> \o field) = Encoded(field) \o rest
          /\ Len(rest) > 0 /\ rest[1][2] = "|"
    BY <2>2, EncodedField
  <2>6. Encoded(field) \in Seq(Nat \X Letters) /\ Len(Encoded(field)) <= FieldLimit
    <3>1. Letters \in SUBSET AllUnits
      BY DEF Letters
    <3>2. Encoded(field) \in Seq(Nat \X Letters) /\ Len(Encoded(field)) = Bytes(field, Len(field))
      BY <2>2, <3>1, EncodedBytes
    <3> QED
      BY <2>2, <3>2
  <2>7. CopyString(NextField(Encoded(field) \o rest), FieldLimit + 1) = Encoded(field)
    BY <2>1, <2>5, <2>6, FieldFound
  <2>8. CopyString(NextField(payload), FieldLimit + 1) = Encoded(field)
    BY <2>4, <2>5, <2>7, Zenon
  <2>9. SplitPayload(field \o <<"|">> \o reply) = <<field, reply>>
    BY <2>2, <2>3, PayloadSplit
  <2> QED
    BY <2>8, <2>9
<1> QED
  BY <1>1, TextInvariant, PTL

-----------------------------------------------------------------------------
(***************************************************************************)
(* The stream of the smoke test, for every size of a frame.  Frames that   *)
(* are sent lie one after the other, and where each ends says how many are *)
(* there when the stream is cut at some byte.                              *)
(***************************************************************************)
SizeOf(f) == HeaderSize(f.size) + f.size

\* Bytes of frames, and of the upgrade's headers too.
FrameBytes == Nat \X Frame
StreamBytes == FrameBytes \cup ({0} \X (Statuses \cup {"cr", "lf"}))

LEMMA FrameSize ==
  ASSUME NEW f \in Frame
  PROVE  /\ f.size \in Nat /\ HeaderSize(f.size) \in Nat /\ SizeOf(f) \in Nat
         /\ HeaderSize(f.size) >= 2 /\ SizeOf(f) = HeaderSize(f.size) + f.size
<1>1. f.size \in FrameSizes
  BY DEF Frame
<1>2. f.size \in Nat
  BY <1>1, FrameAssumption
<1>3. HeaderSize(f.size) \in {2, 4, 10}
  BY DEF HeaderSize
<1> QED
  BY <1>2, <1>3 DEF SizeOf

LEMMA FramesTakeBytes == \A f \in Frame : SizeOf(f) \in Nat /\ SizeOf(f) >= 2
<1> SUFFICES ASSUME NEW f \in Frame PROVE SizeOf(f) \in Nat /\ SizeOf(f) >= 2
  OBVIOUS
<1>1. f.size \in Nat /\ HeaderSize(f.size) \in Nat /\ HeaderSize(f.size) >= 2
      /\ SizeOf(f) = HeaderSize(f.size) + f.size
  BY FrameSize
<1> QED
  BY <1>1

LEMMA EncodedFrame ==
  ASSUME NEW f \in Frame
  PROVE  /\ EncodeFrame(f) \in Seq(FrameBytes) /\ Len(EncodeFrame(f)) = SizeOf(f)
         /\ \A i \in 1..SizeOf(f) : EncodeFrame(f)[i] = <<i, f>>
         /\ Payload(f) \in Seq(FrameBytes) /\ Len(Payload(f)) = f.size
         /\ \A i \in 1..f.size : Payload(f)[i] = <<HeaderSize(f.size) + i, f>>
<1> DEFINE e == EncodeFrame(f)
           h == HeaderSize(f.size)
<1>1. f.size \in Nat /\ h \in Nat /\ SizeOf(f) \in Nat /\ SizeOf(f) = h + f.size /\ h >= 2
  BY FrameSize
<1>2. e = [i \in 1..SizeOf(f) |-> <<i, f>>]
  BY Zenon DEF EncodeFrame, SizeOf
<1>3. \A i \in 1..SizeOf(f) : <<i, f>> \in FrameBytes
  BY <1>1 DEF FrameBytes
<1>4. Payload(f) = SubSeq(e, h + 1, h + f.size)
  BY Zenon DEF Payload
<1> HIDE DEF e, h
<1>5. e \in Seq(FrameBytes) /\ Len(e) = SizeOf(f)
  BY <1>1, <1>2, <1>3
<1>6. \A i \in 1..SizeOf(f) : e[i] = <<i, f>>
  BY <1>2
<1>7. h + 1 \in Nat /\ h + f.size <= Len(e) /\ 1 <= h + 1 /\ h + 1 <= Len(e) + 1 /\ h + f.size \in Int
      /\ h + f.size >= h
  BY <1>1, <1>5
<1>8. Payload(f) \in Seq(FrameBytes) /\ Len(Payload(f)) = f.size
      /\ \A i \in 1..f.size : Payload(f)[i] = e[h + i]
  <2>1. \A i \in 1..Len(e) : e[i] \in FrameBytes
    BY <1>5
  <2>2. SubSeq(e, h + 1, h + f.size) = [i \in 1..f.size |-> e[h + i]]
    BY <1>1, <1>5, <1>7, SMTT(40)
  <2> HIDE DEF FrameBytes
  <2>3. \A i \in 1..f.size : h + i \in 1..Len(e)
    BY <1>1, <1>5
  <2>4. [i \in 1..f.size |-> e[h + i]] \in Seq(FrameBytes) /\ Len([i \in 1..f.size |-> e[h + i]]) = f.size
    BY <2>1, <2>3, <1>1, SMTT(40)
  <2> QED
    BY <2>2, <2>4, <1>4
<1>9. \A i \in 1..f.size : h + i \in 1..SizeOf(f)
  BY <1>1
<1> QED
  BY <1>5, <1>6, <1>8, <1>9 DEF e, h

\* A frame is complete when its bytes are there.
LEMMA FrameDecoded ==
  ASSUME NEW bytes \in Seq(FrameBytes)
  PROVE  LET decoded == DecodeFrame(bytes)
             f == bytes[1][2]
         IN  /\ decoded.complete <=> Len(bytes) > 0 /\ SizeOf(f) <= Len(bytes)
             /\ decoded.complete =>
                  /\ f \in Frame /\ decoded.consumed = SizeOf(f)
                  /\ decoded.payload = SubSeq(bytes, HeaderSize(f.size) + 1, SizeOf(f))
                  /\ decoded.payload \in Seq(FrameBytes)
<1> DEFINE f == bytes[1][2]
           h == HeaderSize(f.size)
<1>1. Len(bytes) \in Nat
  OBVIOUS
<1>2. CASE Len(bytes) < 2
  <2>1. ~DecodeFrame(bytes).complete
    BY <1>2 DEF DecodeFrame
  <2>2. ASSUME Len(bytes) > 0 PROVE ~(SizeOf(f) <= Len(bytes))
    <3>1. bytes[1] \in FrameBytes
      BY <2>2, <1>1
    <3>2. f \in Frame
      BY <3>1 DEF FrameBytes
    <3> HIDE DEF f
    <3>3. SizeOf(f) \in Nat /\ SizeOf(f) >= 2
      BY <3>2, FrameSize
    <3> QED
      BY <3>3, <1>1, <1>2
  <2> QED
    BY <2>1, <2>2
<1>3. CASE ~(Len(bytes) < 2)
  <2>1. bytes[1] \in FrameBytes
    BY <1>1, <1>3
  <2>2. f \in Frame
    BY <2>1 DEF FrameBytes
  <2>3. DecodeFrame(bytes) =
          IF Len(bytes) < h \/ Len(bytes) < h + f.size THEN [complete |-> FALSE]
          ELSE [complete |-> TRUE, payload |-> SubSeq(bytes, h + 1, h + f.size), consumed |-> h + f.size]
    BY <1>3, Zenon DEF DecodeFrame
  <2> HIDE DEF f
  <2>4. f.size \in Nat /\ h \in Nat /\ SizeOf(f) \in Nat /\ SizeOf(f) = h + f.size /\ h >= 2
    BY <2>2, FrameSize
  <2> HIDE DEF h
  <2>5. CASE SizeOf(f) <= Len(bytes)
    <3>1. ~(Len(bytes) < h \/ Len(bytes) < h + f.size)
      BY <2>4, <2>5, <1>1
    <3>2. DecodeFrame(bytes) = [complete |-> TRUE, payload |-> SubSeq(bytes, h + 1, SizeOf(f)), consumed |-> SizeOf(f)]
      BY <2>3, <2>4, <3>1
    <3>3. SubSeq(bytes, h + 1, SizeOf(f)) \in Seq(FrameBytes)
      <4>1. h + 1 \in 1..Len(bytes) + 1 /\ SizeOf(f) \in (h + 1 - 1)..Len(bytes)
        BY <2>4, <2>5, <1>1
      <4>2. \A i \in (h + 1)..SizeOf(f) : i \in 1..Len(bytes)
        BY <4>1, <1>1, <2>4
      <4> HIDE DEF FrameBytes
      <4>3. \A i \in (h + 1)..SizeOf(f) : bytes[i] \in FrameBytes
        BY <4>2, <1>1
      <4> QED
        BY <4>3, <1>1, <2>4, SubSeqProperties
    <3> DEFINE decoded == DecodeFrame(bytes)
               payload == SubSeq(bytes, h + 1, SizeOf(f))
    <3>4. decoded.complete /\ decoded.consumed = SizeOf(f) /\ decoded.payload = payload
      <4>1. decoded = [complete |-> TRUE, payload |-> payload, consumed |-> SizeOf(f)]
        BY <3>2
      <4> HIDE DEF decoded, payload
      <4> QED
        BY <4>1
    <3>5. Len(bytes) > 0
      BY <1>1, <1>3
    <3> HIDE DEF decoded, payload
    <3> QED
      BY <3>3, <3>4, <3>5, <2>2, <2>5, Zenon DEF decoded, payload, f, h
  <2>6. CASE ~(SizeOf(f) <= Len(bytes))
    <3>1. Len(bytes) < h \/ Len(bytes) < h + f.size
      BY <2>4, <2>6, <1>1
    <3> QED
      BY <2>3, <3>1, <2>6 DEF f
  <2> QED
    BY <2>5, <2>6
<1> QED
  BY <1>2, <1>3

\* What decodeFrame makes of the bytes from a place on.
LEMMA FrameAt ==
  ASSUME NEW bytes \in Seq(FrameBytes), NEW i \in 1..(Len(bytes) + 1)
  PROVE  LET rest == SubSeq(bytes, i, Len(bytes))
             f == bytes[i][2]
             decoded == DecodeFrame(rest)
         IN  /\ rest \in Seq(FrameBytes)
             /\ decoded.complete <=> i <= Len(bytes) /\ i + SizeOf(f) <= Len(bytes) + 1
             /\ decoded.complete =>
                  /\ f \in Frame /\ bytes[i] \in FrameBytes /\ decoded.consumed = SizeOf(f)
                  /\ i + SizeOf(f) \in 1..(Len(bytes) + 1) /\ i < i + SizeOf(f)
                  /\ decoded.payload \in Seq(FrameBytes) /\ Len(decoded.payload) = f.size
                  /\ \A j \in 1..f.size :
                       decoded.payload[j] = bytes[i + (HeaderSize(f.size) + j) - 1]
<1> DEFINE N == Len(bytes)
           rest == SubSeq(bytes, i, N)
           f == bytes[i][2]
           decoded == DecodeFrame(rest)
<1>1. N \in Nat /\ i \in Nat /\ 1 <= i /\ i <= N + 1
  OBVIOUS
<1>2. rest \in Seq(FrameBytes) /\ Len(rest) = N + 1 - i
      /\ \A j \in 1..(N + 1 - i) : rest[j] = bytes[i + j - 1]
  <2>1. \A j \in i..N : j \in 1..N
    BY <1>1
  <2> HIDE DEF FrameBytes
  <2>2. \A j \in i..N : bytes[j] \in FrameBytes
    BY <2>1
  <2>3. /\ rest \in Seq(FrameBytes)
        /\ Len(rest) = IF i <= N THEN N - i + 1 ELSE 0
        /\ \A j \in 1..(N - i + 1) : rest[j] = bytes[i + j - 1]
    BY <2>2, <1>1, SubSeqProperties
  <2>4. N + 1 - i = N - i + 1 /\ (~(i <= N) => N + 1 - i = 0)
    BY <1>1
  <2> HIDE DEF rest, N
  <2> QED
    BY <2>3, <2>4
<1>3. i <= N => rest[1] = bytes[i]
  <2>1. i <= N => 1 \in 1..(N + 1 - i) /\ i + 1 - 1 = i
    BY <1>1
  <2> HIDE DEF rest, N
  <2> QED
    BY <2>1, <1>2
<1> DEFINE first == rest[1][2]
<1>4. /\ decoded.complete <=> Len(rest) > 0 /\ SizeOf(first) <= Len(rest)
      /\ decoded.complete =>
           /\ first \in Frame /\ decoded.consumed = SizeOf(first)
           /\ decoded.payload = SubSeq(rest, HeaderSize(first.size) + 1, SizeOf(first))
           /\ decoded.payload \in Seq(FrameBytes)
  <2> HIDE DEF rest
  <2> QED
    BY <1>2, FrameDecoded
<1> HIDE DEF decoded
<1>5. Len(rest) > 0 <=> i <= N
  <2> HIDE DEF rest, N
  <2> QED
    BY <1>1, <1>2
<1>6. i <= N => first = f
  BY <1>3
<1> HIDE DEF first
<1>7. i <= N => f \in Frame /\ bytes[i] \in FrameBytes
  <2>1. i <= N => bytes[i] \in FrameBytes
    BY <1>1
  <2> QED
    BY <2>1 DEF FrameBytes
<1> HIDE DEF rest, f
<1>8. i <= N => SizeOf(f) \in Nat
  BY <1>7, FrameSize
<1>9. decoded.complete <=> i <= N /\ i + SizeOf(f) <= N + 1
  <2>1. i <= N => (SizeOf(f) <= N + 1 - i <=> i + SizeOf(f) <= N + 1)
    <3> HIDE DEF N
    <3> QED
      BY <1>1, <1>8
  <2> HIDE DEF N
  <2> QED
    BY <2>1, <1>2, <1>4, <1>5, <1>6
<1>10. ASSUME decoded.complete
       PROVE  /\ f \in Frame /\ bytes[i] \in FrameBytes /\ decoded.consumed = SizeOf(f)
              /\ i + SizeOf(f) \in 1..(N + 1) /\ i < i + SizeOf(f)
              /\ decoded.payload \in Seq(FrameBytes) /\ Len(decoded.payload) = f.size
              /\ \A j \in 1..f.size : decoded.payload[j] = bytes[i + (HeaderSize(f.size) + j) - 1]
  <2> DEFINE h == HeaderSize(f.size)
  <2>1. i <= N /\ i + SizeOf(f) <= N + 1
    BY <1>9, <1>10
  <2>2. f.size \in Nat /\ h \in Nat /\ SizeOf(f) \in Nat /\ SizeOf(f) = h + f.size /\ h >= 2
    BY <2>1, <1>7, FrameSize
  <2>3. decoded.payload = SubSeq(rest, h + 1, SizeOf(f)) /\ decoded.consumed = SizeOf(f)
    BY <2>1, <1>4, <1>6, <1>10
  <2> HIDE DEF h
  <2>4. i + SizeOf(f) \in 1..(N + 1) /\ i < i + SizeOf(f)
    <3> HIDE DEF N
    <3> QED
      BY <2>1, <2>2, <1>1
  <2>5. \A j \in (h + 1)..SizeOf(f) : j \in 1..Len(rest)
    <3> HIDE DEF N
    <3> QED
      BY <2>1, <2>2, <1>1, <1>2
  <2>6. \A j \in (h + 1)..SizeOf(f) : rest[j] \in FrameBytes
    <3> HIDE DEF FrameBytes
    <3> QED
      BY <2>5, <1>2
  <2>7. /\ Len(decoded.payload) = IF h + 1 <= SizeOf(f) THEN SizeOf(f) - (h + 1) + 1 ELSE 0
        /\ \A j \in 1..(SizeOf(f) - (h + 1) + 1) : decoded.payload[j] = rest[h + 1 + j - 1]
    <3> HIDE DEF FrameBytes
    <3> QED
      BY <2>2, <2>3, <2>6, SubSeqProperties
  <2>8. Len(decoded.payload) = f.size
    BY <2>2, <2>7
  <2>9. ASSUME NEW j \in 1..f.size PROVE decoded.payload[j] = bytes[i + (h + j) - 1]
    <3>1. j \in 1..(SizeOf(f) - (h + 1) + 1) /\ h + 1 + j - 1 = h + j
      BY <2>2
    <3>2. h + j \in 1..(N + 1 - i)
      <4> HIDE DEF N
      <4> QED
        BY <2>1, <2>2, <1>1
    <3>3. rest[h + j] = bytes[i + (h + j) - 1]
      BY <3>2, <1>2
    <3> QED
      BY <3>1, <3>3, <2>7
  <2> QED
    BY <2>1, <2>3, <2>4, <2>8, <2>9, <1>4, <1>7, <1>10 DEF h
<1> QED
  BY <1>2, <1>9, <1>10 DEF N, rest, f, decoded

TakenFrames == [header : FrameBytes, payload : Seq(FrameBytes)]
Takings == [frames : Seq(TakenFrames), rest : Seq(FrameBytes)]

\* What the loop of handleFrames makes of the bytes from a place on, given what it
\* makes of those after the frame that begins there.
TakingAt(bytes, from, i) ==
  LET decoded == DecodeFrame(SubSeq(bytes, i, Len(bytes))) IN
  IF ~decoded.complete THEN [frames |-> <<>>, rest |-> SubSeq(bytes, i, Len(bytes))]
  ELSE LET f == [header |-> bytes[i], payload |-> decoded.payload]
           next == i + decoded.consumed
       IN  IF f.header[2].opcode = "close"
           THEN [frames |-> <<f>>, rest |-> SubSeq(bytes, next, Len(bytes))]
           ELSE [from[next] EXCEPT !.frames = <<f>> \o @]

\* The frame that begins at a place is taken before what follows it.
LEMMA TakingFrame ==
  ASSUME NEW bytes \in Seq(FrameBytes), NEW i \in 1..(Len(bytes) + 1), NEW from,
         DecodeFrame(SubSeq(bytes, i, Len(bytes))).complete
  PROVE  LET f == bytes[i][2]
             got == [header |-> bytes[i], payload |-> DecodeFrame(SubSeq(bytes, i, Len(bytes))).payload]
             next == i + SizeOf(f)
         IN  /\ got \in TakenFrames
             /\ f.opcode = "close" =>
                  TakingAt(bytes, from, i) = [frames |-> <<got>>, rest |-> SubSeq(bytes, next, Len(bytes))]
             /\ f.opcode # "close" /\ from[next] \in Takings =>
                  TakingAt(bytes, from, i) = [frames |-> <<got>> \o from[next].frames, rest |-> from[next].rest]
<1> DEFINE decoded == DecodeFrame(SubSeq(bytes, i, Len(bytes)))
           f == bytes[i][2]
           got == [header |-> bytes[i], payload |-> decoded.payload]
           next == i + SizeOf(f)
<1>1. bytes[i] \in FrameBytes /\ decoded.consumed = SizeOf(f) /\ decoded.payload \in Seq(FrameBytes)
  BY FrameAt
<1>2. TakingAt(bytes, from, i) =
        IF f.opcode = "close" THEN [frames |-> <<got>>, rest |-> SubSeq(bytes, next, Len(bytes))]
        ELSE [from[next] EXCEPT !.frames = <<got>> \o @]
  <2>1. got.header[2] = f
    OBVIOUS
  <2>2. TakingAt(bytes, from, i) =
          IF got.header[2].opcode = "close"
          THEN [frames |-> <<got>>, rest |-> SubSeq(bytes, i + decoded.consumed, Len(bytes))]
          ELSE [from[i + decoded.consumed] EXCEPT !.frames = <<got>> \o @]
    BY Zenon DEF TakingAt
  <2> HIDE DEF decoded, got, f
  <2> QED
    BY <2>1, <2>2, <1>1
<1>3. got \in TakenFrames
  <2> HIDE DEF decoded, FrameBytes
  <2> QED
    BY <1>1 DEF TakenFrames
<1> HIDE DEF decoded, f, next, got
<1>4. ASSUME f.opcode # "close", from[next] \in Takings
      PROVE  TakingAt(bytes, from, i) = [frames |-> <<got>> \o from[next].frames, rest |-> from[next].rest]
  <2>1. TakingAt(bytes, from, i) = [from[next] EXCEPT !.frames = <<got>> \o @]
    BY <1>2, <1>4
  <2> HIDE DEF TakingAt
  <2> DEFINE r == from[next]
             a == <<got>> \o r.frames
  <2>2. r = [frames |-> r.frames, rest |-> r.rest]
    BY <1>4 DEF Takings
  <2>3. [r EXCEPT !.frames = <<got>> \o @] = [r EXCEPT !.frames = a]
    OBVIOUS
  <2> HIDE DEF a, r
  <2>4. [r EXCEPT !.frames = a] = [frames |-> a, rest |-> r.rest]
    BY <2>2
  <2> QED
    BY <2>1, <2>3, <2>4 DEF a, r
<1> QED
  BY <1>2, <1>3, <1>4 DEF decoded, f, next, got

\* and what is taken are frames, and bytes that are left.
LEMMA TakingType ==
  ASSUME NEW bytes \in Seq(FrameBytes), NEW i \in 1..(Len(bytes) + 1),
         NEW from, \A j \in 1..(Len(bytes) + 1) : j > i => from[j] \in Takings
  PROVE  TakingAt(bytes, from, i) \in Takings
<1> DEFINE decoded == DecodeFrame(SubSeq(bytes, i, Len(bytes)))
           f == bytes[i][2]
           got == [header |-> bytes[i], payload |-> decoded.payload]
           next == i + SizeOf(f)
<1>1. SubSeq(bytes, i, Len(bytes)) \in Seq(FrameBytes)
  BY FrameAt
<1>2. CASE ~decoded.complete
  <2>1. TakingAt(bytes, from, i) = [frames |-> <<>>, rest |-> SubSeq(bytes, i, Len(bytes))]
    BY <1>2, Zenon DEF TakingAt
  <2>2. <<>> \in Seq(TakenFrames)
    OBVIOUS
  <2> QED
    BY <2>1, <2>2, <1>1 DEF Takings
<1>3. CASE decoded.complete
  <2>1. next \in 1..(Len(bytes) + 1) /\ i < next
    BY <1>3, FrameAt
  <2>2. SubSeq(bytes, next, Len(bytes)) \in Seq(FrameBytes)
    <3> HIDE DEF next
    <3> QED
      BY <2>1, FrameAt
  <2>3. from[next] \in Takings
    <3> HIDE DEF next
    <3>1. next > i
      BY <2>1
    <3> QED
      BY <2>1, <3>1
  <2>4. /\ got \in TakenFrames
        /\ f.opcode = "close" =>
             TakingAt(bytes, from, i) = [frames |-> <<got>>, rest |-> SubSeq(bytes, next, Len(bytes))]
        /\ f.opcode # "close" =>
             TakingAt(bytes, from, i) = [frames |-> <<got>> \o from[next].frames, rest |-> from[next].rest]
    BY <1>3, <2>3, TakingFrame
  <2> HIDE DEF got, f, next, decoded
  <2>5. <<got>> \in Seq(TakenFrames)
    BY <2>4
  <2>6. from[next].frames \in Seq(TakenFrames) /\ from[next].rest \in Seq(FrameBytes)
    BY <2>3 DEF Takings
  <2>7. <<got>> \o from[next].frames \in Seq(TakenFrames)
    BY <2>5, <2>6, ConcatProperties
  <2> HIDE DEF TakingAt
  <2>8. CASE f.opcode = "close"
    <3>1. [frames |-> <<got>>, rest |-> SubSeq(bytes, next, Len(bytes))] \in Takings
      BY <2>2, <2>5 DEF Takings
    <3> QED
      BY <3>1, <2>4, <2>8, Zenon
  <2>9. CASE f.opcode # "close"
    <3>1. [frames |-> <<got>> \o from[next].frames, rest |-> from[next].rest] \in Takings
      BY <2>6, <2>7 DEF Takings
    <3> QED
      BY <3>1, <2>4, <2>9, Zenon
  <2> QED
    BY <2>8, <2>9
<1> QED
  BY <1>2, <1>3

LEMMA TakeFramesFrom ==
  ASSUME NEW bytes \in Seq(FrameBytes)
  PROVE  \E from \in [1..(Len(bytes) + 1) -> Takings] :
           /\ TakeFrames(bytes) = from[1]
           /\ \A i \in 1..(Len(bytes) + 1) : from[i] = TakingAt(bytes, from, i)
<1> DEFINE N == Len(bytes) + 1
           D == 1..N
           from == CHOOSE from : from = [i \in D |-> TakingAt(bytes, from, i)]
           rank == [i \in D |-> N - i]
           empty == [frames |-> <<>>, rest |-> <<>>]
           Step == [g \in [D -> Takings] |-> [i \in D |-> TakingAt(bytes, g, i)]]
<1>1. N \in Nat /\ N >= 1
  OBVIOUS
<1>2. TakeFrames(bytes) = from[1]
  BY Zenon DEF TakeFrames, TakingAt
<1>3. rank \in [D -> 0..N] /\ \A i \in D : rank[i] = N - i
  <2> HIDE DEF N
  <2> QED
    BY <1>1
<1>4. \A g \in [D -> Takings] : \A i \in D : TakingAt(bytes, g, i) \in Takings
  <2> SUFFICES ASSUME NEW g \in [D -> Takings], NEW i \in D PROVE TakingAt(bytes, g, i) \in Takings
    OBVIOUS
  <2>1. \A j \in 1..(Len(bytes) + 1) : j > i => g[j] \in Takings
    OBVIOUS
  <2>2. i \in 1..(Len(bytes) + 1)
    OBVIOUS
  <2> HIDE DEF D, N
  <2> QED
    BY <2>1, <2>2, TakingType
<1>5. Step \in [[D -> Takings] -> [D -> Takings]]
  <2> HIDE DEF D
  <2> QED
    BY <1>4
<1>6. ASSUME NEW g \in [D -> Takings], NEW h \in [D -> Takings], NEW i \in D,
             \A j \in D : rank[j] < rank[i] => g[j] = h[j]
      PROVE  TakingAt(bytes, g, i) = TakingAt(bytes, h, i)
  <2> DEFINE complete == DecodeFrame(SubSeq(bytes, i, Len(bytes))).complete
             next == i + SizeOf(bytes[i][2])
  <2>1. CASE ~complete
    BY <2>1, Zenon DEF TakingAt
  <2>2. CASE complete
    <3>1. next \in D /\ i < next
      BY <2>2, FrameAt
    <3>2. g[next] = h[next]
      <4> HIDE DEF next
      <4>1. N - next < N - i
        <5> HIDE DEF N
        <5> QED
          BY <3>1, <1>1
      <4>2. rank[next] < rank[i]
        <5> HIDE DEF rank, N
        <5> QED
          BY <4>1, <3>1, <1>3
      <4> HIDE DEF rank, N
      <4> QED
        BY <3>1, <4>2, <1>6
    <3>3. g[next] \in Takings /\ h[next] \in Takings
      <4> HIDE DEF next, D
      <4> QED
        BY <3>1
    <3> DEFINE f == bytes[i][2]
               got == [header |-> bytes[i], payload |-> DecodeFrame(SubSeq(bytes, i, Len(bytes))).payload]
    <3>4. /\ f.opcode = "close" =>
               TakingAt(bytes, g, i) = [frames |-> <<got>>, rest |-> SubSeq(bytes, next, Len(bytes))]
          /\ f.opcode # "close" =>
               TakingAt(bytes, g, i) = [frames |-> <<got>> \o g[next].frames, rest |-> g[next].rest]
      BY <2>2, <3>3, TakingFrame
    <3>5. /\ f.opcode = "close" =>
               TakingAt(bytes, h, i) = [frames |-> <<got>>, rest |-> SubSeq(bytes, next, Len(bytes))]
          /\ f.opcode # "close" =>
               TakingAt(bytes, h, i) = [frames |-> <<got>> \o h[next].frames, rest |-> h[next].rest]
      BY <2>2, <3>3, TakingFrame
    <3> HIDE DEF f, got, next, D
    <3> QED
      BY <3>2, <3>4, <3>5, Zenon
  <2> QED
    BY <2>1, <2>2
<1>7. \A g, h \in [D -> Takings] : \A i \in D :
        (\A j \in D : rank[j] < rank[i] => g[j] = h[j]) => Step[g][i] = Step[h][i]
  <2> HIDE DEF rank, D
  <2> QED
    BY <1>6
<1>8. \E f : Solves(f, D, Takings, Step)
  <2>1. empty \in Takings
    BY DEF Takings
  <2>2. Takings # {}
    <3> HIDE DEF empty
    <3> QED
      BY <2>1
  <2> HIDE DEF D, N, rank, Step
  <2>3. N \in Nat
    BY <1>1
  <2>4. rank \in [D -> 0..N]
    BY <1>3
  <2> QED
    BY <1>5, <1>7, <2>2, <2>3, <2>4, RecursionDefines
<1>9. from = [i \in D |-> TakingAt(bytes, from, i)]
  <2> HIDE DEF D
  <2>1. PICK g \in [D -> Takings] : g = [i \in D |-> TakingAt(bytes, g, i)]
    BY <1>8 DEF Solves
  <2> QED
    BY <2>1, Zenon
<1> HIDE DEF from
<1>10. \A i \in D : from[i] = TakingAt(bytes, from, i)
  <2> HIDE DEF D
  <2> QED
    BY <1>9
<1> DEFINE T == {i \in D : from[i] \in Takings}
<1>11. D \subseteq T
  <2>1. ASSUME NEW i \in D, \A j \in D : rank[j] < rank[i] => j \in T
        PROVE  from[i] \in Takings
    <3>1. \A j \in 1..(Len(bytes) + 1) : j > i => from[j] \in Takings
      <4> SUFFICES ASSUME NEW j \in D, j > i PROVE from[j] \in Takings
        OBVIOUS
      <4>1. N - j < N - i
        <5> HIDE DEF N
        <5> QED
          BY <1>1
      <4>2. rank[j] < rank[i]
        <5> HIDE DEF rank, N
        <5> QED
          BY <4>1, <1>3
      <4> HIDE DEF rank, D
      <4> QED
        BY <4>2, <2>1
    <3>2. i \in 1..(Len(bytes) + 1)
      OBVIOUS
    <3> HIDE DEF D, N, rank, T
    <3>3. TakingAt(bytes, from, i) \in Takings
      BY <3>1, <3>2, TakingType
    <3> QED
      BY <3>3, <1>10
  <2>2. \A i \in D : (\A j \in D : rank[j] < rank[i] => j \in T) => i \in T
    <3> HIDE DEF D, rank
    <3> QED
      BY <2>1
  <2> HIDE DEF D, N, rank, T, Step, empty
  <2>3. N \in Nat
    BY <1>1
  <2>4. rank \in [D -> 0..N]
    BY <1>3
  <2> QED
    BY <2>2, <2>3, <2>4, RecursionReaches
<1>12. from \in [D -> Takings]
  <2>1. \A i \in D : from[i] \in Takings
    BY <1>11
  <2> HIDE DEF D
  <2>2. DOMAIN from = D /\ from = [i \in DOMAIN from |-> from[i]]
    BY <1>9
  <2> QED
    BY <2>1, <2>2
<1> QED
  BY <1>2, <1>10, <1>12

\* Bytes that are frames, one after the other; the places are where they end.
EndsOf(ends, bytes, sent) ==
  /\ ends \in [0..Len(sent) -> Nat] /\ ends[0] = 0 /\ ends[Len(sent)] = Len(bytes)
  /\ \A k \in 1..Len(sent) :
       /\ ends[k] = ends[k - 1] + SizeOf(sent[k])
       /\ \A i \in 1..SizeOf(sent[k]) : bytes[ends[k - 1] + i] = <<i, sent[k]>>

Laid(bytes, sent) ==
  bytes \in Seq(FrameBytes) /\ sent \in Seq(Frame) /\ \E ends : EndsOf(ends, bytes, sent)

\* The end of a sequence.
LEMMA AfterPlace ==
  ASSUME NEW S, NEW s \in Seq(S), NEW n \in 0..Len(s)
  PROVE  /\ SubSeq(s, n + 1, Len(s)) \in Seq(S) /\ Len(SubSeq(s, n + 1, Len(s))) = Len(s) - n
         /\ \A i \in 1..(Len(s) - n) : SubSeq(s, n + 1, Len(s))[i] = s[n + i]
<1> DEFINE L == Len(s)
           r == SubSeq(s, n + 1, L)
<1>1. L \in Nat /\ n \in Nat /\ n <= L
  OBVIOUS
<1>2. \A i \in (n + 1)..L : s[i] \in S
  BY <1>1
<1> HIDE DEF L
<1>3. r \in Seq(S) /\ Len(r) = (IF n + 1 <= L THEN L - (n + 1) + 1 ELSE 0)
      /\ \A i \in 1..(L - (n + 1) + 1) : r[i] = s[n + 1 + i - 1]
  <2> DEFINE m == n + 1
  <2>1. m \in Int /\ L \in Int /\ \A i \in m..L : s[i] \in S
    BY <1>1, <1>2
  <2> HIDE DEF m
  <2>2. /\ SubSeq(s, m, L) \in Seq(S)
        /\ Len(SubSeq(s, m, L)) = IF m <= L THEN L - m + 1 ELSE 0
        /\ \A i \in 1..(L - m + 1) : SubSeq(s, m, L)[i] = s[m + i - 1]
    BY <2>1, SubSeqProperties
  <2> QED
    BY <2>2, Zenon DEF m
<1> HIDE DEF r
<1>4. L - (n + 1) + 1 = L - n /\ (IF n + 1 <= L THEN L - (n + 1) + 1 ELSE 0) = L - n
  BY <1>1
<1>5. ASSUME NEW i \in 1..(L - n) PROVE r[i] = s[n + i]
  <2>1. n + 1 + i - 1 = n + i
    BY <1>1
  <2> QED
    BY <2>1, <1>3, <1>4
<1> QED
  BY <1>3, <1>4, <1>5 DEF r, L

\* Differences of places.
LEMMA Apart ==
  ASSUME NEW x \in Nat, NEW y \in Nat, NEW z \in Nat, NEW n \in Nat, x = y + n, z <= y,
         NEW most \in Nat, x <= most
  PROVE  /\ x - z = (y - z) + n
         /\ \A i \in 1..n : (y - z) + i \in 1..(most - z) /\ z + ((y - z) + i) = y + i
OBVIOUS

LEMMA EndsRise ==
  ASSUME NEW bytes \in Seq(FrameBytes), NEW sent \in Seq(Frame), NEW ends, EndsOf(ends, bytes, sent)
  PROVE  /\ \A k \in 0..Len(sent) : ends[k] \in Nat /\ ends[k] <= Len(bytes)
         /\ \A k \in 1..Len(sent) : ends[k - 1] \in Nat /\ ends[k - 1] + 2 <= ends[k]
         /\ \A j, k \in 0..Len(sent) : j <= k => ends[j] <= ends[k]
<1>1. Len(sent) \in Nat /\ Len(bytes) \in Nat /\ \A k \in 1..Len(sent) : sent[k] \in Frame
  OBVIOUS
<1>2. \A k \in 0..Len(sent) : ends[k] \in Nat
  BY DEF EndsOf
<1>3. ASSUME NEW k \in 1..Len(sent) PROVE ends[k - 1] \in Nat /\ ends[k - 1] + 2 <= ends[k]
  <2>1. k - 1 \in 0..Len(sent) /\ k \in 0..Len(sent)
    BY <1>1
  <2>2. SizeOf(sent[k]) \in Nat /\ SizeOf(sent[k]) >= 2
    <3>1. sent[k] \in Frame
      BY <1>1
    <3> QED
      BY <3>1, FramesTakeBytes, Zenon
  <2>3. ends[k] = ends[k - 1] + SizeOf(sent[k])
    BY DEF EndsOf
  <2>4. ends[k - 1] \in Nat
    BY <1>2, <2>1
  <2> QED
    BY <2>2, <2>3, <2>4
<1>4. ASSUME NEW j \in 0..Len(sent) PROVE \A k \in 0..Len(sent) : j <= k => ends[j] <= ends[k]
  <2> DEFINE S == {n \in Nat : j + n <= Len(sent) => ends[j] <= ends[j + n]}
  <2>1. 0 \in S
    BY <1>1, <1>2
  <2>2. ASSUME NEW n \in Nat, n \in S PROVE n + 1 \in S
    <3> SUFFICES ASSUME j + (n + 1) <= Len(sent) PROVE ends[j] <= ends[j + (n + 1)]
      OBVIOUS
    <3>1. j + (n + 1) \in 1..Len(sent) /\ (j + (n + 1)) - 1 = j + n /\ j + n <= Len(sent)
          /\ j + n \in 0..Len(sent)
      BY <1>1
    <3>2. ends[j + n] + 2 <= ends[j + (n + 1)]
      BY <3>1, <1>3
    <3>3. ends[j] <= ends[j + n]
      BY <3>1, <2>2
    <3>4. ends[j] \in Nat /\ ends[j + n] \in Nat /\ ends[j + (n + 1)] \in Nat
      BY <3>1, <1>2
    <3> QED
      BY <3>2, <3>3, <3>4
  <2>3. Nat \subseteq S
    <3> HIDE DEF S
    <3> QED
      BY <2>1, <2>2, EveryNumber
  <2> SUFFICES ASSUME NEW k \in 0..Len(sent), j <= k PROVE ends[j] <= ends[k]
    OBVIOUS
  <2>4. k - j \in Nat /\ j + (k - j) = k /\ k <= Len(sent)
    BY <1>1
  <2>5. k - j \in S
    <3> HIDE DEF S
    <3> QED
      BY <2>3, <2>4
  <2> QED
    BY <2>4, <2>5
<1>5. \A k \in 0..Len(sent) : ends[k] <= Len(bytes)
  <2>1. Len(sent) \in 0..Len(sent) /\ ends[Len(sent)] = Len(bytes)
    BY <1>1 DEF EndsOf
  <2>2. \A k \in 0..Len(sent) : k <= Len(sent)
    BY <1>1
  <2> QED
    BY <2>1, <2>2, <1>4
<1> QED
  BY <1>2, <1>3, <1>4, <1>5

\* What is left when some frames are taken is laid out too.
LEMMA LaidRest ==
  ASSUME NEW bytes \in Seq(FrameBytes), NEW sent \in Seq(Frame), NEW ends, EndsOf(ends, bytes, sent),
         NEW k \in 0..Len(sent)
  PROVE  Laid(SubSeq(bytes, ends[k] + 1, Len(bytes)), SubSeq(sent, k + 1, Len(sent)))
<1> DEFINE b == SubSeq(bytes, ends[k] + 1, Len(bytes))
           s == SubSeq(sent, k + 1, Len(sent))
           N == Len(sent) - k
           e == [j \in 0..N |-> ends[k + j] - ends[k]]
<1>1. Len(sent) \in Nat /\ Len(bytes) \in Nat /\ k \in Nat /\ k <= Len(sent)
  OBVIOUS
<1>2. /\ \A j \in 0..Len(sent) : ends[j] \in Nat /\ ends[j] <= Len(bytes)
      /\ \A j \in 0..Len(sent) : k <= j => ends[k] <= ends[j]
  BY EndsRise
<1>3. ends[k] \in Nat /\ ends[k] <= Len(bytes)
  BY <1>2
<1>4. b \in Seq(FrameBytes) /\ Len(b) = Len(bytes) - ends[k]
      /\ \A i \in 1..(Len(bytes) - ends[k]) : b[i] = bytes[ends[k] + i]
  <2> HIDE DEF FrameBytes
  <2>1. ends[k] \in 0..Len(bytes)
    BY <1>1, <1>3
  <2> QED
    BY <2>1, AfterPlace
<1>5. s \in Seq(Frame) /\ Len(s) = N /\ \A i \in 1..N : s[i] = sent[k + i]
  <2> HIDE DEF Frame
  <2> QED
    BY AfterPlace
<1> HIDE DEF b, s
<1>6. ASSUME NEW j \in 0..N
      PROVE  k + j \in 0..Len(sent) /\ e[j] = ends[k + j] - ends[k] /\ e[j] \in Nat
  <2>1. k + j \in 0..Len(sent) /\ k <= k + j
    BY <1>1
  <2>2. ends[k] <= ends[k + j] /\ ends[k + j] \in Nat
    BY <2>1, <1>2
  <2> QED
    BY <2>1, <2>2, <1>3
<1>7. e \in [0..N -> Nat] /\ e[0] = 0 /\ e[N] = Len(b)
  <2>1. 0 \in 0..N /\ N \in 0..N /\ k + 0 = k /\ k + N = Len(sent)
    BY <1>1
  <2>2. e[0] = ends[k] - ends[k] /\ e[N] = ends[Len(sent)] - ends[k]
    BY <2>1, <1>6
  <2>3. ends[Len(sent)] = Len(bytes)
    BY DEF EndsOf
  <2> HIDE DEF N
  <2>4. e \in [0..N -> Nat]
    BY <1>6
  <2> HIDE DEF e
  <2> QED
    BY <2>2, <2>3, <2>4, <1>3, <1>4
<1>8. ASSUME NEW j \in 1..N
      PROVE  /\ e[j] = e[j - 1] + SizeOf(s[j])
             /\ \A i \in 1..SizeOf(s[j]) : b[e[j - 1] + i] = <<i, s[j]>>
  <2> DEFINE f == sent[k + j]
  <2>1. k + j \in 1..Len(sent) /\ k + j - 1 = k + (j - 1) /\ j \in 0..N /\ j - 1 \in 0..N
    BY <1>1
  <2>2. f \in Frame
    BY <2>1
  <2>3. s[j] = f
    BY <1>5
  <2>4. ends[k + j] = ends[k + (j - 1)] + SizeOf(f)
        /\ \A i \in 1..SizeOf(f) : bytes[ends[k + (j - 1)] + i] = <<i, f>>
    <3> DEFINE p == k + j
    <3>1. p \in 1..Len(sent) /\ p - 1 = k + (j - 1)
      BY <2>1
    <3> HIDE DEF p
    <3>2. ends[p] = ends[p - 1] + SizeOf(sent[p])
          /\ \A i \in 1..SizeOf(sent[p]) : bytes[ends[p - 1] + i] = <<i, sent[p]>>
      BY <3>1, Zenon DEF EndsOf
    <3> QED
      BY <3>1, <3>2, Zenon DEF p
  <2>5. /\ e[j] = ends[k + j] - ends[k] /\ e[j - 1] = ends[k + (j - 1)] - ends[k]
        /\ e[j] \in Nat /\ e[j - 1] \in Nat
    BY <2>1, <1>6
  <2>6. /\ ends[k + j] \in Nat /\ ends[k + (j - 1)] \in Nat /\ ends[k + j] <= Len(bytes)
    BY <2>1, <1>2, <1>6
  <2> HIDE DEF e, N, f
  <2>7. SizeOf(f) \in Nat
    BY <2>2, FrameSize
  <2>8. /\ e[j] = e[j - 1] + SizeOf(f)
        /\ \A i \in 1..SizeOf(f) : /\ e[j - 1] + i \in 1..(Len(bytes) - ends[k])
                                   /\ ends[k] + (e[j - 1] + i) = ends[k + (j - 1)] + i
    <3>1. ends[k] <= ends[k + (j - 1)]
      <4>1. k + (j - 1) \in 0..Len(sent) /\ k <= k + (j - 1)
        BY <2>1, <1>1, <1>6
      <4> QED
        BY <4>1, <1>2
    <3> DEFINE x == ends[k + j]
               y == ends[k + (j - 1)]
               z == ends[k]
               most == Len(bytes)
               n == SizeOf(f)
    <3>2. /\ x \in Nat /\ y \in Nat /\ z \in Nat /\ n \in Nat /\ most \in Nat
          /\ x = y + n /\ z <= y /\ x <= most /\ e[j] = x - z /\ e[j - 1] = y - z
      BY <3>1, <2>4, <2>5, <2>6, <2>7, <1>1, <1>3
    <3> HIDE DEF x, y, z, n, most
    <3>3. /\ x - z = (y - z) + n
          /\ \A i \in 1..n : (y - z) + i \in 1..(most - z) /\ z + ((y - z) + i) = y + i
      BY <3>2, Apart
    <3>4. /\ e[j] = e[j - 1] + n
          /\ \A i \in 1..n : e[j - 1] + i \in 1..(most - z) /\ z + (e[j - 1] + i) = y + i
      BY <3>2, <3>3, Zenon
    <3> QED
      BY <3>4, Zenon DEF y, z, n, most
  <2>9. ASSUME NEW i \in 1..SizeOf(f) PROVE b[e[j - 1] + i] = <<i, f>>
    <3>1. e[j - 1] + i \in 1..(Len(bytes) - ends[k]) /\ ends[k] + (e[j - 1] + i) = ends[k + (j - 1)] + i
      BY <2>8
    <3>2. b[e[j - 1] + i] = bytes[ends[k] + (e[j - 1] + i)]
      BY <3>1, <1>4
    <3> QED
      BY <3>1, <3>2, <2>4
  <2> QED
    BY <2>3, <2>8, <2>9
<1>9. EndsOf(e, b, s)
  <2> HIDE DEF e, N
  <2> QED
    BY <1>5, <1>7, <1>8 DEF EndsOf
<1> HIDE DEF e
<1> QED
  BY <1>4, <1>5, <1>9 DEF Laid, b, s

\* The beginning and the rest of bytes that are cut.
LEMMA Prefix ==
  ASSUME NEW S, NEW s \in Seq(S), NEW m \in 0..Len(s)
  PROVE  /\ SubSeq(s, 1, m) \in Seq(S) /\ Len(SubSeq(s, 1, m)) = m
         /\ \A i \in 1..m : SubSeq(s, 1, m)[i] = s[i]
<1>1. Len(s) \in Nat /\ m \in Nat /\ m <= Len(s)
  OBVIOUS
<1>2. \A i \in 1..m : s[i] \in S
  BY <1>1
<1>3. SubSeq(s, 1, m) \in Seq(S) /\ Len(SubSeq(s, 1, m)) = (IF 1 <= m THEN m - 1 + 1 ELSE 0)
      /\ \A i \in 1..(m - 1 + 1) : SubSeq(s, 1, m)[i] = s[1 + i - 1]
  BY <1>1, <1>2, SubSeqProperties
<1> DEFINE p == SubSeq(s, 1, m)
<1> HIDE DEF p
<1>4. Len(p) = m /\ \A i \in 1..m : p[i] = s[i]
  <2>1. m - 1 + 1 = m /\ (IF 1 <= m THEN m - 1 + 1 ELSE 0) = m /\ \A i \in 1..m : 1 + i - 1 = i
    BY <1>1
  <2> QED
    BY <2>1, <1>3 DEF p
<1> QED
  BY <1>3, <1>4 DEF p

LEMMA SameSequence ==
  ASSUME NEW S, NEW T, NEW s \in Seq(S), NEW t \in Seq(T), NEW n \in Nat, Len(s) = n, Len(t) = n,
         \A i \in 1..n : s[i] = t[i]
  PROVE  s = t
<1>1. DOMAIN s = 1..n /\ DOMAIN t = 1..n /\ s = [i \in DOMAIN s |-> s[i]] /\ t = [i \in DOMAIN t |-> t[i]]
  OBVIOUS
<1> QED
  BY <1>1

\* What is cut off and put together again.
LEMMA RestRejoined ==
  ASSUME NEW S, NEW s \in Seq(S), NEW m \in 0..Len(s), NEW n \in 0..m
  PROVE  SubSeq(SubSeq(s, 1, m), n + 1, m) \o SubSeq(s, m + 1, Len(s)) = SubSeq(s, n + 1, Len(s))
<1> DEFINE L == Len(s)
           p == SubSeq(s, 1, m)
           a == SubSeq(p, n + 1, m)
           b == SubSeq(s, m + 1, L)
           c == SubSeq(s, n + 1, L)
<1>1. L \in Nat /\ m \in Nat /\ n \in Nat /\ n <= m /\ m <= L
  OBVIOUS
<1>2. p \in Seq(S) /\ Len(p) = m /\ \A i \in 1..m : p[i] = s[i]
  BY Prefix
<1>3. a \in Seq(S) /\ Len(a) = m - n /\ \A i \in 1..(m - n) : a[i] = p[n + i]
  <2> HIDE DEF p
  <2>1. n \in 0..Len(p)
    BY <1>2
  <2>2. LET r == SubSeq(p, n + 1, Len(p))
        IN  r \in Seq(S) /\ Len(r) = Len(p) - n /\ \A i \in 1..(Len(p) - n) : r[i] = p[n + i]
    BY <2>1, <1>2, AfterPlace
  <2> QED
    BY <2>2, <1>2
<1>4. b \in Seq(S) /\ Len(b) = L - m /\ \A i \in 1..(L - m) : b[i] = s[m + i]
  BY AfterPlace
<1>5. c \in Seq(S) /\ Len(c) = L - n /\ \A i \in 1..(L - n) : c[i] = s[n + i]
  <2>1. n \in 0..Len(s)
    BY <1>1
  <2> QED
    BY <2>1, AfterPlace
<1> HIDE DEF L, p, a, b, c
<1>6. a \o b \in Seq(S) /\ Len(a \o b) = Len(a) + Len(b)
      /\ \A i \in 1..(Len(a) + Len(b)) : (a \o b)[i] = IF i <= Len(a) THEN a[i] ELSE b[i - Len(a)]
  BY <1>3, <1>4, ConcatProperties
<1>7. Len(a) + Len(b) = L - n
  BY <1>1, <1>3, <1>4
<1>8. ASSUME NEW i \in 1..(L - n) PROVE (a \o b)[i] = c[i]
  <2>1. (a \o b)[i] = IF i <= m - n THEN a[i] ELSE b[i - (m - n)]
    BY <1>3, <1>6, <1>7
  <2>2. CASE i <= m - n
    <3>1. i \in 1..(m - n) /\ n + i \in 1..m
      BY <2>2, <1>1
    <3> QED
      BY <2>1, <2>2, <3>1, <1>2, <1>3, <1>5
  <2>3. CASE ~(i <= m - n)
    <3>1. i - (m - n) \in 1..(L - m) /\ m + (i - (m - n)) = n + i
      BY <2>3, <1>1
    <3>2. b[i - (m - n)] = s[n + i]
      BY <3>1, <1>4
    <3> QED
      BY <2>1, <2>3, <3>2, <1>5
  <2> QED
    BY <2>2, <2>3
<1>9. a \o b = c
  <2>1. L - n \in Nat /\ Len(a \o b) = L - n
    BY <1>1, <1>6, <1>7
  <2> QED
    BY <2>1, <1>5, <1>6, <1>8, SameSequence, SMTT(40)
<1> QED
  BY <1>9 DEF p, a, b, c, L

Whole(f) == [header |-> <<1, f>>, payload |-> Payload(f)]
Wholes(sent, first, n) == [j \in 1..n |-> Whole(sent[first + j])]

LEMMA WholesJoin ==
  ASSUME NEW sent \in Seq(Frame), NEW k \in Nat, NEW n \in Nat, k + 1 + n <= Len(sent)
  PROVE  /\ Wholes(sent, k + 1, n) \in Seq(TakenFrames)
         /\ <<Whole(sent[k + 1])>> \o Wholes(sent, k + 1, n) = Wholes(sent, k, n + 1)
<1> DEFINE a == <<Whole(sent[k + 1])>>
           b == Wholes(sent, k + 1, n)
           c == Wholes(sent, k, n + 1)
<1>1. Len(sent) \in Nat
  OBVIOUS
<1>2. \A i \in 1..Len(sent) : Whole(sent[i]) \in TakenFrames
  <2> SUFFICES ASSUME NEW i \in 1..Len(sent) PROVE Whole(sent[i]) \in TakenFrames
    OBVIOUS
  <2>1. sent[i] \in Frame
    OBVIOUS
  <2>2. Payload(sent[i]) \in Seq(FrameBytes)
    BY <2>1, EncodedFrame
  <2>3. <<1, sent[i]>> \in FrameBytes
    BY <2>1 DEF FrameBytes
  <2> HIDE DEF FrameBytes
  <2> QED
    BY <2>2, <2>3 DEF Whole, TakenFrames
<1>3. b \in Seq(TakenFrames) /\ Len(b) = n /\ \A j \in 1..n : b[j] = Whole(sent[k + 1 + j])
  <2>1. \A j \in 1..n : k + 1 + j \in 1..Len(sent)
    BY <1>1
  <2>2. \A j \in 1..n : Whole(sent[k + 1 + j]) \in TakenFrames
    BY <2>1, <1>2
  <2> QED
    BY <2>2 DEF Wholes
<1>4. c \in Seq(TakenFrames) /\ Len(c) = n + 1 /\ \A j \in 1..(n + 1) : c[j] = Whole(sent[k + j])
  <2>1. \A j \in 1..(n + 1) : k + j \in 1..Len(sent)
    BY <1>1
  <2>2. \A j \in 1..(n + 1) : Whole(sent[k + j]) \in TakenFrames
    BY <2>1, <1>2
  <2> QED
    BY <2>2 DEF Wholes
<1>5. a \in Seq(TakenFrames) /\ Len(a) = 1 /\ a[1] = Whole(sent[k + 1])
  <2>1. k + 1 \in 1..Len(sent)
    BY <1>1
  <2>2. Whole(sent[k + 1]) \in TakenFrames
    BY <2>1, <1>2
  <2> QED
    BY <2>2
<1> HIDE DEF a, b, c
<1>6. a \o b \in Seq(TakenFrames) /\ Len(a \o b) = Len(a) + Len(b)
      /\ \A i \in 1..(Len(a) + Len(b)) : (a \o b)[i] = IF i <= Len(a) THEN a[i] ELSE b[i - Len(a)]
  BY <1>3, <1>5, ConcatProperties
<1>7. Len(a) + Len(b) = n + 1
  BY <1>3, <1>5
<1>8. ASSUME NEW i \in 1..(n + 1) PROVE (a \o b)[i] = c[i]
  <2>1. (a \o b)[i] = IF i <= 1 THEN a[i] ELSE b[i - 1]
    BY <1>5, <1>6, <1>7
  <2>2. CASE i = 1
    BY <2>1, <2>2, <1>4, <1>5
  <2>3. CASE i # 1
    <3>1. ~(i <= 1) /\ i - 1 \in 1..n /\ k + 1 + (i - 1) = k + i
      BY <2>3
    <3>2. b[i - 1] = Whole(sent[k + i])
      BY <3>1, <1>3
    <3> QED
      BY <2>1, <3>1, <3>2, <1>4
  <2> QED
    BY <2>2, <2>3
<1>9. a \o b = c
  <2> DEFINE w == a \o b
             N == n + 1
  <2>1. N \in Nat /\ Len(w) = N /\ Len(c) = N /\ w \in Seq(TakenFrames) /\ \A i \in 1..N : w[i] = c[i]
    BY <1>4, <1>6, <1>7, <1>8
  <2> HIDE DEF w, N
  <2>2. w = c
    BY <2>1, <1>4, SameSequence
  <2> QED
    BY <2>2 DEF w
<1> QED
  BY <1>3, <1>9 DEF a, b, c

CloseLast(sent) == \A k \in 1..Len(sent) : sent[k].opcode = "close" => k = Len(sent)

\* Of frames laid out one after the other and cut at m, those that end up to there
\* are taken, whole and in order, and the bytes after them are kept.
LEMMA TakenWhole ==
  ASSUME NEW bytes \in Seq(FrameBytes), NEW sent \in Seq(Frame), NEW ends, EndsOf(ends, bytes, sent),
         CloseLast(sent), NEW m \in 0..Len(bytes)
  PROVE  \E last \in 0..Len(sent) :
           /\ ends[last] <= m /\ (m = Len(bytes) => last = Len(sent))
           /\ TakeFrames(SubSeq(bytes, 1, m))
                = [frames |-> Wholes(sent, 0, last), rest |-> SubSeq(SubSeq(bytes, 1, m), ends[last] + 1, m)]
<1> DEFINE chunk == SubSeq(bytes, 1, m)
           count == Len(sent)
           there == {k \in 0..count : ends[k] <= m}
           last == Max(there)
<1>1. m \in Nat /\ Len(bytes) \in Nat /\ count \in Nat /\ m <= Len(bytes)
  OBVIOUS
<1>2. /\ \A k \in 0..count : ends[k] \in Nat /\ ends[k] <= Len(bytes)
      /\ \A k \in 1..count : ends[k - 1] \in Nat /\ ends[k - 1] + 2 <= ends[k]
      /\ \A j, k \in 0..count : j <= k => ends[j] <= ends[k]
  BY EndsRise
<1>3. ends[0] = 0 /\ ends[count] = Len(bytes)
  BY DEF EndsOf
<1>4. last \in there /\ \A k \in there : k <= last
  <2>1. there \in SUBSET (0..count) /\ 0 \in there
    BY <1>1, <1>3
  <2>2. there # {}
    BY <2>1
  <2> HIDE DEF there
  <2> QED
    BY <1>1, <2>1, <2>2, MaxIsGreatest
<1> HIDE DEF last
<1>5. last \in 0..count /\ last \in Nat /\ ends[last] \in Nat /\ ends[last] <= m
      /\ \A k \in 0..count : k > last => ends[k] > m
  <2>1. last \in 0..count /\ last \in Nat /\ ends[last] \in Nat /\ ends[last] <= m
    BY <1>1, <1>2, <1>4
  <2>2. ASSUME NEW k \in 0..count, k > last PROVE ends[k] > m
    <3>1. k \notin there
      BY <1>1, <1>4, <2>1, <2>2
    <3>2. ends[k] \in Nat
      BY <1>2
    <3> QED
      BY <3>1, <3>2, <1>1
  <2> QED
    BY <2>1, <2>2
<1> HIDE DEF there
<1>6. chunk \in Seq(FrameBytes) /\ Len(chunk) = m /\ \A i \in 1..m : chunk[i] = bytes[i]
  <2> HIDE DEF FrameBytes
  <2> QED
    BY Prefix
<1> HIDE DEF chunk
<1>7. PICK from \in [1..(m + 1) -> Takings] :
        /\ TakeFrames(chunk) = from[1]
        /\ \A i \in 1..(m + 1) : from[i] = TakingAt(chunk, from, i)
  BY <1>6, TakeFramesFrom, Zenon
<1> DEFINE kept == SubSeq(chunk, ends[last] + 1, m)
           Got(k) == [frames |-> Wholes(sent, k, last - k), rest |-> kept]
<1>8. ASSUME NEW k \in 0..last PROVE ends[k] \in Nat /\ ends[k] + 1 \in 1..(m + 1)
  <2>1. k \in 0..count /\ k <= last
    BY <1>1, <1>5
  <2>2. ends[k] \in Nat /\ ends[k] <= ends[last]
    BY <2>1, <1>2, <1>5
  <2> QED
    BY <2>2, <1>1, <1>5
<1>9. from[ends[last] + 1] = Got(last)
  <2> DEFINE i == ends[last] + 1
             f == chunk[i][2]
  <2>1. i \in 1..(m + 1)
    BY <1>1, <1>5
  <2> HIDE DEF i
  <2>2. from[i] = TakingAt(chunk, from, i)
    BY <2>1, <1>7
  <2>3. DecodeFrame(SubSeq(chunk, i, m)).complete <=> i <= m /\ i + SizeOf(f) <= m + 1
    BY <2>1, <1>6, FrameAt, Zenon
  <2>4. ASSUME i <= m PROVE ~(i + SizeOf(f) <= m + 1)
    <3>1. last + 1 \in 1..count /\ (last + 1) - 1 = last /\ last + 1 \in 0..count
      <4>1. last # count
        BY <2>4, <1>1, <1>3, <1>5 DEF i
      <4> QED
        BY <4>1, <1>1, <1>5
    <3>2. ends[last + 1] > m /\ ends[last + 1] \in Nat
      BY <3>1, <1>1, <1>2, <1>5
    <3>3. sent[last + 1] \in Frame
      BY <3>1
    <3>4. SizeOf(sent[last + 1]) \in Nat /\ SizeOf(sent[last + 1]) >= 2
      BY <3>3, FramesTakeBytes, Zenon
    <3>5. ends[last + 1] = ends[last] + SizeOf(sent[last + 1])
          /\ \A j \in 1..SizeOf(sent[last + 1]) : bytes[ends[last] + j] = <<j, sent[last + 1]>>
      BY <3>1 DEF EndsOf
    <3>6. bytes[i] = <<1, sent[last + 1]>>
      <4>1. 1 \in 1..SizeOf(sent[last + 1])
        BY <3>4
      <4> QED
        BY <4>1, <3>5 DEF i
    <3>7. f = sent[last + 1]
      BY <3>6, <2>1, <2>4, <1>1, <1>6
    <3> HIDE DEF f
    <3> QED
      BY <3>2, <3>4, <3>5, <3>7, <1>1, <1>5 DEF i
  <2>5. ~DecodeFrame(SubSeq(chunk, i, Len(chunk))).complete
    BY <2>3, <2>4, <1>6
  <2>6. TakingAt(chunk, from, i) = [frames |-> <<>>, rest |-> SubSeq(chunk, i, m)]
    BY <2>5, <1>6, Zenon DEF TakingAt
  <2>7. Wholes(sent, last, last - last) = <<>>
    <3>1. last - last = 0
      BY <1>5
    <3>2. Wholes(sent, last, 0) = <<>>
      BY DEF Wholes
    <3> QED
      BY <3>1, <3>2
  <2> QED
    BY <2>2, <2>6, <2>7, Zenon DEF i
<1>10. ASSUME NEW k \in 0..last, k < last, from[ends[k + 1] + 1] = Got(k + 1)
       PROVE  from[ends[k] + 1] = Got(k)
  <2> DEFINE i == ends[k] + 1
             f == sent[k + 1]
             next == ends[k + 1] + 1
  <2>1. /\ k + 1 \in 1..count /\ (k + 1) - 1 = k /\ k + 1 \in 0..count /\ k + 1 \in 0..last
        /\ k \in Nat /\ k + 1 <= last
    BY <1>1, <1>5, <1>10
  <2>2. f \in Frame
    BY <2>1
  <2>3. /\ ends[k + 1] = ends[k] + SizeOf(f)
        /\ \A j \in 1..SizeOf(f) : bytes[ends[k] + j] = <<j, f>>
    BY <2>1 DEF EndsOf
  <2>4. ends[k] \in Nat /\ i \in 1..(m + 1) /\ next \in 1..(m + 1) /\ ends[k + 1] \in Nat /\ ends[k + 1] <= m
    <3>1. ends[k + 1] \in Nat /\ next \in 1..(m + 1)
      BY <2>1, <1>8
    <3> QED
      BY <3>1, <1>1, <1>8
  <2> HIDE DEF f, i, next
  <2>5. /\ f.size \in Nat /\ HeaderSize(f.size) \in Nat /\ HeaderSize(f.size) >= 2
        /\ SizeOf(f) \in Nat /\ SizeOf(f) = HeaderSize(f.size) + f.size
    BY <2>2, FrameSize
  <2>6. \A j \in 1..SizeOf(f) : ends[k] + j \in 1..m /\ chunk[ends[k] + j] = <<j, f>>
    <3> SUFFICES ASSUME NEW j \in 1..SizeOf(f)
                 PROVE  ends[k] + j \in 1..m /\ chunk[ends[k] + j] = <<j, f>>
      OBVIOUS
    <3>1. ends[k] + j \in 1..m
      <4> DEFINE a == ends[k]
                 z == SizeOf(f)
      <4>1. a \in Nat /\ z \in Nat /\ a + z <= m
        BY <2>3, <2>4, <2>5
      <4> HIDE DEF a, z
      <4>2. j \in 1..z
        BY DEF z
      <4>3. a + j \in 1..m
        BY <4>1, <4>2, <1>1
      <4> QED
        BY <4>3 DEF a
    <3> QED
      BY <3>1, <2>3, <1>6
  <2>7. i <= m /\ chunk[i] = <<1, f>> /\ i + SizeOf(f) = next /\ next <= m + 1
    <3>1. 1 \in 1..SizeOf(f)
      BY <2>5
    <3>2. ends[k] + 1 \in 1..m /\ chunk[ends[k] + 1] = <<1, f>>
      BY <3>1, <2>6
    <3>3. i + SizeOf(f) = next
      <4> DEFINE a == ends[k]
                 b == ends[k + 1]
                 z == SizeOf(f)
      <4>1. a \in Nat /\ z \in Nat /\ b = a + z
        BY <2>3, <2>4, <2>5
      <4> HIDE DEF a, b, z
      <4>2. (a + 1) + z = b + 1
        BY <4>1
      <4> QED
        BY <4>2, Zenon DEF a, b, z, i, next
    <3> QED
      BY <3>2, <3>3, <2>4, <1>1 DEF i
  <2>8. chunk[i][2] = f
    BY <2>7
  <2> DEFINE decoded == DecodeFrame(SubSeq(chunk, i, Len(chunk)))
  <2>9. decoded.complete /\ decoded.payload \in Seq(FrameBytes) /\ Len(decoded.payload) = f.size
        /\ \A j \in 1..f.size : decoded.payload[j] = chunk[i + (HeaderSize(f.size) + j) - 1]
    <3>1. i \in 1..(Len(chunk) + 1)
      BY <2>4, <1>6
    <3>2. LET g == chunk[i][2]
          IN  /\ decoded.complete <=> i <= Len(chunk) /\ i + SizeOf(g) <= Len(chunk) + 1
              /\ decoded.complete =>
                   /\ decoded.payload \in Seq(FrameBytes) /\ Len(decoded.payload) = g.size
                   /\ \A j \in 1..g.size :
                        decoded.payload[j] = chunk[i + (HeaderSize(g.size) + j) - 1]
      BY <3>1, <1>6, FrameAt
    <3> HIDE DEF decoded
    <3> QED
      BY <3>2, <2>7, <2>8, <1>6, Zenon
  <2> HIDE DEF decoded
  <2>10. decoded.payload = Payload(f)
    <3>1. Payload(f) \in Seq(FrameBytes) /\ Len(Payload(f)) = f.size
          /\ \A j \in 1..f.size : Payload(f)[j] = <<HeaderSize(f.size) + j, f>>
      BY <2>2, EncodedFrame
    <3>2. ASSUME NEW j \in 1..f.size PROVE decoded.payload[j] = Payload(f)[j]
      <4>1. HeaderSize(f.size) + j \in 1..SizeOf(f)
            /\ i + (HeaderSize(f.size) + j) - 1 = ends[k] + (HeaderSize(f.size) + j)
        <5> DEFINE a == ends[k]
                   h == HeaderSize(f.size)
                   n == f.size
                   z == SizeOf(f)
        <5>1. a \in Nat /\ h \in Nat /\ n \in Nat /\ z = h + n
          BY <2>4, <2>5
        <5> HIDE DEF a, h, n, z
        <5>2. j \in 1..n
          BY DEF n
        <5>3. h + j \in 1..z /\ (a + 1) + (h + j) - 1 = a + (h + j)
          BY <5>1, <5>2
        <5> QED
          BY <5>3, Zenon DEF a, h, z, i
      <4>2. chunk[ends[k] + (HeaderSize(f.size) + j)] = <<HeaderSize(f.size) + j, f>>
        BY <4>1, <2>6
      <4> QED
        BY <4>1, <4>2, <3>1, <2>9
    <3> DEFINE p == decoded.payload
               q == Payload(f)
               n == f.size
    <3>3. /\ p \in Seq(FrameBytes) /\ q \in Seq(FrameBytes) /\ n \in Nat /\ Len(p) = n /\ Len(q) = n
          /\ \A j \in 1..n : p[j] = q[j]
      BY <3>1, <3>2, <2>5, <2>9
    <3> HIDE DEF p, q, n
    <3>4. p = q
      BY <3>3, SameSequence
    <3> QED
      BY <3>4 DEF p, q
  <2>11. [header |-> chunk[i], payload |-> decoded.payload] = Whole(f)
    BY <2>7, <2>10, Zenon DEF Whole
  <2>12. from[next] \in Takings
    <3> HIDE DEF Takings
    <3> QED
      BY <2>4, <1>7
  <2>13. /\ f.opcode = "close" =>
              TakingAt(chunk, from, i) = [frames |-> <<Whole(f)>>, rest |-> SubSeq(chunk, next, m)]
         /\ f.opcode # "close" =>
              TakingAt(chunk, from, i) = [frames |-> <<Whole(f)>> \o from[next].frames, rest |-> from[next].rest]
    <3>1. i \in 1..(Len(chunk) + 1) /\ DecodeFrame(SubSeq(chunk, i, Len(chunk))).complete
      BY <2>4, <2>9, <1>6 DEF decoded
    <3>2. LET g == chunk[i][2]
              got == [header |-> chunk[i], payload |-> DecodeFrame(SubSeq(chunk, i, Len(chunk))).payload]
              after == i + SizeOf(g)
          IN  /\ g.opcode = "close" =>
                   TakingAt(chunk, from, i) = [frames |-> <<got>>, rest |-> SubSeq(chunk, after, Len(chunk))]
              /\ g.opcode # "close" /\ from[after] \in Takings =>
                   TakingAt(chunk, from, i) = [frames |-> <<got>> \o from[after].frames, rest |-> from[after].rest]
      BY <3>1, <1>6, TakingFrame, ZenonT(60)
    <3> QED
      BY <3>2, <2>7, <2>8, <2>11, <2>12, <1>6, Zenon DEF decoded
  <2>14. from[i] = TakingAt(chunk, from, i)
    BY <2>4, <1>7
  <2>15. CASE f.opcode = "close"
    <3>1. k + 1 = count /\ k + 1 = last
      <4>1. k + 1 = count
        BY <2>1, <2>15 DEF CloseLast, f
      <4> QED
        BY <4>1, <2>1, <1>1, <1>5
    <3>2. last - k = 1
      BY <3>1, <2>1
    <3>3. Wholes(sent, k, 1) = <<Whole(f)>>
      BY DEF Wholes, f
    <3>4. SubSeq(chunk, next, m) = kept
      BY <3>1 DEF next
    <3> QED
      BY <3>2, <3>3, <3>4, <2>13, <2>14, <2>15, Zenon DEF i
  <2>16. CASE f.opcode # "close"
    <3>1. from[next] = [frames |-> Wholes(sent, k + 1, last - (k + 1)), rest |-> kept]
      BY <1>10 DEF next
    <3>2. from[next].frames = Wholes(sent, k + 1, last - (k + 1)) /\ from[next].rest = kept
      <4> HIDE DEF kept
      <4> QED
        BY <3>1
    <3>3. <<Whole(f)>> \o Wholes(sent, k + 1, last - (k + 1)) = Wholes(sent, k, last - k)
      <4> DEFINE n == last - (k + 1)
      <4>1. n \in Nat /\ k + 1 + n <= Len(sent) /\ n + 1 = last - k
        BY <2>1, <1>1, <1>5
      <4> HIDE DEF n
      <4>2. <<Whole(sent[k + 1])>> \o Wholes(sent, k + 1, n) = Wholes(sent, k, n + 1)
        BY <4>1, <2>1, WholesJoin
      <4> QED
        BY <4>1, <4>2, Zenon DEF n, f
    <3> QED
      BY <3>2, <3>3, <2>13, <2>14, <2>16, Zenon DEF i
  <2> QED
    BY <2>15, <2>16
<1> HIDE DEF Got
<1> DEFINE S == {n \in Nat : n <= last => from[ends[last - n] + 1] = Got(last - n)}
<1>11. 0 \in S
  <2>1. last - 0 = last
    BY <1>5
  <2> QED
    BY <2>1, <1>9
<1>12. ASSUME NEW n \in Nat, n \in S PROVE n + 1 \in S
  <2> SUFFICES ASSUME n + 1 <= last PROVE from[ends[last - (n + 1)] + 1] = Got(last - (n + 1))
    OBVIOUS
  <2> DEFINE k == last - (n + 1)
  <2>1. k \in 0..last /\ k < last /\ k + 1 = last - n /\ n <= last
    BY <1>5
  <2>2. from[ends[k + 1] + 1] = Got(k + 1)
    BY <2>1, <1>12
  <2> HIDE DEF k
  <2>3. from[ends[k] + 1] = Got(k)
    BY <2>1, <2>2, <1>10
  <2> QED
    BY <2>3 DEF k
<1>13. from[1] = Got(0)
  <2>1. Nat \subseteq S
    <3> HIDE DEF S
    <3> QED
      BY <1>11, <1>12, EveryNumber
  <2>2. last \in S /\ last - last = 0 /\ ends[0] + 1 = 1
    <3>1. last \in S
      <4> HIDE DEF S
      <4> QED
        BY <2>1, <1>5
    <3> HIDE DEF S
    <3> QED
      BY <3>1, <1>3, <1>5
  <2> QED
    BY <2>2, <1>5
<1>14. TakeFrames(chunk) = [frames |-> Wholes(sent, 0, last), rest |-> kept]
  <2>1. last - 0 = last
    BY <1>5
  <2> QED
    BY <2>1, <1>7, <1>13, Zenon DEF Got
<1>15. m = Len(bytes) => last = count
  <2>1. count \in 0..count /\ (last # count => count > last)
    BY <1>1, <1>5
  <2> QED
    BY <2>1, <1>1, <1>3, <1>5
<1> QED
  BY <1>5, <1>14, <1>15 DEF chunk, kept

\* Taking frames of what is laid out keeps the rest of it laid out.
TakenOf(bytes, sent, m, last) ==
  LET got == TakeFrames(SubSeq(bytes, 1, m))
      left == SubSeq(sent, last + 1, Len(sent))
  IN  /\ got.frames = Wholes(sent, 0, last) /\ Len(got.frames) = last
      /\ got.rest \in Seq(FrameBytes)
      /\ Laid(got.rest \o SubSeq(bytes, m + 1, Len(bytes)), left) /\ CloseLast(left)
      /\ left \in Seq(Frame)
      /\ m = Len(bytes) => left = <<>>

LEMMA TakenOfLaid ==
  ASSUME NEW bytes, NEW sent, Laid(bytes, sent), CloseLast(sent), NEW m \in 0..Len(bytes)
  PROVE  \E last \in 0..Len(sent) : TakenOf(bytes, sent, m, last)
<1>1. bytes \in Seq(FrameBytes) /\ sent \in Seq(Frame)
  BY DEF Laid
<1>2. PICK ends : EndsOf(ends, bytes, sent)
  BY DEF Laid
<1>3. PICK last \in 0..Len(sent) :
        /\ ends[last] <= m /\ (m = Len(bytes) => last = Len(sent))
        /\ TakeFrames(SubSeq(bytes, 1, m))
             = [frames |-> Wholes(sent, 0, last), rest |-> SubSeq(SubSeq(bytes, 1, m), ends[last] + 1, m)]
  BY <1>1, <1>2, TakenWhole
<1> DEFINE got == TakeFrames(SubSeq(bytes, 1, m))
           left == SubSeq(sent, last + 1, Len(sent))
           after == SubSeq(bytes, m + 1, Len(bytes))
           rest == SubSeq(SubSeq(bytes, 1, m), ends[last] + 1, m)
<1>4. got.frames = Wholes(sent, 0, last) /\ got.rest = rest
  <2>1. got = [frames |-> Wholes(sent, 0, last), rest |-> rest]
    BY <1>3
  <2> HIDE DEF rest, got
  <2> QED
    BY <2>1
<1>5. Len(sent) \in Nat /\ Len(bytes) \in Nat /\ m \in Nat /\ m <= Len(bytes)
      /\ last \in Nat /\ last <= Len(sent)
  BY <1>1
<1>6. Len(Wholes(sent, 0, last)) = last
  BY <1>5 DEF Wholes
<1>7. ends[last] \in 0..m
  <2>1. ends[last] \in Nat
    BY <1>1, <1>2, <1>3, EndsRise
  <2> QED
    BY <2>1, <1>3, <1>5
<1>8. Laid(rest \o after, left)
  <2>1. rest \o after = SubSeq(bytes, ends[last] + 1, Len(bytes))
    <3> DEFINE e == ends[last]
    <3>1. e \in 0..m /\ m \in 0..Len(bytes)
      BY <1>5, <1>7
    <3> HIDE DEF e, FrameBytes
    <3>2. SubSeq(SubSeq(bytes, 1, m), e + 1, m) \o SubSeq(bytes, m + 1, Len(bytes)) = SubSeq(bytes, e + 1, Len(bytes))
      BY <3>1, <1>1, RestRejoined
    <3> QED
      BY <3>2, Zenon DEF e
  <2>2. Laid(SubSeq(bytes, ends[last] + 1, Len(bytes)), left)
    BY <1>1, <1>2, LaidRest
  <2> QED
    BY <2>1, <2>2, Zenon
<1>9. rest \in Seq(FrameBytes)
  <2> DEFINE chunk == SubSeq(bytes, 1, m)
  <2> HIDE DEF FrameBytes
  <2>1. chunk \in Seq(FrameBytes) /\ Len(chunk) = m
    BY <1>1, Prefix
  <2>2. rest = SubSeq(chunk, ends[last] + 1, Len(chunk))
    BY <2>1
  <2> HIDE DEF chunk, rest
  <2>3. ends[last] \in 0..Len(chunk)
    BY <2>1, <1>7
  <2> QED
    BY <2>1, <2>2, <2>3, AfterPlace
<1>10. /\ left \in Seq(Frame) /\ Len(left) = Len(sent) - last
       /\ \A i \in 1..(Len(sent) - last) : left[i] = sent[last + i]
  <2> HIDE DEF Frame
  <2> QED
    BY <1>1, AfterPlace
<1> HIDE DEF left, rest, after, got
<1>11. CloseLast(left)
  <2> SUFFICES ASSUME NEW k \in 1..Len(left), left[k].opcode = "close" PROVE k = Len(left)
    BY DEF CloseLast
  <2>1. k \in 1..(Len(sent) - last) /\ last + k \in 1..Len(sent)
    BY <1>5, <1>10
  <2>2. sent[last + k].opcode = "close"
    BY <2>1, <1>10
  <2>3. last + k = Len(sent)
    BY <2>1, <2>2 DEF CloseLast
  <2> QED
    BY <2>1, <2>3, <1>5, <1>10
<1>12. m = Len(bytes) => left = <<>>
  <2>1. m = Len(bytes) => Len(left) = 0
    BY <1>3, <1>5, <1>10
  <2> QED
    BY <2>1, <1>10, EmptySeq
<1>13. Laid(got.rest \o after, left)
  BY <1>4, <1>8
<1> QED
  <2>1. got.rest \in Seq(FrameBytes) /\ Len(got.frames) = last /\ got.frames = Wholes(sent, 0, last)
    BY <1>4, <1>6, <1>9
  <2> QED
    BY <2>1, <1>10, <1>11, <1>12, <1>13, Zenon DEF TakenOf, left, after, got

\* A frame that is sent is laid out after the others.
LEMMA LaidAppend ==
  ASSUME NEW bytes, NEW sent, Laid(bytes, sent), NEW f \in Frame
  PROVE  Laid(bytes \o EncodeFrame(f), Append(sent, f))
<1> DEFINE n == Len(sent)
           L == Len(bytes)
           z == SizeOf(f)
           b == bytes \o EncodeFrame(f)
           s == Append(sent, f)
<1>1. bytes \in Seq(FrameBytes) /\ sent \in Seq(Frame) /\ n \in Nat /\ L \in Nat
  BY DEF Laid
<1>2. PICK ends : EndsOf(ends, bytes, sent)
  BY DEF Laid
<1>3. z \in Nat
  BY FramesTakeBytes
<1>4. /\ EncodeFrame(f) \in Seq(FrameBytes) /\ Len(EncodeFrame(f)) = z
      /\ \A i \in 1..z : EncodeFrame(f)[i] = <<i, f>>
  BY EncodedFrame
<1>5. /\ b \in Seq(FrameBytes) /\ Len(b) = L + z
      /\ \A i \in 1..L : b[i] = bytes[i]
      /\ \A i \in 1..z : b[L + i] = <<i, f>>
  <2> DEFINE e == EncodeFrame(f)
  <2> HIDE DEF e, FrameBytes
  <2>1. /\ bytes \o e \in Seq(FrameBytes) /\ Len(bytes \o e) = Len(bytes) + Len(e)
        /\ \A i \in 1..(Len(bytes) + Len(e)) :
             (bytes \o e)[i] = IF i <= Len(bytes) THEN bytes[i] ELSE e[i - Len(bytes)]
    BY <1>1, <1>4, ConcatProperties DEF e
  <2>2. b = bytes \o e /\ Len(e) = z /\ \A i \in 1..z : e[i] = <<i, f>>
    BY <1>4 DEF e
  <2> HIDE DEF b, L, z
  <2>3. b \in Seq(FrameBytes) /\ Len(b) = L + z
        /\ \A i \in 1..(L + z) : b[i] = IF i <= L THEN bytes[i] ELSE e[i - L]
    BY <2>1, <2>2, Zenon DEF L
  <2>4. \A i \in 1..L : i \in 1..(L + z) /\ i <= L
    BY <1>1, <1>3
  <2>5. \A i \in 1..z : L + i \in 1..(L + z) /\ ~(L + i <= L) /\ (L + i) - L = i
    BY <1>1, <1>3
  <2>6. ASSUME NEW i \in 1..z PROVE b[L + i] = <<i, f>>
    <3>1. b[L + i] = e[(L + i) - L]
      BY <2>3, <2>5
    <3> QED
      BY <3>1, <2>2, <2>5
  <2> QED
    BY <2>3, <2>4, <2>6
<1>6. /\ s \in Seq(Frame) /\ Len(s) = n + 1 /\ s[n + 1] = f /\ \A i \in 1..n : s[i] = sent[i]
  <2> HIDE DEF Frame
  <2> QED
    BY <1>1, AppendProperties
<1> HIDE DEF b, s, z, L, n
<1> DEFINE e == [k \in 0..(n + 1) |-> IF k <= n THEN ends[k] ELSE L + z]
<1>7. ends \in [0..n -> Nat] /\ ends[0] = 0 /\ ends[n] = L
      /\ \A k \in 1..n : /\ ends[k] = ends[k - 1] + SizeOf(sent[k])
                         /\ \A i \in 1..SizeOf(sent[k]) : bytes[ends[k - 1] + i] = <<i, sent[k]>>
  BY <1>2, Zenon DEF EndsOf, n, L
<1>8. /\ e \in [0..(n + 1) -> Nat] /\ e[0] = 0 /\ e[n + 1] = L + z /\ e[n] = L
      /\ \A k \in 0..n : e[k] = ends[k]
  <2>1. \A k \in 0..(n + 1) : (k <= n => k \in 0..n) /\ (~(k <= n) => k = n + 1)
    BY <1>1
  <2>2. L + z \in Nat
    BY <1>1, <1>3
  <2>3. e \in [0..(n + 1) -> Nat]
    BY <2>1, <2>2, <1>7
  <2>4. \A k \in 0..n : k \in 0..(n + 1) /\ k <= n
    BY <1>1
  <2>5. \A k \in 0..n : e[k] = ends[k]
    BY <2>4
  <2>6. 0 \in 0..n /\ n \in 0..n /\ n + 1 \in 0..(n + 1) /\ ~(n + 1 <= n)
    BY <1>1
  <2>7. e[n + 1] = L + z
    BY <2>6
  <2> HIDE DEF e
  <2> QED
    BY <2>3, <2>5, <2>6, <2>7, <1>7
<1> HIDE DEF e
<1>9. ASSUME NEW k \in 1..(n + 1)
      PROVE  e[k] = e[k - 1] + SizeOf(s[k]) /\ \A i \in 1..SizeOf(s[k]) : b[e[k - 1] + i] = <<i, s[k]>>
  <2>1. CASE k = n + 1
    <3>1. k - 1 = n
      BY <2>1, <1>1
    <3> QED
      BY <2>1, <3>1, <1>5, <1>6, <1>8 DEF z
  <2>2. CASE k # n + 1
    <3>1. k \in 1..n /\ k \in 0..n /\ k - 1 \in 0..n
      BY <2>2, <1>1
    <3>2. e[k] = ends[k] /\ e[k - 1] = ends[k - 1] /\ s[k] = sent[k]
      BY <3>1, <1>6, <1>8
    <3>3. ends[k] = ends[k - 1] + SizeOf(sent[k])
          /\ \A i \in 1..SizeOf(sent[k]) : bytes[ends[k - 1] + i] = <<i, sent[k]>>
      BY <3>1, <1>7
    <3>4. ends[k] \in Nat /\ ends[k - 1] \in Nat /\ ends[k] <= L
      BY <3>1, <1>1, <1>2, EndsRise DEF n, L
    <3>5. SizeOf(sent[k]) \in Nat
      <4>1. sent[k] \in Frame
        BY <3>1, <1>1 DEF n
      <4> QED
        BY <4>1, FramesTakeBytes, Zenon
    <3>6. ASSUME NEW i \in 1..SizeOf(sent[k]) PROVE b[ends[k - 1] + i] = <<i, sent[k]>>
      <4>1. ends[k - 1] + i \in 1..L
        <5> DEFINE x == ends[k]
                   y == ends[k - 1]
                   w == SizeOf(sent[k])
        <5>1. x \in Nat /\ y \in Nat /\ w \in Nat /\ x = y + w /\ x <= L
          BY <3>3, <3>4, <3>5
        <5> HIDE DEF x, y, w
        <5>2. i \in 1..w
          BY DEF w
        <5>3. y + i \in 1..L
          BY <5>1, <5>2, <1>1
        <5> QED
          BY <5>3 DEF y
      <4> QED
        BY <4>1, <3>3, <1>5
    <3> QED
      BY <3>2, <3>3, <3>6
  <2> QED
    BY <2>1, <2>2
<1>10. EndsOf(e, b, s)
  BY <1>5, <1>6, <1>8, <1>9 DEF EndsOf
<1> QED
  BY <1>5, <1>6, <1>10 DEF Laid, b, s

LEMMA LaidNothing == Laid(<<>>, <<>>)
<1>1. EndsOf([k \in 0..0 |-> 0], <<>>, <<>>)
  BY DEF EndsOf
<1>2. <<>> \in Seq(FrameBytes) /\ <<>> \in Seq(Frame)
  OBVIOUS
<1> QED
  BY <1>1, <1>2, Zenon DEF Laid

\* Where what is under way is cut, and what the client holds then.
LEMMA CutJoined ==
  ASSUME NEW S, NEW a \in Seq(S), NEW b \in Seq(S), NEW n \in 1..Len(b)
  PROVE  /\ a \o b \in Seq(S) /\ Len(a \o b) = Len(a) + Len(b)
         /\ Len(a) + n \in 1..Len(a \o b) /\ (Len(a) + n = Len(a \o b) <=> n = Len(b))
         /\ a \o SubSeq(b, 1, n) = SubSeq(a \o b, 1, Len(a) + n)
         /\ SubSeq(b, n + 1, Len(b)) = SubSeq(a \o b, Len(a) + n + 1, Len(a \o b))
         /\ SubSeq(b, n + 1, Len(b)) \in Seq(S)
         /\ SubSeq(b, n + 1, Len(b)) = <<>> => n = Len(b)
<1> DEFINE x == Len(a)
           y == Len(b)
           w == a \o b
           p == SubSeq(b, 1, n)
           q == SubSeq(b, n + 1, y)
           u == a \o p
           v == SubSeq(w, 1, x + n)
           r == SubSeq(w, x + n + 1, Len(w))
<1>1. x \in Nat /\ y \in Nat /\ n \in Nat /\ 1 <= n /\ n <= y
  OBVIOUS
<1>2. w \in Seq(S) /\ Len(w) = x + y /\ \A i \in 1..(x + y) : w[i] = IF i <= x THEN a[i] ELSE b[i - x]
  BY ConcatProperties
<1>3. p \in Seq(S) /\ Len(p) = n /\ \A i \in 1..n : p[i] = b[i]
  <2>1. n \in 0..Len(b)
    BY <1>1
  <2> QED
    BY <2>1, Prefix
<1>4. q \in Seq(S) /\ Len(q) = y - n /\ \A i \in 1..(y - n) : q[i] = b[n + i]
  <2>1. n \in 0..Len(b)
    BY <1>1
  <2> QED
    BY <2>1, AfterPlace
<1>5. u \in Seq(S) /\ Len(u) = x + n /\ \A i \in 1..(x + n) : u[i] = IF i <= x THEN a[i] ELSE p[i - x]
  <2> HIDE DEF p
  <2>1. /\ u \in Seq(S) /\ Len(u) = Len(a) + Len(p)
        /\ \A i \in 1..(Len(a) + Len(p)) : u[i] = IF i <= Len(a) THEN a[i] ELSE p[i - Len(a)]
    BY <1>3, ConcatProperties
  <2> HIDE DEF u
  <2> QED
    BY <2>1, <1>3, Zenon
<1> HIDE DEF w, p, q, u
<1>6. x + n \in 0..Len(w) /\ x + n \in 1..Len(w) /\ (x + n = Len(w) <=> n = y)
  <2> HIDE DEF x, y
  <2> QED
    BY <1>1, <1>2
<1>7. v \in Seq(S) /\ Len(v) = x + n /\ \A i \in 1..(x + n) : v[i] = w[i]
  <2> HIDE DEF x
  <2> QED
    BY <1>2, <1>6, Prefix
<1>8. r \in Seq(S) /\ Len(r) = Len(w) - (x + n) /\ \A i \in 1..(Len(w) - (x + n)) : r[i] = w[x + n + i]
  <2> HIDE DEF x
  <2> QED
    BY <1>2, <1>6, AfterPlace
<1> HIDE DEF x, y, v, r
<1>9. u = v
  <2>1. ASSUME NEW i \in 1..(x + n) PROVE u[i] = v[i]
    <3>1. i \in 1..(x + y) /\ (~(i <= x) => i - x \in 1..n)
      BY <1>1
    <3>2. w[i] = IF i <= x THEN a[i] ELSE b[i - x]
      BY <3>1, <1>2
    <3>3. u[i] = IF i <= x THEN a[i] ELSE b[i - x]
      BY <3>1, <1>3, <1>5
    <3> QED
      BY <3>2, <3>3, <1>7
  <2> DEFINE N == x + n
  <2>2. N \in Nat /\ Len(u) = N /\ Len(v) = N /\ \A i \in 1..N : u[i] = v[i]
    BY <2>1, <1>1, <1>5, <1>7
  <2> HIDE DEF N
  <2> QED
    BY <2>2, <1>5, <1>7, SameSequence
<1>10. q = r
  <2>1. ASSUME NEW i \in 1..(y - n) PROVE q[i] = r[i]
    <3>1. x + n + i \in 1..(x + y) /\ ~(x + n + i <= x) /\ (x + n + i) - x = n + i
      BY <1>1
    <3>2. w[x + n + i] = b[n + i]
      BY <3>1, <1>2
    <3>3. i \in 1..(Len(w) - (x + n))
      BY <1>1, <1>2
    <3> QED
      BY <3>2, <3>3, <1>4, <1>8
  <2> DEFINE N == y - n
  <2>2. N \in Nat /\ Len(q) = N /\ Len(r) = N /\ \A i \in 1..N : q[i] = r[i]
    BY <2>1, <1>1, <1>2, <1>4, <1>8
  <2> HIDE DEF N
  <2> QED
    BY <2>2, <1>4, <1>8, SameSequence
<1>11. q = <<>> => n = y
  <2>1. q = <<>> => Len(q) = 0
    BY EmptySeq
  <2> QED
    BY <2>1, <1>1, <1>4
<1> QED
  <2>1. w \in Seq(S) /\ Len(w) = x + y
    BY <1>2
  <2>2. q \in Seq(S)
    BY <1>4
  <2> QED
    BY <2>1, <2>2, <1>6, <1>9, <1>10, <1>11 DEF x, y, w, p, q, u, v, r

Headers(status) == <<<<0, status>>, <<0, "cr">>, <<0, "lf">>, <<0, "cr">>, <<0, "lf">>>>

\* The headers of the upgrade end at place 5, and what is there of the frames
\* follows them.
HeadersFirst(all, bytes, w, m) ==
  /\ Len(bytes) = m
  /\ \A i \in 4..m : SubSeq(bytes, i - 3, i) = HeaderEnd => i >= 5
  /\ m >= 5 =>
       /\ m - 5 \in 0..Len(w) /\ SubSeq(bytes, 2, 5) = HeaderEnd
       /\ SubSeq(bytes, 5 + 1, m) = SubSeq(w, 1, m - 5)
       /\ SubSeq(all, m + 1, Len(all)) = SubSeq(w, (m - 5) + 1, Len(w))
       /\ (m = Len(all) <=> m - 5 = Len(w))

LEMMA HeadersEnd ==
  ASSUME NEW status \in Statuses, NEW w \in Seq(FrameBytes),
         NEW all, all = Headers(status) \o w, NEW m \in 1..Len(all),
         NEW bytes, bytes = SubSeq(all, 1, m)
  PROVE  HeadersFirst(all, bytes, w, m)
<1> DEFINE h == Headers(status)
           L == Len(w)
<1>1. /\ h \in Seq(StreamBytes) /\ Len(h) = 5 /\ h[1] = <<0, status>>
      /\ h[2] = <<0, "cr">> /\ h[3] = <<0, "lf">> /\ h[4] = <<0, "cr">> /\ h[5] = <<0, "lf">>
  <2>1. \A x \in Statuses \cup {"cr", "lf"} : <<0, x>> \in StreamBytes
    BY DEF StreamBytes
  <2> HIDE DEF StreamBytes
  <2>2. /\ <<0, status>> \in StreamBytes /\ <<0, "cr">> \in StreamBytes /\ <<0, "lf">> \in StreamBytes
    BY <2>1
  <2> QED
    BY <2>2 DEF Headers
<1>2. w \in Seq(StreamBytes) /\ L \in Nat
  <2>1. FrameBytes \subseteq StreamBytes
    BY DEF StreamBytes
  <2> HIDE DEF FrameBytes, StreamBytes
  <2> QED
    BY <2>1, SeqMonotonic
<1> HIDE DEF h
<1>0. all = h \o w /\ m \in 1..Len(all)
  BY DEF h
<1>3. /\ all \in Seq(StreamBytes) /\ Len(all) = 5 + L
      /\ \A i \in 1..(5 + L) : all[i] = IF i <= 5 THEN h[i] ELSE w[i - 5]
  <2> HIDE DEF StreamBytes, FrameBytes
  <2>1. /\ h \o w \in Seq(StreamBytes) /\ Len(h \o w) = Len(h) + Len(w)
        /\ \A i \in 1..(Len(h) + Len(w)) : (h \o w)[i] = IF i <= Len(h) THEN h[i] ELSE w[i - Len(h)]
    BY <1>1, <1>2, ConcatProperties
  <2> QED
    BY <2>1, <1>0, <1>1, Zenon
<1>4. m \in Nat /\ 1 <= m /\ m <= 5 + L
  <2> HIDE DEF L
  <2> QED
    BY <1>0, <1>2, <1>3
<1>5. bytes \in Seq(StreamBytes) /\ Len(bytes) = m /\ \A i \in 1..m : bytes[i] = all[i]
  <2>1. m \in 0..Len(all)
    BY <1>2, <1>3, <1>4
  <2> HIDE DEF StreamBytes
  <2> QED
    BY <2>1, <1>3, Prefix
<1> HIDE DEF L
<1>6. \A i \in 1..m : i \in 1..(5 + L)
  BY <1>2, <1>4
<1>7. \A i \in 1..m : i <= 5 => bytes[i] = h[i]
  BY <1>3, <1>5, <1>6
<1>8. HeaderEnd = <<<<0, "cr">>, <<0, "lf">>, <<0, "cr">>, <<0, "lf">>>>
  BY DEF HeaderEnd
<1>9. \A i \in 4..m : SubSeq(bytes, i - 3, i) = HeaderEnd => i >= 5
  <2> SUFFICES ASSUME 4 <= m, SubSeq(bytes, 1, 4) = HeaderEnd PROVE FALSE
    <3>1. \A i \in 4..m : i >= 5 \/ (i = 4 /\ i - 3 = 1)
      BY <1>4
    <3>2. 4 \in 4..m => 4 <= m
      BY <1>4
    <3> QED
      BY <3>1, <3>2
  <2>2. SubSeq(bytes, 1, 4)[1] = bytes[1]
    <3> HIDE DEF StreamBytes
    <3>1. 4 \in 0..Len(bytes) /\ 1 \in 1..4
      BY <1>4, <1>5
    <3> QED
      BY <3>1, <1>5, Prefix
  <2>3. bytes[1] = <<0, status>>
    BY <1>1, <1>4, <1>7
  <2>5. HeaderEnd[1] = <<0, "cr">>
    BY <1>8
  <2>6. <<0, status>> = <<0, "cr">>
    BY <2>2, <2>3, <2>5, Zenon
  <2> QED
    BY <2>6 DEF Statuses
<1>10. m >= 5 => SubSeq(bytes, 2, 5) = HeaderEnd
  <2> SUFFICES ASSUME m >= 5 PROVE SubSeq(bytes, 2, 5) = HeaderEnd
    OBVIOUS
  <2>1. \A i \in 1..5 : i \in 1..m
    BY <1>4
  <2>2. bytes[2] = <<0, "cr">> /\ bytes[3] = <<0, "lf">> /\ bytes[4] = <<0, "cr">> /\ bytes[5] = <<0, "lf">>
    <3>1. 2 \in 1..m /\ 3 \in 1..m /\ 4 \in 1..m /\ 5 \in 1..m
      BY <2>1
    <3>2. bytes[2] = h[2] /\ bytes[3] = h[3] /\ bytes[4] = h[4] /\ bytes[5] = h[5]
      BY <3>1, <1>7
    <3> QED
      BY <3>2, <1>1, Zenon
  <2>3. SubSeq(bytes, 2, 5) = [i \in 1..4 |-> bytes[i + 1]]
    <3>1. \A i \in 2..5 : bytes[i] \in StreamBytes
      BY <2>1, <1>5
    <3>2. /\ SubSeq(bytes, 2, 5) \in Seq(StreamBytes) /\ Len(SubSeq(bytes, 2, 5)) = 4
          /\ \A i \in 1..4 : SubSeq(bytes, 2, 5)[i] = bytes[2 + i - 1]
      <4> HIDE DEF StreamBytes
      <4> QED
        BY <3>1, SubSeqProperties
    <3> DEFINE t == SubSeq(bytes, 2, 5)
    <3> HIDE DEF t, StreamBytes
    <3>3. t = [i \in 1..4 |-> t[i]]
      BY <3>2 DEF t
    <3>4. \A i \in 1..4 : t[i] = bytes[i + 1]
      BY <3>2 DEF t
    <3> QED
      BY <3>3, <3>4 DEF t
  <2>4. SubSeq(bytes, 2, 5) = HeaderEnd
    <3> DEFINE t == SubSeq(bytes, 2, 5)
    <3> HIDE DEF t
    <3>1. t = [i \in 1..4 |-> bytes[i + 1]]
      BY <2>3 DEF t
    <3>2. t[1] = bytes[2] /\ t[2] = bytes[3] /\ t[3] = bytes[4] /\ t[4] = bytes[5]
      BY <3>1
    <3>3. t = <<bytes[2], bytes[3], bytes[4], bytes[5]>>
      BY <3>1, <3>2, SMTT(40)
    <3> QED
      BY <3>3, <2>2, <1>8, Zenon DEF t
  <2> QED
    BY <2>4
<1>11. ASSUME m >= 5
       PROVE  /\ m - 5 \in 0..L /\ SubSeq(bytes, 5 + 1, m) = SubSeq(w, 1, m - 5)
              /\ SubSeq(all, m + 1, Len(all)) = SubSeq(w, (m - 5) + 1, L)
              /\ (m = Len(all) <=> m - 5 = L)
  <2> DEFINE k == m - 5
             a == SubSeq(bytes, 6, m)
             b == SubSeq(w, 1, k)
             c == SubSeq(all, m + 1, Len(all))
             d == SubSeq(w, k + 1, L)
  <2> HIDE DEF StreamBytes, FrameBytes
  <2>1. k \in Nat /\ k <= L /\ k \in 0..L /\ m = 5 + k /\ (m = Len(all) <=> k = L)
    BY <1>2, <1>3, <1>4, <1>11
  <2>2. a \in Seq(StreamBytes) /\ Len(a) = k /\ \A i \in 1..k : a[i] = bytes[5 + i]
    <3>1. 5 \in 0..Len(bytes)
      BY <1>4, <1>5, <1>11
    <3>2. LET r == SubSeq(bytes, 5 + 1, Len(bytes))
          IN  r \in Seq(StreamBytes) /\ Len(r) = Len(bytes) - 5 /\ \A i \in 1..(Len(bytes) - 5) : r[i] = bytes[5 + i]
      BY <3>1, <1>5, AfterPlace
    <3>3. 5 + 1 = 6
      OBVIOUS
    <3> QED
      BY <3>2, <3>3, <1>5, Zenon
  <2>3. b \in Seq(FrameBytes) /\ Len(b) = k /\ \A i \in 1..k : b[i] = w[i]
    <3>1. k \in 0..Len(w)
      BY <2>1 DEF L
    <3> HIDE DEF k
    <3> QED
      BY <3>1, Prefix
  <2>4. c \in Seq(StreamBytes) /\ Len(c) = L - k /\ \A i \in 1..(L - k) : c[i] = all[m + i]
    <3>1. m \in 0..Len(all)
      BY <1>2, <1>3, <1>4
    <3>2. /\ c \in Seq(StreamBytes) /\ Len(c) = Len(all) - m
          /\ \A i \in 1..(Len(all) - m) : c[i] = all[m + i]
      BY <3>1, <1>3, AfterPlace
    <3>3. Len(all) - m = L - k
      BY <2>1, <1>2, <1>3, <1>4
    <3> HIDE DEF c, k
    <3> QED
      BY <3>2, <3>3
  <2>5. d \in Seq(FrameBytes) /\ Len(d) = L - k /\ \A i \in 1..(L - k) : d[i] = w[k + i]
    <3>1. k \in 0..Len(w)
      BY <2>1 DEF L
    <3> HIDE DEF k
    <3> QED
      BY <3>1, AfterPlace DEF L
  <2> HIDE DEF a, b, c, d, k
  <2>6. a = b
    <3>1. ASSUME NEW i \in 1..k PROVE a[i] = b[i]
      <4>1. 5 + i \in 1..m /\ ~(5 + i <= 5) /\ (5 + i) - 5 = i
        BY <2>1, <1>4
      <4>2. 5 + i \in 1..(5 + L)
        BY <4>1, <1>6
      <4>3. all[5 + i] = w[(5 + i) - 5]
        BY <4>1, <4>2, <1>3
      <4> QED
        BY <4>1, <4>3, <2>2, <2>3, <1>5
    <3> QED
      BY <3>1, <2>1, <2>2, <2>3, SameSequence
  <2>7. c = d
    <3>1. ASSUME NEW i \in 1..(L - k) PROVE c[i] = d[i]
      <4>1. m + i \in 1..(5 + L) /\ ~(m + i <= 5) /\ (m + i) - 5 = k + i
        BY <2>1, <1>2, <1>4
      <4>2. all[m + i] = w[(m + i) - 5]
        BY <4>1, <1>3
      <4> QED
        BY <4>1, <4>2, <2>4, <2>5
    <3> DEFINE N == L - k
    <3>2. N \in Nat /\ Len(c) = N /\ Len(d) = N /\ \A i \in 1..N : c[i] = d[i]
      BY <3>1, <2>1, <2>4, <2>5, <1>2
    <3> HIDE DEF N
    <3> QED
      BY <3>2, <2>4, <2>5, SameSequence
  <2>8. 5 + 1 = 6
    OBVIOUS
  <2> QED
    BY <2>1, <2>6, <2>7, <2>8 DEF a, b, c, d, k
<1> QED
  BY <1>5, <1>9, <1>10, <1>11, Zenon DEF HeadersFirst, L

\* While the upgrade is under way its headers are in front of the frames, and then
\* what the client holds and what is under way are the frames it has not taken.
StreamInv ==
  /\ frames \in Nat /\ unread \in Seq(Frame) /\ CloseLast(unread)
  /\ buffer \in Seq(StreamBytes) /\ incoming \in Seq(StreamBytes)
  /\ upgraded => socket \in {"open", "gone"} /\ Laid(buffer \o incoming, unread)
  /\ ~upgraded /\ socket \in {"idle", "connecting"} => buffer = <<>> /\ incoming = <<>> /\ unread = <<>>
  /\ ~upgraded /\ socket = "open" =>
       \E status \in Statuses, w \in Seq(FrameBytes) :
         Laid(w, unread) /\ buffer \o incoming = Headers(status) \o w

TakenAsSent ==
  /\ Len(taken') <= Len(unread)
  /\ taken' = [i \in DOMAIN taken' |-> [header |-> <<1, unread[i]>>, payload |-> Payload(unread[i])]]
  /\ incoming' = <<>> => unread' = <<>>

LEMMA StreamBytesAre ==
  /\ \A s \in Seq(FrameBytes) : s \in Seq(StreamBytes)
  /\ \A status \in Statuses : Headers(status) \in Seq(StreamBytes) /\ Headers(status) = <<<<0, status>>>> \o HeaderEnd
<1>1. ASSUME NEW s \in Seq(FrameBytes) PROVE s \in Seq(StreamBytes)
  <2>1. FrameBytes \subseteq StreamBytes
    BY DEF StreamBytes
  <2> HIDE DEF FrameBytes, StreamBytes
  <2> QED
    BY <2>1, SeqMonotonic
<1>2. ASSUME NEW status \in Statuses
      PROVE  Headers(status) \in Seq(StreamBytes) /\ Headers(status) = <<<<0, status>>>> \o HeaderEnd
  <2>1. \A x \in Statuses \cup {"cr", "lf"} : <<0, x>> \in StreamBytes
    BY DEF StreamBytes
  <2>2. <<0, status>> \in StreamBytes /\ <<0, "cr">> \in StreamBytes /\ <<0, "lf">> \in StreamBytes
    <3> HIDE DEF StreamBytes
    <3> QED
      BY <2>1
  <2> HIDE DEF StreamBytes
  <2>3. Headers(status) \in Seq(StreamBytes)
    BY <2>2 DEF Headers
  <2>4. Headers(status) = <<<<0, status>>>> \o HeaderEnd
    BY DEF Headers, HeaderEnd
  <2> QED
    BY <2>3, <2>4
<1> QED
  BY <1>1, <1>2

\* What one step of taking frames gives: of the bytes that are laid out the client
\* has m now.
LEMMA TakingStep ==
  ASSUME NEW bytes, Laid(bytes, unread), CloseLast(unread), NEW m \in 0..Len(bytes),
         buffer' = TakeFrames(SubSeq(bytes, 1, m)).rest,
         taken' = TakeFrames(SubSeq(bytes, 1, m)).frames,
         incoming' = SubSeq(bytes, m + 1, Len(bytes)),
         incoming' = <<>> => m = Len(bytes),
         unread' = SubSeq(unread, Len(taken') + 1, Len(unread))
  PROVE  /\ buffer' \in Seq(FrameBytes) /\ unread' \in Seq(Frame) /\ CloseLast(unread')
         /\ Laid(buffer' \o incoming', unread')
         /\ TakenAsSent
<1>1. PICK last \in 0..Len(unread) : TakenOf(bytes, unread, m, last)
  BY TakenOfLaid
<1>2. taken' = Wholes(unread, 0, last) /\ Len(taken') = last
  BY <1>1, Zenon DEF TakenOf
<1>3. /\ buffer' \in Seq(FrameBytes) /\ unread' = SubSeq(unread, last + 1, Len(unread))
      /\ unread' \in Seq(Frame) /\ CloseLast(unread') /\ Laid(buffer' \o incoming', unread')
      /\ incoming' = <<>> => unread' = <<>>
  BY <1>1, <1>2, Zenon DEF TakenOf
<1>4. Len(unread) \in Nat /\ last \in Nat /\ last <= Len(unread)
  BY DEF Laid
<1>5. taken' = [i \in DOMAIN taken' |-> [header |-> <<1, unread[i]>>, payload |-> Payload(unread[i])]]
  <2>1. taken' = [i \in 1..last |-> Whole(unread[0 + i])]
    BY <1>2 DEF Wholes
  <2>2. \A i \in 1..last : 0 + i = i
    BY <1>4
  <2>3. taken' = [i \in 1..last |-> Whole(unread[i])]
    BY <2>1, <2>2
  <2>4. DOMAIN taken' = 1..last
    BY <2>3
  <2> QED
    BY <2>3, <2>4, Zenon DEF Whole
<1> QED
  BY <1>2, <1>3, <1>4, <1>5 DEF TakenAsSent

\* While the socket is open the client has the headers and what follows them.
LEMMA DataStep ==
  ASSUME StreamInv, NEW n \in 1..Len(incoming), Data(n)
  PROVE  StreamInv' /\ (upgraded' => TakenAsSent)
<1> DEFINE whole == buffer \o incoming
           m == Len(buffer) + n
           bytes == buffer \o SubSeq(incoming, 1, n)
<1>1. /\ socket = "open" /\ socket' = socket /\ frames' = frames
      /\ incoming' = SubSeq(incoming, n + 1, Len(incoming))
      /\ unread' = SubSeq(unread, Len(taken') + 1, Len(unread))
  BY DEF Data
<1>2. /\ frames \in Nat /\ unread \in Seq(Frame) /\ CloseLast(unread)
      /\ buffer \in Seq(StreamBytes) /\ incoming \in Seq(StreamBytes)
  BY DEF StreamInv
<1>3. /\ whole \in Seq(StreamBytes)
      /\ m \in 1..Len(whole) /\ (m = Len(whole) <=> n = Len(incoming))
      /\ bytes = SubSeq(whole, 1, m)
      /\ incoming' = SubSeq(whole, m + 1, Len(whole))
      /\ incoming' \in Seq(StreamBytes) /\ (incoming' = <<>> => n = Len(incoming))
  <2> DEFINE a == buffer
             b == incoming
  <2>1. a \in Seq(StreamBytes) /\ b \in Seq(StreamBytes) /\ n \in 1..Len(b)
    BY <1>2
  <2> HIDE DEF StreamBytes, a, b
  <2>2. /\ a \o b \in Seq(StreamBytes) /\ Len(a \o b) = Len(a) + Len(b)
        /\ Len(a) + n \in 1..Len(a \o b) /\ (Len(a) + n = Len(a \o b) <=> n = Len(b))
        /\ a \o SubSeq(b, 1, n) = SubSeq(a \o b, 1, Len(a) + n)
        /\ SubSeq(b, n + 1, Len(b)) = SubSeq(a \o b, Len(a) + n + 1, Len(a \o b))
        /\ SubSeq(b, n + 1, Len(b)) \in Seq(StreamBytes)
        /\ SubSeq(b, n + 1, Len(b)) = <<>> => n = Len(b)
    BY <2>1, CutJoined
  <2> QED
    BY <2>2, <1>1, Zenon DEF a, b
<1> HIDE DEF whole, m, bytes
<1>4. CASE upgraded
  <2>1. HandleFrames(bytes) /\ upgraded' = upgraded
    BY <1>4 DEF Data, bytes
  <2>2. buffer' = TakeFrames(bytes).rest /\ taken' = TakeFrames(bytes).frames
    BY <2>1 DEF HandleFrames
  <2>3. Laid(whole, unread)
    BY <1>4 DEF StreamInv, whole
  <2>4. m \in 0..Len(whole) /\ (incoming' = <<>> => m = Len(whole))
    BY <1>3
  <2>5. /\ buffer' \in Seq(FrameBytes) /\ unread' \in Seq(Frame) /\ CloseLast(unread')
        /\ Laid(buffer' \o incoming', unread')
        /\ TakenAsSent
    BY <1>1, <1>2, <1>3, <2>2, <2>3, <2>4, TakingStep
  <2>6. buffer' \in Seq(StreamBytes)
    BY <2>5, StreamBytesAre
  <2> QED
    BY <2>1, <2>5, <2>6, <1>1, <1>2, <1>3, <1>4 DEF StreamInv
<1>5. CASE ~upgraded
  <2>1. HandleHandshake(bytes)
    BY <1>5 DEF Data, bytes
  <2>2. PICK status \in Statuses, w \in Seq(FrameBytes) :
          Laid(w, unread) /\ whole = Headers(status) \o w
    BY <1>1, <1>5 DEF StreamInv, whole
  <2> DEFINE ends == {i \in 4..Len(bytes) : SubSeq(bytes, i - 3, i) = HeaderEnd}
             end == CHOOSE i \in ends : \A j \in ends : i <= j
  <2>3. /\ Len(bytes) = m
        /\ ends # {} =>
             /\ m - 5 \in 0..Len(w) /\ end = 5
             /\ SubSeq(bytes, 5 + 1, Len(bytes)) = SubSeq(w, 1, m - 5)
             /\ SubSeq(whole, m + 1, Len(whole)) = SubSeq(w, (m - 5) + 1, Len(w))
             /\ (m = Len(whole) <=> m - 5 = Len(w))
    <3>1. whole = Headers(status) \o w /\ m \in 1..Len(whole) /\ bytes = SubSeq(whole, 1, m)
      BY <1>3, <2>2
    <3>2. HeadersFirst(whole, bytes, w, m)
      <4> HIDE DEF FrameBytes, ends
      <4> QED
        BY <3>1, HeadersEnd
    <3>3. m \in Nat
      BY <1>3
    <3>4. \A i \in ends : i \in Nat /\ i >= 5 /\ i <= m
      <4> SUFFICES ASSUME NEW i \in ends PROVE i \in Nat /\ i >= 5 /\ i <= m
        OBVIOUS
      <4>1. i \in 4..m /\ SubSeq(bytes, i - 3, i) = HeaderEnd
        BY <3>2 DEF HeadersFirst
      <4>2. i >= 5
        BY <4>1, <3>2 DEF HeadersFirst
      <4> QED
        BY <4>1, <4>2, <3>3
    <3>5. m >= 5 => 5 \in ends
      <4>1. 5 - 3 = 2 /\ (m >= 5 => 5 \in 4..m)
        BY <3>3
      <4> QED
        BY <3>2, <4>1 DEF HeadersFirst
    <3> HIDE DEF ends
    <3>6. ASSUME ends # {} PROVE m >= 5 /\ end = 5
      <4>1. m >= 5
        BY <3>3, <3>4, <3>6
      <4>2. 5 \in ends /\ \A i \in ends : 5 <= i
        BY <4>1, <3>4, <3>5
      <4>3. \A i \in ends : (\A j \in ends : i <= j) => i = 5
        BY <4>2, <3>4
      <4> QED
        BY <4>1, <4>2, <4>3
    <3> QED
      BY <3>2, <3>6 DEF HeadersFirst
  <2>4. ASSUME buffer' = bytes, taken' = <<>>, upgraded' = upgraded
        PROVE  StreamInv' /\ (upgraded' => TakenAsSent)
    <3>1. unread' = unread
      <4>1. Len(taken') + 1 = 1
        BY <2>4
      <4>2. unread' = SubSeq(unread, 1, Len(unread))
        BY <4>1, <1>1
      <4> HIDE DEF Frame
      <4> QED
        BY <4>2, <1>2
    <3>2. buffer' \in Seq(StreamBytes) /\ buffer' \o incoming' = whole
      <4> HIDE DEF StreamBytes
      <4>1. m \in 0..Len(whole) /\ 0 \in 0..m
        BY <1>3
      <4>2. bytes \in Seq(StreamBytes) /\ Len(bytes) = m
        BY <4>1, <1>3, Prefix
      <4>3. SubSeq(SubSeq(whole, 1, m), 0 + 1, m) \o SubSeq(whole, m + 1, Len(whole)) = SubSeq(whole, 0 + 1, Len(whole))
        BY <4>1, <1>3, RestRejoined
      <4>4. SubSeq(bytes, 1, m) = bytes /\ SubSeq(whole, 1, Len(whole)) = whole
        BY <4>2, <1>3
      <4>5. 0 + 1 = 1
        OBVIOUS
      <4>6. bytes \o incoming' = whole
        BY <4>3, <4>4, <4>5, <1>3, Zenon
      <4> QED
        BY <4>2, <4>6, <2>4
    <3>3. \E st \in Statuses, v \in Seq(FrameBytes) :
            Laid(v, unread') /\ buffer' \o incoming' = Headers(st) \o v
      BY <3>1, <3>2, <2>2
    <3> QED
      BY <3>1, <3>2, <3>3, <2>4, <1>1, <1>2, <1>3, <1>5 DEF StreamInv
  <2>5. CASE ends = {}
    <3>1. buffer' = bytes /\ taken' = <<>> /\ upgraded' = upgraded
      BY <2>1, <2>5 DEF HandleHandshake
    <3> QED
      BY <3>1, <2>4
  <2>6. CASE ends # {}
    <3>1. Upgraded(bytes, 5)
      <4>1. Upgraded(bytes, end)
        BY <2>1, <2>6, Zenon DEF HandleHandshake
      <4> QED
        BY <4>1, <2>3, <2>6
    <3>2. CASE bytes[1] = <<0, "101">>
      <4>1. /\ upgraded' = TRUE
            /\ buffer' = TakeFrames(SubSeq(bytes, 5 + 1, Len(bytes))).rest
            /\ taken' = TakeFrames(SubSeq(bytes, 5 + 1, Len(bytes))).frames
        BY <3>1, <3>2 DEF Upgraded
      <4> DEFINE k == m - 5
      <4>2. /\ k \in 0..Len(w)
            /\ buffer' = TakeFrames(SubSeq(w, 1, k)).rest
            /\ taken' = TakeFrames(SubSeq(w, 1, k)).frames
            /\ incoming' = SubSeq(w, k + 1, Len(w))
            /\ incoming' = <<>> => k = Len(w)
        <5>1. incoming' = <<>> => m = Len(whole)
          BY <1>3
        <5> HIDE DEF ends, end
        <5> QED
          BY <5>1, <4>1, <2>3, <2>6, <1>3, Zenon
      <4> HIDE DEF k, ends, end
      <4>3. /\ buffer' \in Seq(FrameBytes) /\ unread' \in Seq(Frame) /\ CloseLast(unread')
            /\ Laid(buffer' \o incoming', unread')
            /\ TakenAsSent
        BY <4>2, <1>1, <1>2, <2>2, TakingStep
      <4>4. buffer' \in Seq(StreamBytes)
        BY <4>3, StreamBytesAre
      <4> QED
        BY <4>1, <4>3, <4>4, <1>1, <1>2, <1>3 DEF StreamInv
    <3>3. CASE bytes[1] # <<0, "101">>
      <4>1. buffer' = bytes /\ taken' = <<>> /\ upgraded' = upgraded
        BY <3>1, <3>3 DEF Upgraded, Fails
      <4> QED
        BY <4>1, <2>4
    <3> QED
      BY <3>2, <3>3
  <2> QED
    BY <2>5, <2>6
<1> QED
  BY <1>4, <1>5

LEMMA SmokeStep ==
  ASSUME StreamInv, [SmokeNext]_smokeVars
  PROVE  /\ StreamInv'
         /\ upgraded' /\ incoming' # incoming /\ frames' = frames => TakenAsSent
<1>1. ASSUME UNCHANGED <<upgraded, buffer, incoming, unread, frames>>,
             socket' = socket \/ socket' = "gone" \/ (socket = "idle" /\ socket' = "connecting")
      PROVE  StreamInv' /\ incoming' = incoming
  <2>1. /\ upgraded' = upgraded /\ buffer' = buffer /\ incoming' = incoming
        /\ unread' = unread /\ frames' = frames
    BY <1>1
  <2>2. upgraded' => socket' \in {"open", "gone"} /\ Laid(buffer' \o incoming', unread')
    BY <2>1, <1>1 DEF StreamInv
  <2>3. ~upgraded' /\ socket' \in {"idle", "connecting"} => buffer' = <<>> /\ incoming' = <<>> /\ unread' = <<>>
    BY <2>1, <1>1 DEF StreamInv
  <2>4. ~upgraded' /\ socket' = "open" =>
          \E status \in Statuses, w \in Seq(FrameBytes) :
            Laid(w, unread') /\ buffer' \o incoming' = Headers(status) \o w
    <3>1. ~upgraded' /\ socket' = "open" => ~upgraded /\ socket = "open"
      BY <2>1, <1>1
    <3> QED
      BY <2>1, <3>1, Zenon DEF StreamInv
  <2>5. /\ frames' \in Nat /\ unread' \in Seq(Frame) /\ CloseLast(unread')
        /\ buffer' \in Seq(StreamBytes) /\ incoming' \in Seq(StreamBytes)
    BY <2>1 DEF StreamInv
  <2> QED
    BY <2>1, <2>2, <2>3, <2>4, <2>5, Zenon DEF StreamInv
<1>2. CASE Connect
  BY <1>1, <1>2 DEF Connect
<1>3. ASSUME NEW status \in Statuses, AnswerUpgrade(status)
      PROVE  StreamInv' /\ (upgraded' => FALSE)
  <2>1. /\ socket = "connecting" /\ socket' = "open" /\ upgraded' = upgraded /\ buffer' = buffer
        /\ unread' = unread /\ frames' = frames /\ incoming' = <<<<0, status>>>> \o HeaderEnd
    BY <1>3 DEF AnswerUpgrade
  <2>2. ~upgraded
    BY <2>1 DEF StreamInv
  <2>3. buffer = <<>> /\ unread = <<>>
    BY <2>1, <2>2 DEF StreamInv
  <2>4. incoming' = Headers(status) /\ incoming' \in Seq(StreamBytes)
    BY <2>1, StreamBytesAre
  <2>5. buffer' \o incoming' = Headers(status) \o <<>>
    <3> HIDE DEF StreamBytes
    <3>1. <<>> \o incoming' = incoming' /\ incoming' \o <<>> = incoming'
      BY <2>4, ConcatEmptySeq
    <3> QED
      BY <3>1, <2>1, <2>3, <2>4, Zenon
  <2>6. Laid(<<>>, unread') /\ <<>> \in Seq(FrameBytes)
    BY <2>1, <2>3, LaidNothing
  <2> QED
    BY <2>1, <2>2, <2>4, <2>5, <2>6 DEF StreamInv
<1>4. ASSUME NEW f \in Frame, SendFrame(f)
      PROVE  StreamInv' /\ frames' # frames
  <2>1. /\ socket = "open" /\ socket' = socket /\ upgraded' = upgraded /\ buffer' = buffer
        /\ unread' = Append(unread, f) /\ frames' = frames + 1 /\ incoming' = incoming \o EncodeFrame(f)
        /\ \A i \in DOMAIN unread : unread[i].opcode # "close"
    BY <1>4 DEF SendFrame
  <2>2. /\ frames \in Nat /\ unread \in Seq(Frame)
        /\ buffer \in Seq(StreamBytes) /\ incoming \in Seq(StreamBytes)
    BY DEF StreamInv
  <2>3. frames' \in Nat /\ frames' # frames
    BY <2>1, <2>2
  <2>4. unread' \in Seq(Frame) /\ Len(unread') = Len(unread) + 1 /\ \A i \in 1..Len(unread) : unread'[i] = unread[i]
    <3> HIDE DEF Frame
    <3> QED
      BY <2>1, <2>2, AppendProperties
  <2>5. CloseLast(unread')
    <3> SUFFICES ASSUME NEW k \in 1..Len(unread'), unread'[k].opcode = "close" PROVE k = Len(unread')
      BY DEF CloseLast
    <3>1. Len(unread) \in Nat /\ DOMAIN unread = 1..Len(unread)
      BY <2>2
    <3>2. k \notin 1..Len(unread)
      BY <3>1, <2>1, <2>4
    <3> QED
      BY <3>1, <3>2, <2>4
  <2>6. EncodeFrame(f) \in Seq(StreamBytes)
    BY EncodedFrame, StreamBytesAre
  <2>7. incoming' \in Seq(StreamBytes)
    <3> HIDE DEF StreamBytes
    <3> QED
      BY <2>1, <2>2, <2>6, ConcatProperties
  <2>8. buffer' \o incoming' = (buffer \o incoming) \o EncodeFrame(f)
    <3> DEFINE e == EncodeFrame(f)
    <3> HIDE DEF StreamBytes, e
    <3>1. buffer \o (incoming \o e) = (buffer \o incoming) \o e
      BY <2>2, <2>6, ConcatAssociative, SMTT(40) DEF e
    <3> QED
      BY <3>1, <2>1, Zenon DEF e
  <2>9. CASE upgraded
    <3>1. Laid(buffer' \o incoming', unread')
      BY <2>1, <2>8, <2>9, LaidAppend DEF StreamInv
    <3> QED
      BY <3>1, <2>1, <2>2, <2>3, <2>4, <2>5, <2>7, <2>9 DEF StreamInv
  <2>10. CASE ~upgraded
    <3>1. PICK status \in Statuses, w \in Seq(FrameBytes) :
            Laid(w, unread) /\ buffer \o incoming = Headers(status) \o w
      BY <2>1, <2>10 DEF StreamInv
    <3>2. Laid(w \o EncodeFrame(f), unread')
      BY <3>1, <2>1, LaidAppend
    <3>3. w \o EncodeFrame(f) \in Seq(FrameBytes)
      BY <3>2 DEF Laid
    <3>4. buffer' \o incoming' = Headers(status) \o (w \o EncodeFrame(f))
      <4>1. w \in Seq(StreamBytes) /\ Headers(status) \in Seq(StreamBytes)
        BY StreamBytesAre
      <4> DEFINE e == EncodeFrame(f)
                 h == Headers(status)
      <4> HIDE DEF StreamBytes, e, h
      <4>2. h \o (w \o e) = (h \o w) \o e
        BY <4>1, <2>6, ConcatAssociative DEF e, h
      <4> QED
        BY <4>2, <3>1, <2>8, Zenon DEF e, h
    <3> QED
      BY <3>2, <3>3, <3>4, <2>1, <2>2, <2>3, <2>4, <2>5, <2>7, <2>10 DEF StreamInv
  <2> QED
    BY <2>3, <2>9, <2>10
<1>5. ASSUME NEW n \in 1..Len(incoming), Data(n)
      PROVE  StreamInv' /\ (upgraded' => TakenAsSent)
  BY <1>5, DataStep
<1>6. CASE ConnectTimesOut
  BY <1>1, <1>6 DEF ConnectTimesOut
<1>7. CASE RequestTimesOut
  BY <1>1, <1>7 DEF RequestTimesOut
<1>8. ASSUME NEW withError \in BOOLEAN, SocketCloses(withError)
      PROVE  StreamInv' /\ incoming' = incoming
  BY <1>1, <1>8 DEF SocketCloses
<1>9. CASE UNCHANGED smokeVars
  BY <1>1, <1>9 DEF smokeVars
<1> QED
  BY <1>2, <1>3, <1>4, <1>5, <1>6, <1>7, <1>8, <1>9, <1>1 DEF SmokeNext, Connect, ConnectTimesOut, RequestTimesOut, smokeVars

\* The client of the smoke test takes the frames app-server sent, whole, in order
\* and each once, and leaves none that is there, for every size of a frame, every
\* number of frames and wherever the stream is cut (handleHandshake, handleFrames
\* and decodeFrame of smoke-app-server.mjs).
THEOREM SmokeTakesWhole == SmokeInit /\ [][SmokeNext]_smokeVars => FramesArriveWhole
<1> DEFINE Step == upgraded' /\ incoming' # incoming /\ frames' = frames => TakenAsSent
<1>1. SmokeInit => StreamInv
  <2> SUFFICES ASSUME SmokeInit PROVE StreamInv
    OBVIOUS
  <2>1. CloseLast(<<>>)
    BY DEF CloseLast
  <2> HIDE DEF StreamBytes, Frame
  <2> QED
    BY <2>1 DEF SmokeInit, StreamInv
<1>2. StreamInv /\ [SmokeNext]_smokeVars => StreamInv' /\ Step
  BY SmokeStep
<1>3. Step => [upgraded' /\ incoming' # incoming /\ frames' = frames =>
       /\ Len(taken') <= Len(unread)
       /\ taken' = [i \in DOMAIN taken' |->
                      [header |-> <<1, unread[i]>>, payload |-> Payload(unread[i])]]
       /\ incoming' = <<>> => unread' = <<>>]_smokeVars
  BY DEF TakenAsSent
<1> QED
  BY <1>1, <1>2, <1>3, PTL DEF FramesArriveWhole
=============================================================================
