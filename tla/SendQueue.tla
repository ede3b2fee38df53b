----------------------------- MODULE SendQueue -----------------------------
(***************************************************************************)
(* The phone's outgoing message queue (src/pkjs/index.js, sendEnvelope     *)
(* down to flushSendQueue).  Every message for the watch goes through it.  *)
(* One message at a time is handed to Pebble.sendAppMessage; the others    *)
(* wait in sendQueue.  A waiting status, settings or detail message is     *)
(* replaced by a newer one of the same kind (for details: of the same      *)
(* thread), and a full queue gives up such a message before it refuses a   *)
(* new one.                                                                *)
(*                                                                         *)
(* A message is a record                                                   *)
(*    type   - its MessageType                                             *)
(*    thread - the thread a detail_update is about, NoThread otherwise     *)
(*    n      - its place in the order in which sendEnvelope was called     *)
(* The rest of the payload never influences the queue.                     *)
(***************************************************************************)
EXTENDS Naturals, Sequences, FiniteSets, SequencesExt

CONSTANTS
  Threads,     \* thread ids that detail updates can be about
  NoThread,    \* the thread of every other message
  Priority,    \* message types that are never replaced: job rows, errors
  QueueMax,    \* SEND_QUEUE_MAX
  MaxSends     \* bound: number of sendEnvelope calls in a behaviour

ASSUME QueueMaxAssumption == QueueMax \in Nat \ {0}
ASSUME MaxSendsAssumption == MaxSends \in Nat
ASSUME NoThreadAssumption == NoThread \notin Threads

VARIABLES
  sendQueue,    \* the queue; its head is the message being sent
  sending,      \* Pebble has not called back for the head yet
  outstanding,  \* messages handed to Pebble and not called back
  posted,       \* number of calls of sendEnvelope
  received      \* messages the watch received, in order

vars == <<sendQueue, sending, outstanding, posted, received>>

-----------------------------------------------------------------------------
(* Messages. *)

LowPriority == {"sync_status", "settings_state", "detail_update"}

ASSUME PriorityAssumption == Priority \cap LowPriority = {}

Message == [type : LowPriority \cup Priority,
            thread : Threads \cup {NoThread},
            n : 1..MaxSends]

IsLow(m) == m.type \in LowPriority

\* Two messages compete for one place in the queue.
SameSlot(m, q) == IsLow(m) /\ m.type = q.type /\ m.thread = q.thread

-----------------------------------------------------------------------------
(* The searches of enqueueMessage.  The head is off limits while it is     *)
(* being sent.                                                             *)

\* Mutant: the head is up for replacement while it is being sent.
FirstFreeIgnoringSending == 1

FirstFree == IF sending THEN 2 ELSE 1

Coalescable(m) == {i \in FirstFree..Len(sendQueue) : SameSlot(m, sendQueue[i])}

\* Mutant: any message may be dropped.
DroppableAny == FirstFree..Len(sendQueue)

Droppable == {i \in FirstFree..Len(sendQueue) : IsLow(sendQueue[i])}

Init ==
  /\ sendQueue = <<>>
  /\ sending = FALSE
  /\ outstanding = {}
  /\ posted = 0
  /\ received = <<>>

\* Mutant: a send is started only for a message that is alone in the queue.
FlushOnlyIfAlone(queue, busy, unanswered) ==
  /\ sendQueue' = queue
  /\ sending' = (busy \/ Len(queue) = 1)
  /\ outstanding' = IF busy \/ Len(queue) # 1 THEN unanswered
                                              ELSE unanswered \cup {Head(queue)}

\* flushSendQueue, given the queue and the flag its caller leaves behind and
\* the messages Pebble has not answered.
FlushSendQueue(queue, busy, unanswered) ==
  /\ sendQueue' = queue
  /\ sending' = (busy \/ queue # <<>>)
  /\ outstanding' = IF busy \/ queue = <<>> THEN unanswered
                                            ELSE unanswered \cup {Head(queue)}

\* Mutant: the waiting message wins over the newer one.
CoalesceKeepsOld(m) ==
  /\ Coalescable(m) # {}
  /\ FlushSendQueue(sendQueue, sending, outstanding)

\* The last waiting message of m's slot gives its place to m.
Coalesce(m) ==
  \E i \in Coalescable(m) :
    /\ \A j \in Coalescable(m) : j <= i
    /\ FlushSendQueue([sendQueue EXCEPT ![i] = m], sending, outstanding)

\* There is room at the end of the queue.
AppendMessage(m) ==
  /\ Coalescable(m) = {}
  /\ Len(sendQueue) < QueueMax
  /\ FlushSendQueue(Append(sendQueue, m), sending, outstanding)

\* Mutant: the new message takes the place of the dropped one.
EvictInPlace(m) ==
  /\ Coalescable(m) = {}
  /\ Len(sendQueue) >= QueueMax
  /\ \E i \in Droppable : FlushSendQueue([sendQueue EXCEPT ![i] = m], sending, outstanding)

\* The queue is full and the oldest replaceable message makes room.
EvictAndAppend(m) ==
  /\ Coalescable(m) = {}
  /\ Len(sendQueue) >= QueueMax
  /\ \E i \in Droppable :
       /\ \A j \in Droppable : i <= j
       /\ FlushSendQueue(Append(RemoveAt(sendQueue, i), m), sending, outstanding)

\* The queue is full of messages that may not be dropped: m is lost.
Refuse(m) ==
  /\ Coalescable(m) = {}
  /\ Len(sendQueue) >= QueueMax
  /\ Droppable = {}
  /\ FlushSendQueue(sendQueue, sending, outstanding)

SendEnvelope(type, thread) ==
  LET m == [type |-> type, thread |-> thread, n |-> posted + 1] IN
  /\ posted < MaxSends
  /\ Coalesce(m) \/ AppendMessage(m) \/ EvictAndAppend(m) \/ Refuse(m)
  /\ posted' = posted + 1
  /\ UNCHANGED received

\* The shift of either callback of sendAppMessage, and the next send.
Shift(m) ==
  /\ FlushSendQueue(Tail(sendQueue), FALSE, outstanding \ {m})
  /\ UNCHANGED posted

\* The watch acknowledged m.
Acked(m) ==
  /\ m \in outstanding
  /\ Shift(m)
  /\ received' = Append(received, m)

\* Pebble reports failure; the watch has m when only its answer was lost.
Failed(m) ==
  /\ m \in outstanding
  /\ Shift(m)
  /\ received' \in {received, Append(received, m)}

Post ==
  \/ \E type \in Priority \cup {"sync_status", "settings_state"} :
       SendEnvelope(type, NoThread)
  \/ \E thread \in Threads : SendEnvelope("detail_update", thread)

Callback == \E m \in outstanding : Acked(m) \/ Failed(m)

Next == Post \/ Callback

Spec == Init /\ [][Next]_vars

\* Pebble calls one of the two callbacks for every message it is handed.
FairSpec == Spec /\ WF_vars(Callback)

-----------------------------------------------------------------------------
(* Properties. *)

TypeOK ==
  /\ sendQueue \in Seq(Message)
  /\ sending \in BOOLEAN
  /\ outstanding \subseteq Message
  /\ posted \in 0..MaxSends
  /\ received \in Seq(Message)

\* The message a callback shifts off the queue is the very message that was
\* handed to Pebble: no replacement or eviction ever touches it, and nothing
\* waits while nothing is being sent (flushSendQueue and its callbacks).
HeadIsOutstanding ==
  /\ sending <=> sendQueue # <<>>
  /\ outstanding = IF sending THEN {Head(sendQueue)} ELSE {}

\* The queue never holds more than SEND_QUEUE_MAX messages (enqueueMessage).
QueueBounded == Len(sendQueue) <= QueueMax

\* At most one message of a slot waits behind the head, so a watch that falls
\* behind is never sent two generations of a status or of a thread's details
\* that were both still waiting (coalescableQueuedMessageIndex).
SlotsUnique ==
  \A i, j \in 2..Len(sendQueue) :
    SameSlot(sendQueue[i], sendQueue[j]) => i = j

\* The watch must not get b before a.
MustPrecede(a, b) == (~IsLow(a) /\ ~IsLow(b)) \/ SameSlot(a, b)

\* If the order of a and b matters, a was posted first.
Ordered(a, b) == MustPrecede(a, b) => a.n < b.n

\* Replacing in place and dropping from the middle never reorder what must
\* stay in order: the watch gets rows and errors in the order they were
\* posted, and never a status, settings or detail older than one of the same
\* slot that it already has (enqueueMessage, dropQueuedLowPriorityMessage).
InOrder ==
  /\ \A i, j \in 1..Len(received) : i < j => Ordered(received[i], received[j])
  /\ \A i, j \in 1..Len(sendQueue) : i < j => Ordered(sendQueue[i], sendQueue[j])
  /\ \A i \in 1..Len(received), j \in 1..Len(sendQueue) :
       Ordered(received[i], sendQueue[j])

\* A row or an error leaves the queue only when Pebble has answered for it,
\* however full the queue gets (dropQueuedLowPriorityMessage).
PriorityKept ==
  [][\A i \in 1..Len(sendQueue) :
       ~IsLow(sendQueue[i]) =>
         \/ sendQueue[i] \in outstanding \ outstanding'
         \/ \E j \in 1..Len(sendQueue') : sendQueue'[j] = sendQueue[i]]_vars

\* A message is refused only when every waiting place is taken by rows and
\* errors (enqueueMessage).
RefusedOnlyWhenSaturated ==
  [][(posted' # posted /\ \A i \in 1..Len(sendQueue') : sendQueue'[i].n # posted') =>
       /\ Len(sendQueue) = QueueMax
       /\ \A i \in 2..Len(sendQueue) : ~IsLow(sendQueue[i])]_vars

\* Every row or error that enters the queue is handed to Pebble, whatever else
\* is posted meanwhile: the callbacks keep the queue moving (flushSendQueue).
PriorityHandedOver ==
  \A n \in 1..MaxSends :
    (\E i \in 1..Len(sendQueue) : sendQueue[i].n = n /\ ~IsLow(sendQueue[i]))
      ~> (\E m \in outstanding : m.n = n)

-----------------------------------------------------------------------------
(* The queue implements an outbox: rows and errors, the oldest first, and   *)
(* one place per slot for the newest status, settings and details.          *)

Waiting == IF sending THEN Tail(sendQueue) ELSE <<>>

Slots == ({"sync_status", "settings_state"} \X {NoThread}) \cup ({"detail_update"} \X Threads)

Occupant(k) == {m \in ToSet(Waiting) : IsLow(m) /\ k = <<m.type, m.thread>>}

OutboxRows == {m \in ToSet(Waiting) : ~IsLow(m)}

OutboxSlot == [k \in Slots |-> Occupant(k)]

Outbox == INSTANCE Outbox WITH
  rows <- OutboxRows, slot <- OutboxSlot, onAir <- outstanding,
  Capacity <- QueueMax - 1

\* The queue, with its searches and callbacks, keeps the promises of the outbox
\* (sendEnvelope to flushSendQueue).
OutboxSpec == Outbox!Spec

=============================================================================
