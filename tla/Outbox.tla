------------------------------- MODULE Outbox -------------------------------
(***************************************************************************)
(* What the phone's send queue promises, without a queue: rows and errors  *)
(* wait for their turn, the oldest first, and every status, settings or    *)
(* detail slot holds at most its newest message.  At most one message is   *)
(* on the air.  The order in which slots and rows are served relative to   *)
(* each other is not promised.                                             *)
(***************************************************************************)
EXTENDS Naturals, FiniteSets

CONSTANTS Threads, NoThread, Priority, Capacity, MaxSends

VARIABLES
  rows,    \* the waiting rows and errors
  slot,    \* slot |-> the set (at most one) of the message waiting in it
  onAir,   \* the message being sent, if any
  posted   \* number of messages posted

ovars == <<rows, slot, onAir, posted>>

\* A slot is a type of message, for details with their thread.
LowSlots == ({"sync_status", "settings_state"} \X {NoThread}) \cup ({"detail_update"} \X Threads)

Used == {k \in LowSlots : slot[k] # {}}

WaitingMessages == rows \cup UNION {slot[k] : k \in LowSlots}

Full == Cardinality(WaitingMessages) >= Capacity

Init ==
  /\ rows = {}
  /\ slot = [k \in LowSlots |-> {}]
  /\ onAir = {}
  /\ posted = 0

\* An idle outbox sends at once.
PostIdle(m) ==
  /\ onAir = {}
  /\ onAir' = {m}
  /\ UNCHANGED <<rows, slot>>

\* A busy outbox stores a row or an error, giving up a slot when full, and
\* refuses it only when rows and errors fill every place.
PostRow(m) ==
  /\ onAir # {}
  /\ \/ /\ ~Full
        /\ rows' = rows \cup {m}
        /\ UNCHANGED slot
     \/ /\ Full
        /\ \E k \in Used : slot' = [slot EXCEPT ![k] = {}]
        /\ rows' = rows \cup {m}
     \/ /\ Full /\ Used = {}
        /\ UNCHANGED <<rows, slot>>
  /\ UNCHANGED onAir

\* A busy outbox keeps the newest message of a slot.
PostLatest(m) ==
  LET k == <<m.type, m.thread>> IN
  /\ onAir # {}
  /\ \/ /\ slot[k] # {} \/ ~Full
        /\ slot' = [slot EXCEPT ![k] = {m}]
     \/ /\ slot[k] = {} /\ Full
        /\ \E old \in Used : slot' = [slot EXCEPT ![old] = {}, ![k] = {m}]
     \/ /\ Full /\ Used = {}
        /\ UNCHANGED slot
  /\ UNCHANGED <<rows, onAir>>

\* The message on the air is done with; the oldest row or any slot follows.
Done ==
  /\ onAir # {}
  /\ \/ \E m \in rows :
          /\ \A r \in rows : m.n <= r.n
          /\ onAir' = {m} /\ rows' = rows \ {m}
          /\ UNCHANGED slot
     \/ /\ \E k \in Used : onAir' = slot[k] /\ slot' = [slot EXCEPT ![k] = {}]
        /\ UNCHANGED rows
     \/ /\ rows = {} /\ Used = {}
        /\ onAir' = {}
        /\ UNCHANGED <<rows, slot>>
  /\ UNCHANGED posted

Msg(type, thread) == [type |-> type, thread |-> thread, n |-> posted + 1]

Post ==
  /\ posted < MaxSends
  /\ \/ \E type \in Priority :
          LET m == Msg(type, NoThread) IN PostIdle(m) \/ PostRow(m)
     \/ \E k \in LowSlots :
          LET m == Msg(k[1], k[2]) IN PostIdle(m) \/ PostLatest(m)
  /\ posted' = posted + 1

Next == Post \/ Done

Spec == Init /\ [][Next]_ovars

=============================================================================
