--------------------------- MODULE SidecarProofs ---------------------------
(***************************************************************************)
(* Proofs about the sidecar, for every number of connection attempts and   *)
(* either backend: the gate, and the answers of an app-server that has a   *)
(* connection for every session.                                           *)
(***************************************************************************)
EXTENDS Sidecar, SequenceTheorems, FiniteSetTheorems, TLAPS

HandlerStates == {"new", "done"} \cup Holding

(***************************************************************************)
(* The part of the state the gate depends on.                              *)
(***************************************************************************)
Gate == active \in BOOLEAN /\ handler \in [Sessions -> HandlerStates] /\ GateIsHeld

\* A handler that is past the gate moves on without leaving it, or one that
\* never entered it ends: the gate stays as it is.
LEMMA StepKeepsGate ==
  ASSUME Gate, NEW s \in Sessions, NEW from \in HandlerStates, NEW to \in HandlerStates,
         HandlerStep(s, from, to), from \in Holding <=> to \in Holding, active' = active
  PROVE  Gate'
<1>1. /\ handler' \in [Sessions -> HandlerStates]
      /\ \A t \in Sessions : handler'[t] = IF t = s THEN to ELSE handler[t]
      /\ handler[s] = from
  BY DEF Gate, HandlerStep
<1>2. \A t \in Sessions : handler'[t] \in Holding <=> handler[t] \in Holding
  BY <1>1
<1> QED
  BY <1>1, <1>2 DEF Gate, GateIsHeld

\* The compare-and-swap lets one handler in when none is.
LEMMA ClaimKeepsGate ==
  ASSUME Gate, NEW s \in Sessions, Claim(s)
  PROVE  Gate'
<1>1. /\ handler' \in [Sessions -> HandlerStates]
      /\ \A t \in Sessions : handler'[t] = IF t = s THEN "claimed" ELSE handler[t]
  BY DEF Gate, Claim, HandlerStep, HandlerStates, Holding
<1>2. \A t \in Sessions : handler[t] \notin Holding
  BY DEF Gate, GateIsHeld, Claim
<1>3. active' = TRUE /\ "claimed" \in Holding
  BY DEF Claim, Holding
<1> QED
  BY <1>1, <1>2, <1>3 DEF Gate, GateIsHeld

\* The handler that lets go of the gate was the only one past it.
LEMMA ReleaseKeepsGate ==
  ASSUME Gate, NEW s \in Sessions, Release(s)
  PROVE  Gate'
<1>1. /\ handler' \in [Sessions -> HandlerStates]
      /\ \A t \in Sessions : handler'[t] = IF t = s THEN "done" ELSE handler[t]
      /\ handler[s] = "release"
  BY DEF Gate, Release, HandlerStep, HandlerStates
<1>2. "release" \in Holding /\ "done" \notin Holding
  BY DEF Holding
<1>3. \A t \in Sessions : handler'[t] \notin Holding
  BY <1>1, <1>2 DEF Gate, GateIsHeld
<1>4. active' = FALSE
  BY DEF Release
<1> QED
  BY <1>1, <1>3, <1>4 DEF Gate, GateIsHeld

\* Every step keeps the gate.
LEMMA NextGate == Gate /\ [Next]_vars => Gate'
<1> SUFFICES ASSUME Gate, [Next]_vars PROVE Gate'
  OBVIOUS
<1> USE DEF HandlerStates, Holding
<1>1. CASE UNCHANGED <<active, handler>>
  BY <1>1 DEF Gate, GateIsHeld
<1>2. ASSUME NEW s \in Sessions, Rejected(s) \/ Conflict(s) PROVE Gate'
  BY <1>2, StepKeepsGate DEF Rejected, Conflict
<1>3. ASSUME NEW s \in Sessions, Dial(s) \/ DialFails(s) PROVE Gate'
  BY <1>3, StepKeepsGate DEF Dial, DialFails
<1>4. ASSUME NEW s \in Sessions, Upgrade(s) \/ UpgradeFails(s) PROVE Gate'
  BY <1>4, StepKeepsGate DEF Upgrade, UpgradeFails
<1>5. ASSUME NEW s \in Sessions, BridgeEnds(s) \/ CloseLocks(s) PROVE Gate'
  BY <1>5, StepKeepsGate DEF BridgeEnds, CloseLocks
<1>6. ASSUME NEW s \in Sessions, CloseDown(s) \/ CloseUp(s) PROVE Gate'
  BY <1>6, StepKeepsGate DEF CloseDown, CloseUp
<1>7. ASSUME NEW s \in Sessions, Reader(s) PROVE Gate'
  BY <1>1, <1>7 DEF Reader, ReadMessage, ReadEnds, ReplyLocks, ReplyEnds, SendUp
<1>8. ASSUME NEW s \in Sessions, Writer(s) PROVE Gate'
  BY <1>1, <1>8 DEF Writer, Recv, RecvFails, WriteLocks, WriteEnds
<1>9. ASSUME NEW s \in Sessions, Phone(s) PROVE Gate'
  BY <1>1, <1>9 DEF Phone, PhoneSends, PhoneLeaves
<1>10. CASE ServerExits \/ \E c \in Channels : ServerAnswers(c)
  BY <1>1, <1>10 DEF ServerExits, ServerAnswers
<1>11. CASE UNCHANGED vars
  BY <1>1, <1>11 DEF vars
<1> QED
  BY <1>2, <1>3, <1>4, <1>5, <1>6, <1>7, <1>8, <1>9, <1>10, <1>11,
     ClaimKeepsGate, ReleaseKeepsGate DEF Next, Handler

(***************************************************************************)
(* The gate is closed exactly while one session is past it, on every path  *)
(* out of ServeHTTP (Server.active and its deferred reset).                *)
(***************************************************************************)
THEOREM OneSession == Spec => []GateIsHeld
<1>1. Init => Gate
  <2>1. Init => active = FALSE /\ handler = [s \in Sessions |-> "new"]
    BY Zenon DEF Init
  <2> QED
    BY <2>1 DEF Gate, GateIsHeld, HandlerStates, Holding
<1>2. Gate => GateIsHeld
  BY DEF Gate
<1> QED
  BY <1>1, <1>2, NextGate, PTL DEF Spec

-----------------------------------------------------------------------------
(***************************************************************************)
(* Answers over Unix sockets.  A session's messages are numbered from 1;   *)
(* the invariant says where each of them, and each answer, is.             *)
(***************************************************************************)
Numbered == [session : Sessions, n : Nat]

M(s, n) == [session |-> s, n |-> n]

ReaderStates == {"off", "read", "send", "reply", "replying", "out"}
WriterStates == {"off", "recv", "write", "locked", "out"}
PhoneStates == {"asking", "open", "refused", "left"}

Typed ==
  /\ handler \in [Sessions -> HandlerStates]
  /\ reader \in [Sessions -> ReaderStates]
  /\ writer \in [Sessions -> WriterStates]
  /\ sending \in [Sessions -> Numbered \cup {None}]
  /\ writing \in [Sessions -> Numbered \cup {None}]
  /\ phone \in [Sessions -> PhoneStates]
  /\ toServer \in [Sessions -> Seq(Numbered)]
  /\ sent \in [Sessions -> Nat]
  /\ phoneGot \in [Sessions -> Seq(Numbered)]
  /\ serverGot \in [Channels -> Seq(Numbered)]
  /\ served \in [Channels -> Nat]
  /\ fromServer \in [Channels -> Seq(Numbered)]

\* The goroutines start with bridge, after the phone was answered.
NotStarted(s) ==
  /\ handler[s] \in {"new", "claimed", "dialed"} => reader[s] = "off" /\ writer[s] = "off"
  /\ phone[s] = "asking" => writer[s] = "off"

\* The messages k + 1, k + 2, ... of a session.
Run(s, seq, k) == \A i \in 1..Len(seq) : seq[i] = M(s, k + i)

\* How many messages and answers are where.
Waiting(s) == Len(toServer[s])
Taken(s) == Len(serverGot[s])
Coming(s) == Len(fromServer[s])
Shown(s) == Len(phoneGot[s])

\* The next message app-server gets is the one after those it has.
WayUp(s) ==
  /\ Run(s, serverGot[s], 0)
  /\ Waiting(s) <= sent[s]
  /\ Run(s, toServer[s], sent[s] - Waiting(s))
  /\ reader[s] = "send" => sending[s] = M(s, Taken(s) + 1)
  /\ reader[s] \in {"off", "read"} => Taken(s) + Waiting(s) = sent[s]
  /\ reader[s] = "send" => Taken(s) + 1 + Waiting(s) = sent[s]

\* The next answer the phone gets is the one after those it has.
WayDown(s) ==
  /\ Coming(s) <= served[s] /\ served[s] <= Taken(s)
  /\ Run(s, fromServer[s], served[s] - Coming(s))
  /\ writing[s] = IF writer[s] \in {"write", "locked"}
                  THEN M(s, served[s] - Coming(s)) ELSE None
  /\ Run(s, phoneGot[s], 0)
  /\ phone[s] \in {"asking", "open"} /\ writer[s] \in {"off", "recv"} =>
       Shown(s) + Coming(s) = served[s]
  /\ phone[s] \in {"asking", "open"} /\ writer[s] \in {"write", "locked"} =>
       Shown(s) + 1 + Coming(s) = served[s]

Session(s) == NotStarted(s) /\ WayUp(s) /\ WayDown(s)

UInv == transport = "unix" /\ Typed /\ \A s \in Sessions : Session(s)

\* What Session(s) depends on.
View(s) == <<handler[s], reader[s], writer[s], sending[s], writing[s], phone[s],
             toServer[s], sent[s], phoneGot[s], serverGot[s], served[s], fromServer[s]>>

\* A run continued by its next message, and one that lost its first.
LEMMA RunGrows ==
  ASSUME NEW s \in Sessions, NEW seq \in Seq(Numbered), NEW k \in Nat, Run(s, seq, k),
         NEW m, m = M(s, k + Len(seq) + 1)
  PROVE  /\ m \in Numbered /\ Append(seq, m) \in Seq(Numbered)
         /\ Len(Append(seq, m)) = Len(seq) + 1
         /\ Run(s, Append(seq, m), k)
<1>1. Len(seq) \in Nat
  BY LenProperties
<1>2. m \in Numbered
  BY <1>1 DEF M, Numbered
<1>3. /\ Append(seq, m) \in Seq(Numbered) /\ Len(Append(seq, m)) = Len(seq) + 1
      /\ \A i \in 1..Len(seq) : Append(seq, m)[i] = seq[i]
      /\ Append(seq, m)[Len(seq) + 1] = m
  BY <1>2, AppendProperties
<1>4. ASSUME NEW i \in 1..Len(Append(seq, m)) PROVE Append(seq, m)[i] = M(s, k + i)
  <2>1. CASE i \in 1..Len(seq)
    BY <1>3, <2>1 DEF Run
  <2>2. CASE i = Len(seq) + 1
    <3>1. k + Len(seq) + 1 = k + i
      BY <1>1, <2>2
    <3> QED
      BY <1>3, <2>2, <3>1
  <2> QED
    BY <1>1, <1>3, <2>1, <2>2
<1> QED
  BY <1>2, <1>3, <1>4 DEF Run

\* A run without its first message.
LEMMA RunShrinks ==
  ASSUME NEW s \in Sessions, NEW seq \in Seq(Numbered), NEW k \in Nat, Run(s, seq, k),
         seq # <<>>
  PROVE  /\ Head(seq) = M(s, k + 1) /\ Tail(seq) \in Seq(Numbered)
         /\ Len(seq) \in Nat \ {0} /\ Len(Tail(seq)) = Len(seq) - 1
         /\ Run(s, Tail(seq), k + 1)
<1>1. Len(seq) \in Nat \ {0}
  BY EmptySeq
<1>2. Head(seq) = seq[1]
  BY <1>1
<1>3. /\ Tail(seq) \in Seq(Numbered) /\ Len(Tail(seq)) = Len(seq) - 1
      /\ \A i \in 1..Len(Tail(seq)) : Tail(seq)[i] = seq[i + 1]
  BY HeadTailProperties
<1>4. ASSUME NEW i \in 1..Len(Tail(seq)) PROVE Tail(seq)[i] = M(s, (k + 1) + i)
  <2>1. i + 1 \in 1..Len(seq) /\ k + (i + 1) = (k + 1) + i
    BY <1>1, <1>3
  <2> QED
    BY <1>3, <2>1 DEF Run
<1> QED
  BY <1>1, <1>2, <1>3, <1>4 DEF Run

\* What has a length has a number for it.
LEMMA Lengths ==
  ASSUME Typed, NEW s \in Sessions
  PROVE  /\ toServer[s] \in Seq(Numbered) /\ serverGot[s] \in Seq(Numbered)
         /\ fromServer[s] \in Seq(Numbered) /\ phoneGot[s] \in Seq(Numbered)
         /\ sent[s] \in Nat /\ served[s] \in Nat /\ Waiting(s) \in Nat
         /\ Taken(s) \in Nat /\ Coming(s) \in Nat /\ Shown(s) \in Nat
<1>1. /\ toServer[s] \in Seq(Numbered) /\ serverGot[s] \in Seq(Numbered)
      /\ fromServer[s] \in Seq(Numbered) /\ phoneGot[s] \in Seq(Numbered)
      /\ sent[s] \in Nat /\ served[s] \in Nat
  BY DEF Typed, Channels
<1> QED
  BY <1>1, LenProperties DEF Waiting, Taken, Coming, Shown

\* A step of one session or channel leaves the other sessions as they are.
LEMMA OneSessionMoves ==
  ASSUME UInv, transport' = transport, Typed', NEW s, s \in Sessions => Session(s)',
         \A t \in Sessions \ {s} : View(t)' = View(t)
  PROVE  UInv'
<1>1. ASSUME NEW t \in Sessions \ {s} PROVE Session(t)'
  <2>1. View(t)' = View(t) /\ Session(t)
    BY DEF UInv
  <2> QED
    BY <2>1 DEF View, Session, NotStarted, WayUp, WayDown, Waiting, Taken, Coming, Shown
<1> QED
  BY <1>1 DEF UInv

\* A step that touches no message keeps the invariant.
LEMMA NothingMoves ==
  ASSUME UInv,
         UNCHANGED <<transport, handler, reader, writer, sending, writing, phone, toServer,
                     sent, phoneGot, serverGot, served, fromServer>>
  PROVE  UInv'
<1>1. Typed' /\ transport' = "unix"
  BY DEF UInv, Typed
<1>2. ASSUME NEW t \in Sessions PROVE Session(t)'
  <2>1. Session(t) /\ View(t)' = View(t)
    BY DEF UInv, View
  <2> QED
    BY <2>1 DEF View, Session, NotStarted, WayUp, WayDown, Waiting, Taken, Coming, Shown
<1> QED
  BY <1>1, <1>2 DEF UInv

\* ServeHTTP and the phone leaving: no message moves.
LEMMA HandlerMoves ==
  ASSUME UInv, NEW s \in Sessions, NEW h \in HandlerStates, NEW p \in PhoneStates,
         handler' = [handler EXCEPT ![s] = h], phone' = [phone EXCEPT ![s] = p],
         h \in {"new", "claimed", "dialed"} => handler[s] \in {"new", "claimed", "dialed"},
         p = phone[s] \/ p \in {"refused", "left"},
         UNCHANGED <<transport, reader, writer, sending, writing, toServer,
                     sent, phoneGot, serverGot, served, fromServer>>
  PROVE  UInv'
<1>1. /\ handler'[s] = h /\ phone'[s] = p
      /\ \A t \in Sessions \ {s} : handler'[t] = handler[t] /\ phone'[t] = phone[t]
  BY DEF UInv, Typed
<1>2. Typed'
  BY DEF UInv, Typed
<1>3. Session(s)
  BY DEF UInv
<1>4. NotStarted(s)' /\ WayUp(s)'
  BY <1>1, <1>3 DEF Session, NotStarted, WayUp, Waiting, Taken, Coming, Shown
<1>5. WayDown(s)'
  BY <1>1, <1>3 DEF Session, WayDown, Waiting, Taken, Coming, Shown
<1>6. \A t \in Sessions \ {s} : View(t)' = View(t)
  BY <1>1 DEF View
<1> QED
  BY <1>2, <1>4, <1>5, <1>6, OneSessionMoves DEF Session

\* ServeHTTP moves no message.
LEMMA HandlerStepMoves ==
  ASSUME UInv, NEW s \in Sessions,
         Rejected(s) \/ Dial(s) \/ (Handler(s) /\ ~Upgrade(s))
  PROVE  UInv'
<1> USE DEF HandlerStates, Holding, PhoneStates, HandlerStep
<1>1. phone[s] \in PhoneStates
  BY DEF UInv, Typed
<1>2. phone' = phone => phone' = [phone EXCEPT ![s] = phone[s]]
  BY DEF UInv, Typed
<1>3. CASE Rejected(s) \/ Conflict(s)
  BY <1>1, <1>2, <1>3, HandlerMoves DEF Rejected, Conflict, bridgeVars, serverVars
<1>4. CASE Dial(s) \/ DialFails(s)
  BY <1>1, <1>2, <1>4, HandlerMoves DEF Dial, DialFails, bridgeVars, serverVars, phoneVars
<1>5. CASE UpgradeFails(s)
  BY <1>1, <1>2, <1>5, HandlerMoves DEF UpgradeFails, bridgeVars, serverVars
<1>6. CASE BridgeEnds(s)
  BY <1>1, <1>2, <1>6, HandlerMoves DEF BridgeEnds, serverVars, phoneVars
<1>7. CASE CloseLocks(s) \/ CloseDown(s) \/ CloseUp(s)
  BY <1>1, <1>2, <1>7, HandlerMoves DEF CloseLocks, CloseDown, CloseUp, bridgeVars, serverVars, phoneVars
<1>8. CASE Claim(s) \/ Release(s)
  BY <1>1, <1>2, <1>8, HandlerMoves DEF Claim, Release, bridgeVars, serverVars, phoneVars
<1> QED
  BY <1>3, <1>4, <1>5, <1>6, <1>7, <1>8 DEF Handler

\* bridge starts its goroutines when nothing has been read or answered yet.
LEMMA UpgradeMoves ==
  ASSUME UInv, NEW s \in Sessions, Upgrade(s)
  PROVE  UInv'
<1>1. /\ handler[s] = "dialed" /\ handler'[s] = "bridge"
      /\ reader'[s] = "read" /\ writer'[s] = "recv"
      /\ phone'[s] \in {"open", "left"} /\ (phone'[s] = "open" => phone[s] = "asking")
      /\ \A t \in Sessions \ {s} :
           /\ handler'[t] = handler[t] /\ reader'[t] = reader[t]
           /\ writer'[t] = writer[t] /\ phone'[t] = phone[t]
  BY DEF UInv, Typed, Upgrade, HandlerStep
<1>2. UNCHANGED <<transport, sending, writing, toServer, sent, phoneGot, serverGot, served,
                  fromServer>>
  BY DEF Upgrade, serverVars
<1>3. Typed'
  BY <1>1, <1>2 DEF UInv, Typed, Upgrade, HandlerStep, HandlerStates, Holding, ReaderStates,
     WriterStates, PhoneStates
<1>4. Session(s) /\ reader[s] = "off" /\ writer[s] = "off"
  BY <1>1 DEF UInv, Session, NotStarted
<1>5. NotStarted(s)' /\ WayUp(s)'
  BY <1>1, <1>2, <1>4 DEF Session, NotStarted, WayUp, Waiting, Taken, Coming, Shown
<1>6. WayDown(s)'
  BY <1>1, <1>2, <1>4 DEF Session, WayDown, Waiting, Taken, Coming, Shown
<1>7. \A t \in Sessions \ {s} : View(t)' = View(t)
  BY <1>1, <1>2 DEF View
<1> QED
  BY <1>2, <1>3, <1>5, <1>6, <1>7, OneSessionMoves DEF Session

-----------------------------------------------------------------------------
(* The phone. *)

\* A phone that leaves moves no message.
LEMMA PhoneLeavesMoves ==
  ASSUME UInv, NEW s \in Sessions, PhoneLeaves(s)
  PROVE  UInv'
<1>1. handler' = [handler EXCEPT ![s] = handler[s]] /\ handler[s] \in HandlerStates
  BY DEF UInv, Typed, PhoneLeaves
<1> QED
  BY <1>1, HandlerMoves DEF PhoneLeaves, PhoneStates, bridgeVars, serverVars

\* The phone sends the message after its last one.
LEMMA PhoneSendsMoves ==
  ASSUME UInv, NEW s \in Sessions, PhoneSends(s)
  PROVE  UInv'
<1> DEFINE m == M(s, sent[s] + 1)
           k == sent[s] - Waiting(s)
<1>1. Typed /\ Session(s)
  BY DEF UInv
<1>2. /\ toServer[s] \in Seq(Numbered) /\ sent[s] \in Nat
      /\ Waiting(s) \in Nat /\ Taken(s) \in Nat
  BY <1>1, Lengths
<1>3. k \in Nat /\ Run(s, toServer[s], k)
  BY <1>1, <1>2 DEF Session, WayUp
<1>4. m = M(s, k + Len(toServer[s]) + 1)
  <2>1. k + Waiting(s) + 1 = sent[s] + 1
    BY <1>2
  <2> QED
    BY <2>1 DEF Waiting
<1>5. /\ toServer' = [toServer EXCEPT ![s] = Append(toServer[s], m)]
      /\ sent' = [sent EXCEPT ![s] = sent[s] + 1]
  BY DEF PhoneSends, M
<1> HIDE DEF m, k
<1>6. /\ Append(toServer[s], m) \in Seq(Numbered)
      /\ Len(Append(toServer[s], m)) = Len(toServer[s]) + 1
      /\ Run(s, Append(toServer[s], m), k)
  BY <1>2, <1>3, <1>4, RunGrows
<1>7. UNCHANGED <<transport, handler, reader, writer, sending, writing, phone, phoneGot,
                  serverGot, served, fromServer>>
  BY DEF PhoneSends, bridgeVars, serverVars
<1>8. /\ toServer'[s] = Append(toServer[s], m) /\ sent'[s] = sent[s] + 1
      /\ \A t \in Sessions \ {s} : toServer'[t] = toServer[t] /\ sent'[t] = sent[t]
  BY <1>5 DEF UInv, Typed
<1>9. Waiting(s)' = Waiting(s) + 1 /\ Taken(s)' = Taken(s)
  BY <1>6, <1>7, <1>8 DEF Waiting, Taken
<1>10. Typed'
  BY <1>1, <1>2, <1>5, <1>6, <1>7 DEF Typed
<1>11. NotStarted(s)' /\ WayDown(s)'
  BY <1>1, <1>7 DEF Session, NotStarted, WayDown, Taken, Coming, Shown
<1>12. WayUp(s)'
  <2>1. sent'[s] - Waiting(s)' = k
    BY <1>2, <1>8, <1>9 DEF k
  <2>2. Run(s, serverGot'[s], 0) /\ Run(s, toServer'[s], sent'[s] - Waiting(s)')
    BY <1>1, <1>6, <1>7, <1>8, <2>1 DEF Session, WayUp
  <2>3. Waiting(s)' <= sent'[s]
    BY <1>1, <1>2, <1>8, <1>9 DEF Session, WayUp
  <2>4. reader'[s] = "send" => sending'[s] = M(s, Taken(s)' + 1)
    BY <1>1, <1>7, <1>9 DEF Session, WayUp
  <2>5. reader'[s] \in {"off", "read"} => Taken(s)' + Waiting(s)' = sent'[s]
    BY <1>1, <1>2, <1>7, <1>8, <1>9 DEF Session, WayUp
  <2>6. reader'[s] = "send" => Taken(s)' + 1 + Waiting(s)' = sent'[s]
    BY <1>1, <1>2, <1>7, <1>8, <1>9 DEF Session, WayUp
  <2> QED
    BY <2>2, <2>3, <2>4, <2>5, <2>6, Zenon DEF WayUp
<1>13. \A t \in Sessions \ {s} : View(t)' = View(t)
  BY <1>7, <1>8 DEF View
<1> QED
  BY <1>7, <1>10, <1>11, <1>12, <1>13, OneSessionMoves DEF Session

-----------------------------------------------------------------------------
(* The goroutine that reads from the phone. *)

\* The goroutine takes the first message of the phone.
LEMMA ReadMessageMoves ==
  ASSUME UInv, NEW s \in Sessions, ReadMessage(s)
  PROVE  UInv'
<1>1. Typed /\ Session(s)
  BY DEF UInv
<1>2. /\ toServer[s] \in Seq(Numbered) /\ sent[s] \in Nat
      /\ Waiting(s) \in Nat /\ Taken(s) \in Nat
  BY <1>1, Lengths
<1>3. reader[s] = "read" /\ toServer[s] # <<>>
  BY DEF ReadMessage
<1>4. Taken(s) + Waiting(s) = sent[s]
  BY <1>1, <1>3 DEF Session, WayUp
<1>5. Run(s, toServer[s], Taken(s))
  <2>1. sent[s] - Waiting(s) = Taken(s)
    BY <1>2, <1>4
  <2> QED
    BY <1>1, <2>1 DEF Session, WayUp
<1>6. /\ Head(toServer[s]) = M(s, Taken(s) + 1) /\ Tail(toServer[s]) \in Seq(Numbered)
      /\ Len(toServer[s]) \in Nat \ {0} /\ Len(Tail(toServer[s])) = Len(toServer[s]) - 1
      /\ Run(s, Tail(toServer[s]), Taken(s) + 1)
  BY <1>2, <1>3, <1>5, RunShrinks
<1>7. UNCHANGED <<transport, handler, writer, writing, phone, sent, phoneGot, serverGot,
                  served, fromServer>>
  BY DEF ReadMessage, serverVars
<1>8. /\ reader'[s] = "send" /\ sending'[s] = M(s, Taken(s) + 1)
      /\ toServer'[s] = Tail(toServer[s])
      /\ \A t \in Sessions \ {s} :
           reader'[t] = reader[t] /\ sending'[t] = sending[t] /\ toServer'[t] = toServer[t]
  BY <1>1, <1>6 DEF ReadMessage, Typed
<1>9. /\ Waiting(s) \in Nat \ {0} /\ Waiting(s)' = Waiting(s) - 1 /\ Taken(s)' = Taken(s)
  BY <1>6, <1>7, <1>8 DEF Waiting, Taken
<1>10. Typed'
  <2>1. M(s, Taken(s) + 1) \in Numbered
    BY <1>2 DEF M, Numbered
  <2> QED
    BY <1>1, <1>6, <1>7, <2>1 DEF Typed, ReadMessage, ReaderStates
<1>11. NotStarted(s)' /\ WayDown(s)'
  BY <1>1, <1>3, <1>7 DEF Session, NotStarted, WayDown, Taken, Coming, Shown
<1>12. WayUp(s)'
  <2>1. sent'[s] - Waiting(s)' = Taken(s) + 1
    BY <1>2, <1>4, <1>7, <1>9
  <2>2. Run(s, serverGot'[s], 0) /\ Run(s, toServer'[s], sent'[s] - Waiting(s)')
    BY <1>1, <1>6, <1>7, <1>8, <2>1 DEF Session, WayUp
  <2>3. Waiting(s)' <= sent'[s] /\ Taken(s)' + 1 + Waiting(s)' = sent'[s]
    BY <1>2, <1>4, <1>7, <1>9
  <2>4. sending'[s] = M(s, Taken(s)' + 1) /\ reader'[s] \notin {"off", "read"}
    BY <1>8, <1>9
  <2> QED
    BY <2>2, <2>3, <2>4, Zenon DEF WayUp
<1>13. \A t \in Sessions \ {s} : View(t)' = View(t)
  BY <1>7, <1>8 DEF View
<1> QED
  BY <1>7, <1>10, <1>11, <1>12, <1>13, OneSessionMoves DEF Session

\* The close frame is answered: the goroutine has no message in its hands.
LEMMA ReaderMoves ==
  ASSUME UInv, NEW s \in Sessions, ReadEnds(s) \/ ReplyLocks(s) \/ ReplyEnds(s)
  PROVE  UInv'
<1>1. Typed /\ Session(s)
  BY DEF UInv
<1>2. /\ reader[s] \in {"read", "reply", "replying"}
      /\ reader'[s] \in {"reply", "replying", "out"}
      /\ \A t \in Sessions \ {s} : reader'[t] = reader[t]
      /\ reader' \in [Sessions -> ReaderStates]
  BY <1>1 DEF Typed, ReadEnds, ReplyLocks, ReplyEnds, ReaderFails, ReaderStates
<1>3. UNCHANGED <<transport, handler, writer, sending, writing, phone, toServer, sent,
                  phoneGot, serverGot, served, fromServer>>
  BY DEF ReadEnds, ReplyLocks, ReplyEnds, phoneVars, serverVars
<1>4. Typed'
  BY <1>1, <1>2, <1>3 DEF Typed
<1>5. NotStarted(s)'
  BY <1>1, <1>2, <1>3 DEF Session, NotStarted
<1>6. WayUp(s)' /\ WayDown(s)'
  BY <1>1, <1>2, <1>3 DEF Session, WayUp, WayDown, Waiting, Taken, Coming, Shown
<1>7. \A t \in Sessions \ {s} : View(t)' = View(t)
  BY <1>2, <1>3 DEF View
<1> QED
  BY <1>3, <1>4, <1>5, <1>6, <1>7, OneSessionMoves DEF Session

\* app-server takes the message, or the goroutine ends.
LEMMA SendUpMoves ==
  ASSUME UInv, NEW s \in Sessions, SendUp(s)
  PROVE  UInv'
<1>1. Typed /\ Session(s) /\ Channel(s) = s
  BY DEF UInv, Channel
<1>2. /\ serverGot[s] \in Seq(Numbered) /\ sent[s] \in Nat /\ served[s] \in Nat
      /\ Waiting(s) \in Nat /\ Taken(s) \in Nat /\ Coming(s) \in Nat
  BY <1>1, Lengths
<1>3. /\ reader[s] = "send" /\ sending[s] = M(s, Taken(s) + 1)
      /\ Run(s, serverGot[s], 0) /\ Taken(s) + 1 + Waiting(s) = sent[s]
  BY <1>1 DEF SendUp, Session, WayUp
<1>4. UNCHANGED <<transport, handler, writer, writing, phone, toServer, sent, phoneGot,
                  served, fromServer>>
  BY DEF SendUp, phoneVars
<1>5. /\ sending' \in [Sessions -> Numbered \cup {None}]
      /\ \A t \in Sessions \ {s} : sending'[t] = sending[t]
  BY <1>1 DEF SendUp, Typed
<1>6. NotStarted(s)'
  BY <1>1, <1>3, <1>4 DEF Session, NotStarted
<1>7. CASE /\ serverGot' = [serverGot EXCEPT ![s] = Append(serverGot[s], sending[s])]
           /\ reader' = [reader EXCEPT ![s] = "read"]
  <2>1. sending[s] = M(s, 0 + Len(serverGot[s]) + 1)
    <3>1. 0 + Taken(s) + 1 = Taken(s) + 1
      BY <1>2
    <3> QED
      BY <1>3, <3>1 DEF Taken
  <2>2. /\ Append(serverGot[s], sending[s]) \in Seq(Numbered)
        /\ Len(Append(serverGot[s], sending[s])) = Len(serverGot[s]) + 1
        /\ Run(s, Append(serverGot[s], sending[s]), 0)
    BY <1>2, <1>3, <2>1, RunGrows, SMTT(40)
  <2>3. /\ serverGot'[s] = Append(serverGot[s], sending[s]) /\ reader'[s] = "read"
        /\ \A t \in Sessions \ {s} : serverGot'[t] = serverGot[t] /\ reader'[t] = reader[t]
    BY <1>1, <1>7 DEF Typed, Channels
  <2>4. /\ Taken(s)' = Taken(s) + 1 /\ Waiting(s)' = Waiting(s)
        /\ Coming(s)' = Coming(s) /\ Shown(s)' = Shown(s)
    BY <1>4, <2>2, <2>3 DEF Taken, Waiting, Coming, Shown
  <2>5. Typed'
    BY <1>1, <1>4, <1>5, <1>7, <2>2 DEF Typed, ReaderStates
  <2>6. WayUp(s)'
    <3>1. Run(s, serverGot'[s], 0) /\ Run(s, toServer'[s], sent'[s] - Waiting(s)')
      BY <1>1, <1>4, <2>2, <2>3, <2>4 DEF Session, WayUp
    <3>2. Waiting(s)' <= sent'[s] /\ Taken(s)' + Waiting(s)' = sent'[s]
      BY <1>2, <1>3, <1>4, <2>4
    <3>3. reader'[s] # "send"
      BY <2>3
    <3> QED
      BY <3>1, <3>2, <3>3, Zenon DEF WayUp
  <2>7. WayDown(s)'
    <3>1. served'[s] <= Taken(s)'
      BY <1>1, <1>2, <1>4, <2>4 DEF Session, WayDown
    <3>2. WayDown(s)
      BY <1>1 DEF Session
    <3> QED
      BY <1>4, <2>4, <3>1, <3>2 DEF WayDown
  <2>8. \A t \in Sessions \ {s} : View(t)' = View(t)
    BY <1>4, <1>5, <2>3 DEF View
  <2> QED
    BY <1>4, <1>6, <2>5, <2>6, <2>7, <2>8, OneSessionMoves DEF Session
<1>8. CASE ReaderFails(s) /\ UNCHANGED serverGot
  <2>1. /\ reader'[s] = "out" /\ reader' \in [Sessions -> ReaderStates]
        /\ \A t \in Sessions \ {s} : reader'[t] = reader[t]
    BY <1>1, <1>8 DEF Typed, ReaderFails, ReaderStates
  <2>2. Typed'
    BY <1>1, <1>4, <1>5, <1>8, <2>1 DEF Typed
  <2>3. WayUp(s)' /\ WayDown(s)'
    BY <1>1, <1>4, <1>8, <2>1 DEF Session, WayUp, WayDown, Waiting, Taken, Coming, Shown
  <2>4. \A t \in Sessions \ {s} : View(t)' = View(t)
    BY <1>4, <1>5, <1>8, <2>1 DEF View
  <2> QED
    BY <1>4, <1>6, <2>2, <2>3, <2>4, OneSessionMoves DEF Session
<1> QED
  BY <1>1, <1>7, <1>8 DEF SendUp

-----------------------------------------------------------------------------
(* The goroutine that reads from app-server. *)

\* The goroutine takes the first answer of its session.
LEMMA RecvMoves ==
  ASSUME UInv, NEW s \in Sessions, Recv(s)
  PROVE  UInv'
<1>1. Typed /\ Session(s) /\ Channel(s) = s
  BY DEF UInv, Channel
<1>2. /\ fromServer[s] \in Seq(Numbered) /\ served[s] \in Nat
      /\ Coming(s) \in Nat /\ Shown(s) \in Nat
  BY <1>1, Lengths
<1>3. writer[s] = "recv" /\ fromServer[s] # <<>>
  BY <1>1 DEF Recv
<1> DEFINE k == served[s] - Coming(s)
<1>4. k \in Nat /\ Run(s, fromServer[s], k)
  BY <1>1, <1>2 DEF Session, WayDown
<1> HIDE DEF k
<1>5. /\ Head(fromServer[s]) = M(s, k + 1) /\ Tail(fromServer[s]) \in Seq(Numbered)
      /\ Len(fromServer[s]) \in Nat \ {0}
      /\ Len(Tail(fromServer[s])) = Len(fromServer[s]) - 1
      /\ Run(s, Tail(fromServer[s]), k + 1)
  BY <1>2, <1>3, <1>4, RunShrinks
<1>6. UNCHANGED <<transport, handler, reader, sending, phone, toServer, sent, phoneGot,
                  serverGot, served>>
  BY DEF Recv, phoneVars
<1>7. /\ writer'[s] = "write" /\ writing'[s] = M(s, k + 1)
      /\ fromServer'[s] = Tail(fromServer[s])
      /\ \A t \in Sessions \ {s} :
           /\ writer'[t] = writer[t] /\ writing'[t] = writing[t]
           /\ fromServer'[t] = fromServer[t]
  BY <1>1, <1>5 DEF Recv, Typed, Channels
<1>8. /\ Coming(s) \in Nat \ {0} /\ Coming(s)' = Coming(s) - 1
      /\ Taken(s)' = Taken(s) /\ Shown(s)' = Shown(s)
  BY <1>5, <1>6, <1>7 DEF Coming, Taken, Shown
<1>9. Typed'
  <2>1. M(s, k + 1) \in Numbered
    BY <1>4 DEF M, Numbered
  <2> QED
    BY <1>1, <1>5, <1>6, <2>1 DEF Typed, Recv, WriterStates
<1>10. NotStarted(s)' /\ WayUp(s)'
  BY <1>1, <1>3, <1>6 DEF Session, NotStarted, WayUp, Waiting, Taken
<1>11. WayDown(s)'
  <2>1. served'[s] - Coming(s)' = k + 1
    BY <1>2, <1>6, <1>8 DEF k
  <2>2. /\ Run(s, fromServer'[s], served'[s] - Coming(s)') /\ Run(s, phoneGot'[s], 0)
        /\ writing'[s] = M(s, served'[s] - Coming(s)')
    BY <1>1, <1>5, <1>6, <1>7, <2>1 DEF Session, WayDown
  <2>3. Coming(s)' <= served'[s] /\ served'[s] <= Taken(s)'
    BY <1>1, <1>2, <1>6, <1>8 DEF Session, WayDown
  <2>4. phone'[s] \in {"asking", "open"} => Shown(s)' + 1 + Coming(s)' = served'[s]
    BY <1>1, <1>2, <1>3, <1>6, <1>8 DEF Session, WayDown
  <2>5. writer'[s] \in {"write", "locked"} /\ writer'[s] \notin {"off", "recv"}
    BY <1>7
  <2> QED
    BY <2>2, <2>3, <2>4, <2>5, Zenon DEF WayDown
<1>12. \A t \in Sessions \ {s} : View(t)' = View(t)
  BY <1>6, <1>7 DEF View
<1> QED
  BY <1>6, <1>9, <1>10, <1>11, <1>12, OneSessionMoves DEF Session

\* Waiting for the lock, and an upstream that ends, move no message.
LEMMA WriterMoves ==
  ASSUME UInv, NEW s \in Sessions, RecvFails(s) \/ WriteLocks(s)
  PROVE  UInv'
<1>1. Typed /\ Session(s)
  BY DEF UInv
<1>2. /\ \/ writer[s] = "recv" /\ writer'[s] = "out"
         \/ writer[s] = "write" /\ writer'[s] = "locked"
      /\ \A t \in Sessions \ {s} : writer'[t] = writer[t]
      /\ writer' \in [Sessions -> WriterStates]
  BY <1>1 DEF Typed, RecvFails, WriteLocks, WriterFails, WriterStates
<1>3. UNCHANGED <<transport, handler, reader, sending, writing, phone, toServer, sent,
                  phoneGot, serverGot, served, fromServer>>
  BY DEF RecvFails, WriteLocks, phoneVars, serverVars
<1>4. Typed'
  BY <1>1, <1>2, <1>3 DEF Typed
<1>5. NotStarted(s)' /\ WayUp(s)'
  BY <1>1, <1>2, <1>3 DEF Session, NotStarted, WayUp, Waiting, Taken
<1>6. WayDown(s)'
  BY <1>1, <1>2, <1>3 DEF Session, WayDown, Taken, Coming, Shown
<1>7. \A t \in Sessions \ {s} : View(t)' = View(t)
  BY <1>2, <1>3 DEF View
<1> QED
  BY <1>3, <1>4, <1>5, <1>6, <1>7, OneSessionMoves DEF Session

\* The phone gets its next answer, or is gone and gets none.
LEMMA WriteEndsMoves ==
  ASSUME UInv, NEW s \in Sessions, WriteEnds(s)
  PROVE  UInv'
<1>1. Typed /\ Session(s)
  BY DEF UInv
<1>2. /\ phoneGot[s] \in Seq(Numbered) /\ served[s] \in Nat
      /\ Coming(s) \in Nat /\ Shown(s) \in Nat
  BY <1>1, Lengths
<1>3. /\ writer[s] = "locked" /\ writing[s] = M(s, served[s] - Coming(s))
      /\ Run(s, phoneGot[s], 0)
  BY <1>1 DEF WriteEnds, Session, WayDown
<1>4. UNCHANGED <<transport, handler, reader, sending, phone, toServer, sent, serverGot,
                  served, fromServer>>
  BY DEF WriteEnds, phoneVars, serverVars
<1>5. /\ writing'[s] = None /\ writing' \in [Sessions -> Numbered \cup {None}]
      /\ \A t \in Sessions \ {s} : writing'[t] = writing[t]
  BY <1>1 DEF WriteEnds, Typed
<1>6. NotStarted(s)' /\ WayUp(s)'
  BY <1>1, <1>3, <1>4 DEF Session, NotStarted, WayUp, Waiting, Taken
<1>7. Taken(s)' = Taken(s) /\ Coming(s)' = Coming(s)
  BY <1>4 DEF Taken, Coming
<1>8. CASE /\ phone[s] = "open"
           /\ phoneGot' = [phoneGot EXCEPT ![s] = Append(phoneGot[s], writing[s])]
           /\ writer' = [writer EXCEPT ![s] = "recv"]
  <2>1. Shown(s) + 1 + Coming(s) = served[s]
    BY <1>1, <1>3, <1>8 DEF Session, WayDown
  <2>2. writing[s] = M(s, 0 + Len(phoneGot[s]) + 1)
    <3>1. served[s] - Coming(s) = 0 + Shown(s) + 1
      BY <1>2, <2>1
    <3> QED
      BY <1>3, <3>1 DEF Shown
  <2>3. /\ Append(phoneGot[s], writing[s]) \in Seq(Numbered)
        /\ Len(Append(phoneGot[s], writing[s])) = Len(phoneGot[s]) + 1
        /\ Run(s, Append(phoneGot[s], writing[s]), 0)
    BY <1>2, <1>3, <2>2, RunGrows
  <2>4. /\ phoneGot'[s] = Append(phoneGot[s], writing[s]) /\ writer'[s] = "recv"
        /\ \A t \in Sessions \ {s} : phoneGot'[t] = phoneGot[t] /\ writer'[t] = writer[t]
    BY <1>1, <1>8 DEF Typed
  <2>5. Shown(s)' = Shown(s) + 1
    BY <2>3, <2>4 DEF Shown
  <2>6. Typed'
    BY <1>1, <1>4, <1>5, <1>8, <2>3 DEF Typed, WriterStates
  <2>7. WayDown(s)'
    <3>1. /\ Coming(s)' <= served'[s] /\ served'[s] <= Taken(s)'
          /\ Run(s, fromServer'[s], served'[s] - Coming(s)') /\ Run(s, phoneGot'[s], 0)
      BY <1>1, <1>4, <1>7, <2>3, <2>4 DEF Session, WayDown
    <3>2. Shown(s)' + Coming(s)' = served'[s]
      BY <1>2, <1>4, <1>7, <2>1, <2>5
    <3>3. writer'[s] \notin {"write", "locked"}
      BY <2>4
    <3> QED
      BY <1>5, <3>1, <3>2, <3>3, Zenon DEF WayDown
  <2>8. \A t \in Sessions \ {s} : View(t)' = View(t)
    BY <1>4, <1>5, <2>4 DEF View
  <2> QED
    BY <1>4, <1>6, <2>6, <2>7, <2>8, OneSessionMoves DEF Session
<1>9. CASE /\ UNCHANGED phoneGot
           /\ \/ writer' = [writer EXCEPT ![s] = "out"]
              \/ writer' = [writer EXCEPT ![s] = "recv"] /\ phone[s] # "open"
  <2>1. /\ \/ writer'[s] = "out"
           \/ writer'[s] = "recv" /\ phone[s] # "open"
        /\ writer' \in [Sessions -> WriterStates]
        /\ \A t \in Sessions \ {s} : writer'[t] = writer[t]
    BY <1>1, <1>9 DEF Typed, WriterStates
  <2>2. Typed'
    BY <1>1, <1>4, <1>5, <1>9, <2>1 DEF Typed
  <2>3. Shown(s)' = Shown(s)
    BY <1>9 DEF Shown
  <2>4. WayDown(s)'
    <3>1. writer'[s] = "recv" => phone[s] # "asking"
      BY <1>1, <1>3 DEF Session, NotStarted
    <3> QED
      BY <1>1, <1>4, <1>5, <1>7, <1>9, <2>1, <2>3, <3>1 DEF Session, WayDown
  <2>5. \A t \in Sessions \ {s} : View(t)' = View(t)
    BY <1>4, <1>5, <1>9, <2>1 DEF View
  <2> QED
    BY <1>4, <1>6, <2>2, <2>4, <2>5, OneSessionMoves DEF Session
<1> QED
  BY <1>8, <1>9 DEF WriteEnds, WriterFails

-----------------------------------------------------------------------------
(* app-server, and the whole. *)

\* app-server answers the message after the last it answered.
LEMMA ServerAnswersMoves ==
  ASSUME UInv, NEW c \in Channels, ServerAnswers(c)
  PROVE  UInv'
<1> DEFINE m == serverGot[c][served[c] + 1]
<1>1. Typed
  BY DEF UInv
<1>2. /\ serverGot[c] \in Seq(Numbered) /\ served[c] \in Nat
      /\ fromServer[c] \in Seq(Numbered) /\ Len(serverGot[c]) \in Nat
      /\ served[c] < Len(serverGot[c])
  BY <1>1, LenProperties DEF Typed, ServerAnswers
<1>3. served[c] + 1 \in 1..Len(serverGot[c])
  BY <1>2
<1>4. m \in Numbered
  BY <1>2, <1>3, ElementOfSeq
<1>5. /\ served' = [served EXCEPT ![c] = served[c] + 1]
      /\ fromServer' = [fromServer EXCEPT ![c] = Append(fromServer[c], m)]
  BY DEF ServerAnswers
<1> HIDE DEF m
<1>6. UNCHANGED <<transport, handler, reader, writer, sending, writing, phone, toServer, sent,
                  phoneGot, serverGot>>
  BY DEF ServerAnswers, bridgeVars, phoneVars
<1>7. /\ served'[c] = served[c] + 1 /\ fromServer'[c] = Append(fromServer[c], m)
      /\ \A t \in Channels \ {c} : served'[t] = served[t] /\ fromServer'[t] = fromServer[t]
  BY <1>1, <1>5 DEF Typed
<1>8. Typed'
  <2>1. Append(fromServer[c], m) \in Seq(Numbered)
    BY <1>2, <1>4, AppendProperties
  <2> QED
    BY <1>1, <1>2, <1>5, <1>6, <2>1 DEF Typed
<1>9. \A t \in Sessions \ {c} : View(t)' = View(t)
  BY <1>6, <1>7 DEF View, Channels
<1>10. ASSUME c \in Sessions PROVE Session(c)'
  <2>1. Session(c)
    BY <1>10 DEF UInv
  <2>2. /\ Taken(c) \in Nat /\ Coming(c) \in Nat /\ Shown(c) \in Nat
        /\ served[c] \in Nat
    BY <1>1, <1>10, Lengths
  <2> DEFINE k == served[c] - Coming(c)
  <2>3. k \in Nat /\ Run(c, fromServer[c], k) /\ k + Coming(c) + 1 = served[c] + 1
    BY <1>2, <2>1, <2>2 DEF Session, WayDown
  <2>4. m = M(c, k + Len(fromServer[c]) + 1)
    <3>1. m = M(c, 0 + (served[c] + 1))
      BY <1>3, <2>1 DEF m, Session, WayUp, Run
    <3>2. 0 + (served[c] + 1) = k + Coming(c) + 1
      BY <1>2, <2>3
    <3> QED
      BY <3>1, <3>2 DEF Coming
  <2> HIDE DEF k
  <2>5. /\ Len(Append(fromServer[c], m)) = Len(fromServer[c]) + 1
        /\ Run(c, Append(fromServer[c], m), k)
    BY <1>2, <1>10, <2>3, <2>4, RunGrows
  <2>6. Coming(c)' = Coming(c) + 1 /\ Taken(c)' = Taken(c) /\ Shown(c)' = Shown(c)
    BY <1>6, <1>7, <2>5 DEF Coming, Taken, Shown
  <2>7. NotStarted(c)' /\ WayUp(c)'
    BY <1>6, <2>1 DEF Session, NotStarted, WayUp, Waiting, Taken
  <2>8. WayDown(c)'
    <3>1. served'[c] - Coming(c)' = k
      <4>1. served'[c] = served[c] + 1 /\ Coming(c)' = Coming(c) + 1
        BY <1>7, <2>6
      <4> QED
        BY <2>2, <4>1 DEF k
    <3>2. /\ Run(c, fromServer'[c], served'[c] - Coming(c)') /\ Run(c, phoneGot'[c], 0)
          /\ writing'[c] = IF writer'[c] \in {"write", "locked"}
                           THEN M(c, served'[c] - Coming(c)') ELSE None
      BY <1>6, <1>7, <2>1, <2>5, <3>1 DEF Session, WayDown, k
    <3>3. served[c] < Taken(c)
      BY <1>2 DEF Taken
    <3>4. Coming(c)' <= served'[c] /\ served'[c] <= Taken(c)'
      BY <1>2, <1>7, <2>1, <2>2, <2>6, <3>3 DEF Session, WayDown
    <3>5. /\ phone'[c] \in {"asking", "open"} /\ writer'[c] \in {"off", "recv"} =>
               Shown(c)' + Coming(c)' = served'[c]
          /\ phone'[c] \in {"asking", "open"} /\ writer'[c] \in {"write", "locked"} =>
               Shown(c)' + 1 + Coming(c)' = served'[c]
      BY <1>2, <1>6, <1>7, <2>1, <2>2, <2>6 DEF Session, WayDown
    <3> QED
      BY <3>2, <3>4, <3>5, Zenon DEF WayDown
  <2> QED
    BY <2>7, <2>8 DEF Session
<1> QED
  BY <1>6, <1>8, <1>9, <1>10, OneSessionMoves

\* Every step keeps the invariant.
LEMMA NextUnix ==
  UInv /\ [Next]_vars => UInv'
<1> SUFFICES ASSUME UInv, [Next]_vars
             PROVE  UInv'
  OBVIOUS
<1>1. CASE UNCHANGED vars \/ ServerExits
  BY <1>1, NothingMoves DEF vars, ServerExits, bridgeVars, phoneVars
<1>2. ASSUME NEW s \in Sessions, Phone(s) PROVE UInv'
  BY <1>2, PhoneSendsMoves, PhoneLeavesMoves DEF Phone
<1>3. ASSUME NEW s \in Sessions, Rejected(s) \/ Dial(s) \/ Handler(s) PROVE UInv'
  BY <1>3, HandlerStepMoves, UpgradeMoves
<1>4. ASSUME NEW s \in Sessions, Reader(s) PROVE UInv'
  BY <1>4, ReadMessageMoves, ReaderMoves, SendUpMoves DEF Reader
<1>5. ASSUME NEW s \in Sessions, Writer(s) PROVE UInv'
  BY <1>5, RecvMoves, WriterMoves, WriteEndsMoves DEF Writer
<1>6. ASSUME NEW c \in Channels, ServerAnswers(c) PROVE UInv'
  BY <1>6, ServerAnswersMoves
<1> QED
  BY <1>1, <1>2, <1>3, <1>4, <1>5, <1>6 DEF Next

\* The backend is chosen once, when the process starts.
LEMMA TransportKept == [Next]_vars => transport' = transport
<1> SUFFICES ASSUME [Next]_vars PROVE transport' = transport
  OBVIOUS
<1> USE DEF HandlerStep
<1>1. CASE UNCHANGED vars
  BY <1>1 DEF vars
<1>2. ASSUME NEW s \in Sessions, Phone(s) \/ Rejected(s) \/ Dial(s) PROVE transport' = transport
  BY <1>2 DEF Phone, PhoneSends, PhoneLeaves, Rejected, Dial
<1>3. ASSUME NEW s \in Sessions, Handler(s) PROVE transport' = transport
  BY <1>3 DEF Handler, Claim, Conflict, Upgrade, UpgradeFails, DialFails, BridgeEnds, CloseLocks,
     CloseDown, CloseUp, Release
<1>4. ASSUME NEW s \in Sessions, Reader(s) PROVE transport' = transport
  BY <1>4 DEF Reader, ReadMessage, ReadEnds, ReplyLocks, ReplyEnds, SendUp
<1>5. ASSUME NEW s \in Sessions, Writer(s) PROVE transport' = transport
  BY <1>5 DEF Writer, Recv, RecvFails, WriteLocks, WriteEnds
<1>6. CASE (\E c \in Channels : ServerAnswers(c)) \/ ServerExits
  BY <1>6 DEF ServerAnswers, ServerExits
<1> QED
  BY <1>1, <1>2, <1>3, <1>4, <1>5, <1>6 DEF Next

\* At the start nothing has been sent.
LEMMA InitUnix == Init /\ transport = "unix" => UInv
<1> SUFFICES ASSUME Init, transport = "unix" PROVE UInv
  OBVIOUS
<1>1. <<>> \in Seq(Numbered) /\ Len(<<>>) = 0
  BY EmptySeq
<1>2. Typed
  <2>1. /\ handler = [s \in Sessions |-> "new"] /\ reader = [s \in Sessions |-> "off"]
        /\ writer = [s \in Sessions |-> "off"] /\ sending = [s \in Sessions |-> None]
        /\ writing = [s \in Sessions |-> None] /\ phone = [s \in Sessions |-> "asking"]
    BY Zenon DEF Init
  <2>2. /\ toServer = [s \in Sessions |-> <<>>] /\ sent = [s \in Sessions |-> 0]
        /\ phoneGot = [s \in Sessions |-> <<>>] /\ serverGot = [c \in Channels |-> <<>>]
        /\ served = [c \in Channels |-> 0] /\ fromServer = [c \in Channels |-> <<>>]
    BY Zenon DEF Init
  <2>3. /\ handler \in [Sessions -> HandlerStates] /\ reader \in [Sessions -> ReaderStates]
        /\ writer \in [Sessions -> WriterStates] /\ phone \in [Sessions -> PhoneStates]
    BY <2>1 DEF HandlerStates, ReaderStates, WriterStates, PhoneStates
  <2>4. /\ sending \in [Sessions -> Numbered \cup {None}]
        /\ writing \in [Sessions -> Numbered \cup {None}]
    BY <2>1
  <2>5. /\ toServer \in [Sessions -> Seq(Numbered)] /\ phoneGot \in [Sessions -> Seq(Numbered)]
        /\ serverGot \in [Channels -> Seq(Numbered)]
        /\ fromServer \in [Channels -> Seq(Numbered)]
    BY <1>1, <2>2
  <2>6. sent \in [Sessions -> Nat] /\ served \in [Channels -> Nat]
    BY <2>2
  <2> QED
    BY <2>3, <2>4, <2>5, <2>6, Zenon DEF Typed
<1>3. ASSUME NEW s \in Sessions PROVE Session(s)
  <2>1. /\ handler[s] = "new" /\ reader[s] = "off" /\ writer[s] = "off" /\ phone[s] = "asking"
        /\ writing[s] = None
    BY DEF Init
  <2>2. /\ toServer[s] = <<>> /\ sent[s] = 0 /\ phoneGot[s] = <<>> /\ serverGot[s] = <<>>
        /\ served[s] = 0 /\ fromServer[s] = <<>>
    BY DEF Init, Channels
  <2>3. Waiting(s) = 0 /\ Taken(s) = 0 /\ Coming(s) = 0 /\ Shown(s) = 0
    BY <1>1, <2>2 DEF Waiting, Taken, Coming, Shown
  <2>4. \A k : Run(s, <<>>, k)
    BY <1>1 DEF Run
  <2>5. /\ Run(s, serverGot[s], 0) /\ Run(s, toServer[s], sent[s] - Waiting(s))
        /\ Run(s, phoneGot[s], 0) /\ Run(s, fromServer[s], served[s] - Coming(s))
    BY <2>2, <2>4
  <2>6. NotStarted(s)
    BY <2>1 DEF NotStarted
  <2>7. WayUp(s)
    <3>1. Waiting(s) <= sent[s] /\ Taken(s) + Waiting(s) = sent[s] /\ reader[s] # "send"
      BY <2>1, <2>2, <2>3
    <3> QED
      BY <2>5, <3>1, Zenon DEF WayUp
  <2>8. WayDown(s)
    <3>1. /\ Coming(s) <= served[s] /\ served[s] <= Taken(s)
          /\ Shown(s) + Coming(s) = served[s] /\ writer[s] \notin {"write", "locked"}
      BY <2>1, <2>2, <2>3
    <3> QED
      BY <2>1, <2>5, <3>1, Zenon DEF WayDown
  <2> QED
    BY <2>6, <2>7, <2>8 DEF Session
<1> QED
  BY <1>2, <1>3 DEF UInv

\* Over a Unix socket every answer the phone got, and the one on its way
\* through the sidecar, is to the phone's own messages, in order and without
\* gaps (bridge, UnixWebSocketUpstream), for every number of sessions and
\* messages.
THEOREM UnixAnswers == Spec => []AnswersReachTheirUnixSession
<1> DEFINE I == transport = "unix" => UInv
<1>1. Init => I
  BY InitUnix
<1>2. I /\ [Next]_vars => I'
  BY NextUnix, TransportKept
<1>3. I => AnswersReachTheirUnixSession
  <2> SUFFICES ASSUME transport = "unix", UInv, NEW s \in Sessions
               PROVE  /\ \A i \in 1..Len(phoneGot[s]) : phoneGot[s][i] = M(s, i)
                      /\ writing[s] # None => writing[s].session = s
    BY DEF AnswersReachTheirUnixSession, AnswersReachTheirSession, M
  <2>1. Session(s)
    BY DEF UInv
  <2>2. \A i \in 1..Len(phoneGot[s]) : phoneGot[s][i] = M(s, i)
    <3>1. ASSUME NEW i \in 1..Len(phoneGot[s]) PROVE phoneGot[s][i] = M(s, 0 + i)
      BY <2>1, <3>1 DEF Session, WayDown, Run
    <3>2. \A i \in 1..Len(phoneGot[s]) : 0 + i = i
      OBVIOUS
    <3> QED
      BY <3>1, <3>2
  <2>3. writing[s] # None => writing[s].session = s
    BY <2>1 DEF Session, WayDown, M
  <2> QED
    BY <2>2, <2>3
<1> QED
  BY <1>1, <1>2, <1>3, PTL DEF Spec

-----------------------------------------------------------------------------
(***************************************************************************)
(* Messages over either backend.  Over stdio all sessions share what       *)
(* app-server gets, so a session's messages are those that carry its name. *)
(***************************************************************************)
UpTyped ==
  /\ handler \in [Sessions -> HandlerStates]
  /\ reader \in [Sessions -> ReaderStates]
  /\ sending \in [Sessions -> Numbered \cup {None}]
  /\ toServer \in [Sessions -> Seq(Numbered)]
  /\ sent \in [Sessions -> Nat]
  /\ serverGot \in [Channels -> Seq(Numbered)]

\* The messages of s in a sequence are numbered from 1, in order.
Ordered(s, seq) ==
  \A i \in Own(s, seq) : seq[i].n = Cardinality({j \in Own(s, seq) : j <= i})

\* How many messages of s app-server has.
Got(s) == Cardinality(Own(s, serverGot[Channel(s)]))

\* The next message of s that app-server gets is the one after those it has.
UpSession(s) ==
  /\ handler[s] \in {"new", "claimed", "dialed"} => reader[s] = "off"
  /\ Ordered(s, serverGot[Channel(s)])
  /\ Waiting(s) <= sent[s]
  /\ Run(s, toServer[s], sent[s] - Waiting(s))
  /\ reader[s] = "send" => sending[s] = M(s, Got(s) + 1)
  /\ reader[s] \in {"off", "read"} => Got(s) + Waiting(s) = sent[s]
  /\ reader[s] = "send" => Got(s) + 1 + Waiting(s) = sent[s]

UpInv == UpTyped /\ \A s \in Sessions : UpSession(s)

\* The messages of a session when one more joins them.
LEMMA OwnGrows ==
  ASSUME NEW s \in Sessions, NEW seq \in Seq(Numbered), NEW m \in Numbered
  PROVE  /\ Cardinality(Own(s, seq)) \in Nat
         /\ m.session # s => /\ Own(s, Append(seq, m)) = Own(s, seq)
                             /\ Ordered(s, seq) => Ordered(s, Append(seq, m))
         /\ m.session = s =>
              /\ Cardinality(Own(s, Append(seq, m))) = Cardinality(Own(s, seq)) + 1
              /\ m.n = Cardinality(Own(s, seq)) + 1 /\ Ordered(s, seq) =>
                   Ordered(s, Append(seq, m))
<1> DEFINE n == Len(seq)
           longer == Append(seq, m)
           own == Own(s, seq)
           all == Own(s, longer)
<1>1. /\ n \in Nat /\ Len(longer) = n + 1
      /\ \A i \in 1..n : longer[i] = seq[i]
      /\ longer[n + 1] = m
  BY LenProperties, AppendProperties
<1>2. own \subseteq 1..n /\ IsFiniteSet(own) /\ Cardinality(own) \in Nat
  <2>1. own \subseteq 1..n
    BY DEF Own
  <2>2. IsFiniteSet(1..n)
    BY <1>1, FS_Interval
  <2> QED
    BY <2>1, <2>2, FS_Subset, FS_CardinalityType
<1>3. \A i \in own : i \in 1..n /\ longer[i] = seq[i]
  BY <1>1, <1>2
<1>4. \A i : i \in all <=> (i \in 1..(n + 1) /\ longer[i].session = s)
  BY <1>1 DEF Own
<1>5. \A i : i \in own <=> (i \in 1..n /\ seq[i].session = s)
  BY DEF Own
<1> HIDE DEF n, longer, own, all
<1>6. \A i : i \in 1..(n + 1) <=> i \in 1..n \/ i = n + 1
  BY <1>1
<1>7. CASE m.session # s
  <2>1. all = own
    BY <1>1, <1>4, <1>5, <1>6, <1>7
  <2>2. Ordered(s, seq) => Ordered(s, longer)
    BY <1>3, <2>1, Zenon DEF Ordered, all, own
  <2> QED
    BY <1>2, <1>7, <2>1, <2>2 DEF all, own, longer
<1>8. CASE m.session = s
  <2>1. all = own \cup {n + 1}
    BY <1>1, <1>4, <1>5, <1>6, <1>8
  <2>2. n + 1 \notin own
    BY <1>1, <1>2
  <2>3. Cardinality(all) = Cardinality(own) + 1
    BY <1>2, <2>1, <2>2, FS_AddElement
  <2>4. ASSUME m.n = Cardinality(own) + 1, Ordered(s, seq), NEW i \in all
        PROVE  longer[i].n = Cardinality({j \in all : j <= i})
    <3>1. CASE i \in own
      <4>1. i \in 1..n /\ i <= n /\ ~(n + 1 <= i)
        BY <1>1, <1>3, <3>1
      <4>2. {j \in all : j <= i} = {j \in own : j <= i}
        BY <2>1, <4>1
      <4>3. seq[i].n = Cardinality({j \in own : j <= i})
        BY <2>4, <3>1 DEF Ordered, own
      <4> QED
        BY <1>3, <3>1, <4>2, <4>3
    <3>2. CASE i = n + 1
      <4>1. \A j \in all : j <= n + 1
        BY <1>1, <1>4
      <4>2. {j \in all : j <= i} = all
        BY <3>2, <4>1
      <4> QED
        BY <1>1, <2>3, <2>4, <3>2, <4>2
    <3> QED
      BY <2>1, <3>1, <3>2
  <2>5. m.n = Cardinality(own) + 1 /\ Ordered(s, seq) => Ordered(s, longer)
    BY <2>4 DEF Ordered, all
  <2> QED
    BY <1>2, <1>8, <2>3, <2>5 DEF all, own, longer
<1> QED
  BY <1>7, <1>8

\* The channel of a session, and the numbers of its messages.
LEMMA UpLengths ==
  ASSUME UpTyped, NEW s \in Sessions
  PROVE  /\ Channel(s) \in Channels /\ serverGot[Channel(s)] \in Seq(Numbered)
         /\ toServer[s] \in Seq(Numbered) /\ sent[s] \in Nat
         /\ Waiting(s) \in Nat /\ Got(s) \in Nat
<1>1. Channel(s) \in Channels
  BY DEF Channel, Channels
<1>2. /\ serverGot[Channel(s)] \in Seq(Numbered) /\ toServer[s] \in Seq(Numbered)
      /\ sent[s] \in Nat
  BY <1>1 DEF UpTyped
<1>3. Got(s) \in Nat
  <2>1. M(s, 0) \in Numbered
    BY DEF M, Numbered
  <2> QED
    BY <1>2, <2>1, OwnGrows DEF Got
<1> QED
  BY <1>1, <1>2, <1>3, LenProperties DEF Waiting

\* What UpSession(s) depends on.
UpView(s) == <<handler[s], reader[s], sending[s], toServer[s], sent[s]>>

\* A session stays as it is while app-server has the same messages of it.
LEMMA UpUnchanged ==
  ASSUME NEW s \in Sessions, UpSession(s), UpView(s)' = UpView(s), Got(s)' = Got(s),
         Ordered(s, serverGot[Channel(s)])'
  PROVE  UpSession(s)'
BY DEF UpSession, UpView, Waiting

\* Goroutines and handlers that go on without a message.
LEMMA UpStays ==
  ASSUME UpInv, UNCHANGED <<transport, sending, toServer, sent, serverGot>>,
         handler' \in [Sessions -> HandlerStates], reader' \in [Sessions -> ReaderStates],
         NEW s \in Sessions,
         \A t \in Sessions \ {s} : handler'[t] = handler[t] /\ reader'[t] = reader[t],
         handler'[s] \in {"new", "claimed", "dialed"} => reader'[s] = "off",
         \/ reader'[s] = reader[s]
         \/ reader'[s] \in {"reply", "replying", "out"}
         \/ reader[s] = "off" /\ reader'[s] = "read"
  PROVE  UpInv'
<1>1. UpTyped'
  BY DEF UpInv, UpTyped
<1>2. \A t \in Sessions : Channel(t)' = Channel(t)
  BY DEF Channel
<1>3. \A t \in Sessions : Got(t)' = Got(t) /\ Waiting(t)' = Waiting(t)
  BY <1>2 DEF Got, Waiting
<1>4. ASSUME NEW t \in Sessions PROVE UpSession(t)'
  <2>1. UpSession(t) /\ Ordered(t, serverGot[Channel(t)])'
    BY <1>2 DEF UpInv, UpSession, Ordered
  <2>2. CASE t # s
    BY <1>3, <2>1, <2>2, UpUnchanged DEF UpView
  <2>3. CASE t = s
    BY <1>3, <2>1, <2>3 DEF UpSession
  <2> QED
    BY <2>2, <2>3
<1> QED
  BY <1>1, <1>4 DEF UpInv

\* The phone sends the message after its last one.
LEMMA PhoneSendsUp ==
  ASSUME UpInv, NEW s \in Sessions, PhoneSends(s)
  PROVE  UpInv'
<1> DEFINE m == M(s, sent[s] + 1)
           k == sent[s] - Waiting(s)
           longer == Append(toServer[s], m)
<1>1. UpTyped /\ UpSession(s)
  BY DEF UpInv
<1>2. /\ toServer[s] \in Seq(Numbered) /\ sent[s] \in Nat
      /\ Waiting(s) \in Nat /\ Got(s) \in Nat
  BY <1>1, UpLengths
<1>3. k \in Nat /\ Run(s, toServer[s], k)
  BY <1>1, <1>2 DEF UpSession
<1>4. m = M(s, k + Len(toServer[s]) + 1)
  <2>1. k + Waiting(s) + 1 = sent[s] + 1
    BY <1>2
  <2> QED
    BY <2>1 DEF Waiting
<1>5. /\ toServer' = [toServer EXCEPT ![s] = longer]
      /\ sent' = [sent EXCEPT ![s] = sent[s] + 1]
      /\ UNCHANGED <<transport, handler, reader, sending, serverGot>>
  BY DEF PhoneSends, M, bridgeVars, serverVars
<1> HIDE DEF m
<1>6. /\ longer \in Seq(Numbered) /\ Len(longer) = Len(toServer[s]) + 1 /\ Run(s, longer, k)
  BY <1>2, <1>3, <1>4, RunGrows
<1> HIDE DEF longer
<1>7. /\ toServer'[s] = longer /\ sent'[s] = sent[s] + 1
      /\ \A t \in Sessions \ {s} : toServer'[t] = toServer[t] /\ sent'[t] = sent[t]
  BY <1>1, <1>5 DEF UpTyped
<1>8. UpTyped'
  BY <1>1, <1>2, <1>5, <1>6 DEF UpTyped
<1>9. \A t \in Sessions : Got(t)' = Got(t) /\ Channel(t)' = Channel(t)
  BY <1>5 DEF Got, Channel
<1>10. ASSUME NEW t \in Sessions PROVE UpSession(t)'
  <2>1. UpSession(t) /\ Ordered(t, serverGot[Channel(t)])'
    BY <1>5, <1>9 DEF UpInv, UpSession, Ordered
  <2>2. CASE t # s
    BY <1>5, <1>7, <1>9, <2>1, <2>2, UpUnchanged DEF UpView
  <2>3. CASE t = s
    <3>1. Waiting(s)' = Waiting(s) + 1
      BY <1>6, <1>7 DEF Waiting
    <3>2. sent'[s] - Waiting(s)' = k
      BY <1>2, <1>7, <3>1
    <3>3. Run(s, toServer'[s], sent'[s] - Waiting(s)')
      BY <1>6, <1>7, <3>2
    <3>4. /\ Waiting(s)' <= sent'[s]
          /\ Got(s) + Waiting(s) = sent[s] => Got(s) + Waiting(s)' = sent'[s]
          /\ Got(s) + 1 + Waiting(s) = sent[s] => Got(s) + 1 + Waiting(s)' = sent'[s]
      <4> DEFINE a == Waiting(s)
                 b == sent[s]
                 g == Got(s)
                 x == Waiting(s)'
                 y == sent'[s]
      <4>1. a \in Nat /\ b \in Nat /\ g \in Nat /\ a <= b /\ x = a + 1 /\ y = b + 1
        BY <1>1, <1>2, <1>7, <3>1 DEF UpSession
      <4> HIDE DEF a, b, g, x, y
      <4>2. /\ x <= y
            /\ g + a = b => g + x = y
            /\ g + 1 + a = b => g + 1 + x = y
        BY <4>1
      <4> QED
        BY <4>2, Zenon DEF a, b, g, x, y
    <3> QED
      BY <1>1, <1>5, <1>9, <2>1, <2>3, <3>3, <3>4, Zenon DEF UpSession
  <2> QED
    BY <2>2, <2>3
<1> QED
  BY <1>8, <1>10 DEF UpInv

\* The goroutine takes the first message of the phone.
LEMMA ReadMessageUp ==
  ASSUME UpInv, NEW s \in Sessions, ReadMessage(s)
  PROVE  UpInv'
<1> DEFINE rest == Tail(toServer[s])
<1>1. UpTyped /\ UpSession(s)
  BY DEF UpInv
<1>2. /\ toServer[s] \in Seq(Numbered) /\ sent[s] \in Nat
      /\ Waiting(s) \in Nat /\ Got(s) \in Nat
  BY <1>1, UpLengths
<1>3. reader[s] = "read" /\ toServer[s] # <<>>
  BY DEF ReadMessage
<1>4. Got(s) + Waiting(s) = sent[s]
  BY <1>1, <1>3 DEF UpSession
<1>5. Run(s, toServer[s], Got(s))
  <2>1. sent[s] - Waiting(s) = Got(s)
    BY <1>2, <1>4
  <2> QED
    BY <1>1, <2>1 DEF UpSession
<1>6. /\ Head(toServer[s]) = M(s, Got(s) + 1) /\ rest \in Seq(Numbered)
      /\ Len(toServer[s]) \in Nat \ {0} /\ Len(rest) = Len(toServer[s]) - 1
      /\ Run(s, rest, Got(s) + 1)
  BY <1>2, <1>3, <1>5, RunShrinks
<1>7. /\ reader' = [reader EXCEPT ![s] = "send"]
      /\ sending' = [sending EXCEPT ![s] = M(s, Got(s) + 1)]
      /\ toServer' = [toServer EXCEPT ![s] = rest]
      /\ UNCHANGED <<transport, handler, sent, serverGot>>
  BY <1>6 DEF ReadMessage, serverVars
<1> HIDE DEF rest
<1>8. /\ reader'[s] = "send" /\ sending'[s] = M(s, Got(s) + 1) /\ toServer'[s] = rest
      /\ \A t \in Sessions \ {s} :
           reader'[t] = reader[t] /\ sending'[t] = sending[t] /\ toServer'[t] = toServer[t]
  BY <1>1, <1>7 DEF UpTyped
<1>9. UpTyped'
  <2>1. M(s, Got(s) + 1) \in Numbered
    BY <1>2 DEF M, Numbered
  <2> QED
    BY <1>1, <1>6, <1>7, <2>1 DEF UpTyped, ReaderStates
<1>10. \A t \in Sessions : Got(t)' = Got(t) /\ Channel(t)' = Channel(t)
  BY <1>7 DEF Got, Channel
<1>11. ASSUME NEW t \in Sessions PROVE UpSession(t)'
  <2>1. UpSession(t) /\ Ordered(t, serverGot[Channel(t)])'
    BY <1>7, <1>10 DEF UpInv, UpSession, Ordered
  <2>2. CASE t # s
    BY <1>7, <1>8, <1>10, <2>1, <2>2, UpUnchanged DEF UpView
  <2>3. CASE t = s
    <3>1. Waiting(s) \in Nat \ {0} /\ Waiting(s)' = Waiting(s) - 1
      BY <1>6, <1>8 DEF Waiting
    <3>2. sent'[s] - Waiting(s)' = Got(s) + 1
      BY <1>2, <1>4, <1>7, <3>1
    <3>3. Run(s, toServer'[s], sent'[s] - Waiting(s)')
      BY <1>6, <1>8, <3>2
    <3>4. Waiting(s)' <= sent'[s] /\ Got(s)' + 1 + Waiting(s)' = sent'[s]
      BY <1>2, <1>4, <1>7, <1>10, <3>1
    <3>5. sending'[s] = M(s, Got(s)' + 1) /\ reader'[s] \notin {"off", "read"}
      BY <1>8, <1>10
    <3>6. handler'[s] \notin {"new", "claimed", "dialed"}
      BY <1>1, <1>3, <1>7 DEF UpSession
    <3> QED
      BY <2>1, <2>3, <3>3, <3>4, <3>5, <3>6, Zenon DEF UpSession
  <2> QED
    BY <2>2, <2>3
<1> QED
  BY <1>9, <1>11 DEF UpInv

\* app-server gets the next message of the session, or none any more.
LEMMA SendUpUp ==
  ASSUME UpInv, NEW s \in Sessions, SendUp(s)
  PROVE  UpInv'
<1> DEFINE c == Channel(s)
           m == sending[s]
<1>1. UpTyped /\ UpSession(s) /\ reader[s] = "send"
  BY DEF UpInv, SendUp
<1>2. /\ c \in Channels /\ serverGot[c] \in Seq(Numbered) /\ sent[s] \in Nat
      /\ Waiting(s) \in Nat /\ Got(s) \in Nat
  BY <1>1, UpLengths
<1>3. /\ m = M(s, Got(s) + 1) /\ m \in Numbered /\ m.session = s /\ m.n = Got(s) + 1
      /\ Got(s) + 1 + Waiting(s) = sent[s]
  BY <1>1, <1>2 DEF UpSession, M, Numbered
<1>4. /\ sending' = [sending EXCEPT ![s] = None]
      /\ UNCHANGED <<transport, handler, toServer, sent>>
      /\ \/ /\ serverGot' = [serverGot EXCEPT ![c] = Append(serverGot[c], m)]
            /\ reader' = [reader EXCEPT ![s] = "read"]
         \/ serverGot' = serverGot /\ reader' = [reader EXCEPT ![s] = "out"]
  BY DEF SendUp, ReaderFails, phoneVars
<1> HIDE DEF m
<1>5. \A t \in Sessions : Channel(t)' = Channel(t) /\ Waiting(t)' = Waiting(t)
  BY <1>4 DEF Channel, Waiting
<1>6. /\ \A t \in Sessions \ {s} : sending'[t] = sending[t] /\ reader'[t] = reader[t]
      /\ sending' \in [Sessions -> Numbered \cup {None}]
      /\ reader' \in [Sessions -> ReaderStates]
  BY <1>1, <1>4 DEF UpTyped, ReaderStates
<1>7. CASE /\ serverGot' = [serverGot EXCEPT ![c] = Append(serverGot[c], m)]
           /\ reader' = [reader EXCEPT ![s] = "read"]
  <2>1. Append(serverGot[c], m) \in Seq(Numbered)
    BY <1>2, <1>3, AppendProperties
  <2>2. UpTyped'
    BY <1>1, <1>2, <1>4, <1>6, <1>7, <2>1 DEF UpTyped
  <2>3. /\ serverGot'[c] = Append(serverGot[c], m) /\ reader'[s] = "read"
        /\ \A d \in Channels \ {c} : serverGot'[d] = serverGot[d]
    BY <1>1, <1>2, <1>7 DEF UpTyped
  <2>4. ASSUME NEW t \in Sessions \ {s} PROVE UpSession(t)'
    <3>1. UpSession(t) /\ UpView(t)' = UpView(t)
      BY <1>4, <1>6 DEF UpInv, UpView
    <3>2. Channel(t) \in Channels
      BY <1>1, UpLengths
    <3>3. Got(t)' = Got(t) /\ Ordered(t, serverGot[Channel(t)])'
      <4>1. CASE Channel(t) # c
        <5>1. serverGot'[Channel(t)] = serverGot[Channel(t)]
          BY <2>3, <3>2, <4>1
        <5> QED
          BY <1>5, <3>1, <5>1 DEF Got, UpSession, Ordered, Own
      <4>2. CASE Channel(t) = c
        <5>1. /\ Own(t, Append(serverGot[c], m)) = Own(t, serverGot[c])
              /\ Ordered(t, serverGot[c]) => Ordered(t, Append(serverGot[c], m))
          BY <1>2, <1>3, OwnGrows
        <5>2. Ordered(t, serverGot[c])
          BY <3>1, <4>2 DEF UpSession
        <5>3. serverGot'[Channel(t)'] = Append(serverGot[c], m) /\ Channel(t)' = c
          BY <1>5, <2>3, <4>2
        <5>4. Got(t)' = Got(t)
          BY <4>2, <5>1, <5>3 DEF Got, Own
        <5> QED
          BY <5>1, <5>2, <5>3, <5>4 DEF Ordered, Own
      <4> QED
        BY <4>1, <4>2
    <3> QED
      BY <3>1, <3>3, UpUnchanged
  <2>5. UpSession(s)'
    <3>1. /\ Cardinality(Own(s, Append(serverGot[c], m))) = Cardinality(Own(s, serverGot[c])) + 1
          /\ m.n = Cardinality(Own(s, serverGot[c])) + 1 /\ Ordered(s, serverGot[c]) =>
                Ordered(s, Append(serverGot[c], m))
      BY <1>2, <1>3, OwnGrows
    <3>2. serverGot'[Channel(s)'] = Append(serverGot[c], m)
      BY <1>5, <2>3
    <3>3. Got(s)' = Got(s) + 1
      BY <3>1, <3>2 DEF Got, Own
    <3>4. Ordered(s, Append(serverGot[c], m))
      BY <1>1, <1>3, <3>1 DEF Got, UpSession
    <3>5. Ordered(s, serverGot[Channel(s)])'
      BY <3>2, <3>4 DEF Ordered, Own
    <3>6. Got(s)' + Waiting(s)' = sent'[s]
      BY <1>2, <1>3, <1>4, <1>5, <3>3
    <3>7. /\ handler'[s] \notin {"new", "claimed", "dialed"} /\ reader'[s] # "send"
          /\ Waiting(s)' <= sent'[s] /\ Run(s, toServer'[s], sent'[s] - Waiting(s)')
      BY <1>1, <1>4, <1>5, <2>3 DEF UpSession
    <3> QED
      BY <3>5, <3>6, <3>7, Zenon DEF UpSession
  <2> QED
    BY <2>2, <2>4, <2>5 DEF UpInv
<1>8. CASE serverGot' = serverGot /\ reader' = [reader EXCEPT ![s] = "out"]
  <2>1. UpTyped'
    BY <1>1, <1>4, <1>6, <1>8 DEF UpTyped
  <2>2. \A t \in Sessions : Got(t)' = Got(t)
    BY <1>5, <1>8 DEF Got, Own
  <2>3. ASSUME NEW t \in Sessions PROVE UpSession(t)'
    <3>1. UpSession(t) /\ Ordered(t, serverGot[Channel(t)])'
      BY <1>5, <1>8 DEF UpInv, UpSession, Ordered, Own
    <3>2. CASE t # s
      BY <1>4, <1>6, <2>2, <3>1, <3>2, UpUnchanged DEF UpView
    <3>3. CASE t = s
      <4>1. reader'[s] = "out" /\ handler'[s] \notin {"new", "claimed", "dialed"}
        BY <1>1, <1>4, <1>8 DEF UpSession, UpTyped
      <4> QED
        BY <1>4, <1>5, <3>1, <3>3, <4>1 DEF UpSession
    <3> QED
      BY <3>2, <3>3
  <2> QED
    BY <2>1, <2>3 DEF UpInv
<1> QED
  BY <1>4, <1>7, <1>8

\* Steps that neither handlers nor readers take.
LEMMA UpIdle ==
  ASSUME UpInv, UNCHANGED <<transport, handler, reader, sending, toServer, sent, serverGot>>
  PROVE  UpInv'
<1>1. UpTyped'
  BY DEF UpInv, UpTyped
<1>2. ASSUME NEW t \in Sessions PROVE UpSession(t)'
  <2>1. Channel(t)' = Channel(t) /\ UpSession(t)
    BY DEF UpInv, Channel
  <2>2. Got(t)' = Got(t) /\ Ordered(t, serverGot[Channel(t)])' /\ UpView(t)' = UpView(t)
    BY <2>1 DEF Got, Own, UpSession, Ordered, UpView
  <2> QED
    BY <2>1, <2>2, UpUnchanged
<1> QED
  BY <1>1, <1>2 DEF UpInv

\* ServeHTTP, up to and after the start of bridge.
LEMMA HandlerUp ==
  ASSUME UpInv, NEW s \in Sessions, Rejected(s) \/ Dial(s) \/ Handler(s)
  PROVE  UpInv'
<1>1. PICK from \in HandlerStates, to \in HandlerStates :
        /\ HandlerStep(s, from, to)
        /\ to \in {"new", "claimed", "dialed"} => from \in {"new", "claimed", "dialed"}
        /\ \/ reader' = reader
           \/ from = "dialed" /\ to = "bridge" /\ reader' = [reader EXCEPT ![s] = "read"]
  BY DEF Rejected, Dial, Handler, Claim, Conflict, Upgrade, UpgradeFails, DialFails, BridgeEnds,
         CloseLocks, CloseDown, CloseUp, Release, bridgeVars, HandlerStates, Holding
<1>2. UNCHANGED <<transport, sending, toServer, sent, serverGot>>
  BY DEF Rejected, Dial, Handler, Claim, Conflict, Upgrade, UpgradeFails, DialFails, BridgeEnds,
         CloseLocks, CloseDown, CloseUp, Release, bridgeVars, phoneVars, serverVars
<1>3. UpTyped /\ UpSession(s)
  BY DEF UpInv
<1>4. /\ handler[s] = from /\ handler'[s] = to /\ handler' \in [Sessions -> HandlerStates]
      /\ \A t \in Sessions \ {s} : handler'[t] = handler[t] /\ reader'[t] = reader[t]
      /\ reader' \in [Sessions -> ReaderStates]
      /\ reader'[s] = reader[s] \/ (from = "dialed" /\ to = "bridge" /\ reader'[s] = "read")
  BY <1>1, <1>3 DEF HandlerStep, UpTyped, ReaderStates
<1>5. from \in {"new", "claimed", "dialed"} => reader[s] = "off"
  BY <1>3, <1>4 DEF UpSession
<1> QED
  BY <1>1, <1>2, <1>4, <1>5, UpStays

\* The goroutine that reads ends, or answers a close first.
LEMMA ReaderUp ==
  ASSUME UpInv, NEW s \in Sessions, ReadEnds(s) \/ ReplyLocks(s) \/ ReplyEnds(s)
  PROVE  UpInv'
<1>1. PICK r \in {"reply", "replying", "out"} :
        reader' = [reader EXCEPT ![s] = r] /\ reader[s] # "off"
  BY DEF ReadEnds, ReplyLocks, ReplyEnds, ReaderFails
<1>2. UNCHANGED <<transport, handler, sending, toServer, sent, serverGot>>
  BY DEF ReadEnds, ReplyLocks, ReplyEnds, phoneVars, serverVars
<1>3. UpTyped /\ UpSession(s)
  BY DEF UpInv
<1>4. /\ handler' \in [Sessions -> HandlerStates] /\ reader' \in [Sessions -> ReaderStates]
      /\ \A t \in Sessions \ {s} : handler'[t] = handler[t] /\ reader'[t] = reader[t]
      /\ reader'[s] = r
  BY <1>1, <1>2, <1>3 DEF UpTyped, ReaderStates
<1>5. handler'[s] \notin {"new", "claimed", "dialed"}
  BY <1>1, <1>2, <1>3 DEF UpSession
<1> QED
  BY <1>2, <1>4, <1>5, UpStays

\* Every step keeps the messages in order.
LEMMA NextUp == UpInv /\ [Next]_vars => UpInv'
<1> SUFFICES ASSUME UpInv, [Next]_vars PROVE UpInv'
  OBVIOUS
<1>1. CASE UNCHANGED vars \/ ServerExits \/ \E c \in Channels : ServerAnswers(c)
  BY <1>1, UpIdle DEF vars, ServerExits, ServerAnswers, bridgeVars, phoneVars
<1>2. ASSUME NEW s \in Sessions, Phone(s) PROVE UpInv'
  BY <1>2, PhoneSendsUp, UpIdle DEF Phone, PhoneLeaves, bridgeVars, serverVars
<1>3. ASSUME NEW s \in Sessions, Rejected(s) \/ Dial(s) \/ Handler(s) PROVE UpInv'
  BY <1>3, HandlerUp
<1>4. ASSUME NEW s \in Sessions, Reader(s) PROVE UpInv'
  BY <1>4, ReadMessageUp, ReaderUp, SendUpUp DEF Reader
<1>5. ASSUME NEW s \in Sessions, Writer(s) PROVE UpInv'
  BY <1>5, UpIdle DEF Writer, Recv, RecvFails, WriteLocks, WriteEnds, phoneVars, serverVars
<1> QED
  BY <1>1, <1>2, <1>3, <1>4, <1>5 DEF Next

\* Nothing has been sent at first.
LEMMA InitUp == Init => UpInv
<1> SUFFICES ASSUME Init PROVE UpInv
  OBVIOUS
<1>1. <<>> \in Seq(Numbered) /\ Len(<<>>) = 0
  BY EmptySeq
<1>2. /\ handler = [s \in Sessions |-> "new"] /\ reader = [s \in Sessions |-> "off"]
      /\ sending = [s \in Sessions |-> None] /\ toServer = [s \in Sessions |-> <<>>]
      /\ sent = [s \in Sessions |-> 0] /\ serverGot = [c \in Channels |-> <<>>]
  BY Zenon DEF Init
<1>3. UpTyped
  BY <1>1, <1>2 DEF UpTyped, HandlerStates, ReaderStates
<1>4. ASSUME NEW s \in Sessions PROVE UpSession(s)
  <2>1. Channel(s) \in Channels
    BY <1>3, UpLengths
  <2>2. /\ handler[s] = "new" /\ reader[s] = "off" /\ toServer[s] = <<>> /\ sent[s] = 0
        /\ serverGot[Channel(s)] = <<>>
    BY <1>2, <2>1
  <2>3. Own(s, <<>>) = {}
    BY <1>1 DEF Own
  <2>4. Ordered(s, <<>>) /\ Cardinality(Own(s, <<>>)) = 0
    BY <2>3, FS_EmptySet DEF Ordered
  <2>5. Got(s) = 0 /\ Waiting(s) = 0 /\ Run(s, <<>>, 0 - 0)
    BY <1>1, <2>2, <2>4 DEF Got, Waiting, Run
  <2> QED
    BY <2>2, <2>4, <2>5 DEF UpSession
<1> QED
  BY <1>3, <1>4 DEF UpInv

\* The invariant says where the messages are.
LEMMA UpFollows == UpInv => UpstreamInOrder
<1> SUFFICES ASSUME UpInv, NEW s \in Sessions
             PROVE  LET got    == serverGot[Channel(s)]
                        own    == Own(s, got)
                        held   == IF reader[s] = "send" THEN <<sending[s]>> ELSE <<>>
                        coming == held \o toServer[s]
                    IN
                    /\ \A i \in own : got[i].n = Cardinality({j \in own : j <= i})
                    /\ reader[s] \in {"read", "send"} =>
                         /\ Cardinality(own) + Len(coming) = sent[s]
                         /\ \A i \in 1..Len(coming) : coming[i].n = Cardinality(own) + i
  BY Zenon DEF UpstreamInOrder
<1> DEFINE n == Got(s)
           held == IF reader[s] = "send" THEN <<sending[s]>> ELSE <<>>
           coming == held \o toServer[s]
<1>1. UpTyped /\ UpSession(s)
  BY DEF UpInv
<1>2. /\ toServer[s] \in Seq(Numbered) /\ sent[s] \in Nat /\ Waiting(s) \in Nat /\ n \in Nat
      /\ Waiting(s) = Len(toServer[s])
  BY <1>1, UpLengths DEF Waiting
<1>3. ASSUME reader[s] = "read"
      PROVE  n + Len(coming) = sent[s] /\ \A i \in 1..Len(coming) : coming[i].n = n + i
  <2>1. coming = toServer[s]
    BY <1>2, <1>3, ConcatEmptySeq
  <2>2. n + Waiting(s) = sent[s] /\ sent[s] - Waiting(s) = n
    BY <1>1, <1>2, <1>3 DEF UpSession
  <2>3. \A i \in 1..Len(toServer[s]) : toServer[s][i] = M(s, n + i)
    BY <1>1, <2>2 DEF UpSession, Run
  <2>4. n + Len(toServer[s]) = sent[s]
    BY <1>2, <2>2
  <2> HIDE DEF coming, n
  <2>5. ASSUME NEW i \in 1..Len(toServer[s]) PROVE toServer[s][i].n = n + i
    <3>1. toServer[s][i] = M(s, n + i)
      BY <2>3
    <3> QED
      BY <3>1 DEF M
  <2> QED
    BY <2>1, <2>4, <2>5, Zenon
<1>4. ASSUME reader[s] = "send"
      PROVE  n + Len(coming) = sent[s] /\ \A i \in 1..Len(coming) : coming[i].n = n + i
  <2> DEFINE m == sending[s]
             w == Waiting(s)
  <2>1. m = M(s, n + 1) /\ n + 1 + w = sent[s] /\ Run(s, toServer[s], sent[s] - w)
    BY <1>1, <1>4 DEF UpSession
  <2>2. sent[s] - w = n + 1
    BY <1>2, <2>1
  <2>3. \A i \in 1..w : toServer[s][i] = M(s, (n + 1) + i)
    BY <1>2, <2>1, <2>2 DEF Run
  <2>4. m \in Numbered /\ coming = <<m>> \o toServer[s]
    BY <1>2, <1>4, <2>1 DEF M, Numbered
  <2> HIDE DEF m
  <2>5. <<m>> \in Seq(Numbered) /\ Len(<<m>>) = 1 /\ <<m>>[1] = m
    BY <2>4
  <2>6. /\ Len(<<m>> \o toServer[s]) = Len(<<m>>) + Len(toServer[s])
        /\ \A i \in 1..(Len(<<m>>) + Len(toServer[s])) :
             (<<m>> \o toServer[s])[i] =
                IF i <= Len(<<m>>) THEN <<m>>[i] ELSE toServer[s][i - Len(<<m>>)]
    BY <1>2, <2>5, ConcatProperties
  <2> HIDE DEF coming, w, n
  <2>7. /\ Len(coming) = 1 + w /\ w \in Nat /\ n \in Nat
        /\ \A i \in 1..(1 + w) : coming[i] = IF i <= 1 THEN m ELSE toServer[s][i - 1]
    <3>1. Len(coming) = 1 + w /\ w \in Nat /\ n \in Nat
      BY <1>2, <2>4, <2>5, <2>6 DEF w, n
    <3>2. ASSUME NEW i \in 1..(1 + w) PROVE coming[i] = IF i <= 1 THEN m ELSE toServer[s][i - 1]
      <4>1. coming[i] = IF i <= 1 THEN <<m>>[i] ELSE toServer[s][i - 1]
        BY <1>2, <2>4, <2>5, <2>6 DEF w
      <4>2. i <= 1 => i = 1
        BY <3>1
      <4> QED
        BY <2>5, <4>1, <4>2, Zenon
    <3> QED
      BY <3>1, <3>2
  <2>8. ASSUME NEW i \in 1..Len(coming) PROVE coming[i].n = n + i
    <3>1. CASE i = 1
      <4>1. coming[i] = m /\ m.n = n + 1
        BY <2>1, <2>7, <3>1 DEF M
      <4> QED
        BY <3>1, <4>1
    <3>2. CASE i # 1
      <4>1. i - 1 \in 1..w /\ ~(i <= 1) /\ (n + 1) + (i - 1) = n + i
        BY <2>7, <3>2
      <4>2. coming[i] = M(s, n + i)
        BY <2>3, <2>7, <4>1
      <4> QED
        BY <4>2 DEF M
    <3> QED
      BY <3>1, <3>2
  <2>9. n + Len(coming) = sent[s]
    <3>1. n + 1 + w = n + (1 + w)
      BY <2>7
    <3> QED
      BY <2>1, <2>7, <3>1, Zenon
  <2> QED
    BY <2>8, <2>9
<1> QED
  BY <1>1, <1>3, <1>4 DEF UpSession, Ordered, Got

(***************************************************************************)
(* app-server gets every phone's messages in the order they were sent and  *)
(* without gaps, over a connection of their own or one all sessions share, *)
(* and what it has not got yet is on the way while the session lasts       *)
(* (bridge, its two goroutines), for every number of sessions and messages.*)
(***************************************************************************)
THEOREM MessagesInOrder == Spec => []UpstreamInOrder
BY InitUp, NextUp, UpFollows, PTL DEF Spec

=============================================================================
