--------------------------- MODULE JsonRpcProofs ---------------------------
(***************************************************************************)
(* Proofs about one JSON-RPC client, for every number of requests, every   *)
(* owner and every choice of ids by the server.                            *)
(***************************************************************************)
EXTENDS JsonRpc, SequenceTheorems, TLAPS

(***************************************************************************)
(* The inductive invariant.  Besides the properties themselves it says     *)
(* where the client is in its life: a socket that is connecting or open is *)
(* the one the client holds, connecting means that nothing has happened    *)
(* yet, and ids from nextId on are unused.                                 *)
(***************************************************************************)
Attached == socket \in {"connecting", "open"} => attached

Fresh ==
  socket \in {"none", "connecting"} =>
    /\ nextId = 1 /\ wire = <<>> /\ pending = {}
    /\ connect # "resolved"
    /\ socket = "connecting" => connect = "pending"

Called == connect = "idle" => socket = "none"

Unused == \A id \in Ids : id >= nextId => outcome[id] = "unsent"

ListWire ==
  owner = "syncJobs" =>
    /\ InitializeId \in pending => wire = <<"initialize">> /\ connect = "pending"
    /\ IF connect = "resolved" THEN nextId > 1 ELSE wire \in {<<>>, <<"initialize">>}

IInv ==
  /\ TypeOK /\ PendingIsTimed /\ DeadClientsAreIdle /\ ListHandshakeFirst
  /\ Attached /\ Fresh /\ Called /\ Unused /\ ListWire

-----------------------------------------------------------------------------
\* The invariant holds before connect().
LEMMA InitIInv == Init => IInv
<1> SUFFICES ASSUME Init PROVE IInv
  OBVIOUS
<1>1. 1 \in Ids /\ wire = <<>> /\ wire \in Seq({"initialize", "initialized", "request"})
  BY MaxRequestsAssumption, EmptySeq DEF Init, Ids
<1>2. TypeOK
  <2>1. outcome \in [Ids -> {"unsent", "waiting"} \cup Settled]
    BY DEF Init
  <2>2. nextId \in 1..(MaxRequests + 1)
    BY MaxRequestsAssumption DEF Init
  <2> QED
    BY <1>1, <2>1, <2>2, Zenon DEF Init, TypeOK
<1>3. PendingIsTimed /\ DeadClientsAreIdle /\ Attached /\ Fresh /\ Called /\ Unused
  BY DEF Init, PendingIsTimed, DeadClientsAreIdle, Attached, Fresh, Called, Unused
<1>4. ListHandshakeFirst
  BY <1>1, LenProperties DEF Init, ListHandshakeFirst, HandshakeFirst
<1>5. ListWire
  BY DEF Init, ListWire
<1> QED
  BY <1>2, <1>3, <1>4, <1>5 DEF IInv

-----------------------------------------------------------------------------
(***************************************************************************)
(* What the three ways of changing the table of pending requests do to it: *)
(* a new request, one that is settled, and rejectAll.                      *)
(***************************************************************************)
Table == /\ pending \subseteq Ids /\ timers \subseteq Ids
         /\ outcome \in [Ids -> {"unsent", "waiting"} \cup Settled]
         /\ nextId \in 1..(MaxRequests + 1)
         /\ PendingIsTimed /\ Unused

Final == \A id \in Ids : outcome[id] \in Settled => outcome'[id] = outcome[id]

\* The part of the invariant that is about the table of requests.
LEMMA TableOfIInv == IInv => Table
  BY DEF IInv, TypeOK, Table

\* request() adds one pending, timed, waiting request, and reopens none.
LEMMA NewRequest ==
  ASSUME Table, nextId \in Ids, nextId' = nextId + 1,
         pending' = pending \cup {nextId}, timers' = timers \cup {nextId},
         outcome' = [outcome EXCEPT ![nextId] = "waiting"]
  PROVE  Table' /\ Final
<1>1. nextId \in Nat /\ nextId <= MaxRequests /\ outcome[nextId] = "unsent"
  BY MaxRequestsAssumption DEF Table, Ids, Unused
<1>2. outcome' \in [Ids -> {"unsent", "waiting"} \cup Settled]
  BY DEF Table
<1>3. \A id \in Ids : outcome'[id] = IF id = nextId THEN "waiting" ELSE outcome[id]
  BY DEF Table
<1>4. PendingIsTimed'
  BY <1>3 DEF Table, PendingIsTimed
<1>5. Unused'
  BY <1>1, <1>3 DEF Table, Unused, Ids
<1>6. Final
  BY <1>1, <1>3 DEF Final, Settled
<1> QED
  BY <1>1, <1>2, <1>4, <1>5, <1>6, MaxRequestsAssumption DEF Table, Ids

\* An answer or a timeout takes one request out of the table, for good.
LEMMA SettledRequest ==
  ASSUME Table, NEW id \in pending, NEW result \in Settled, Settle(id, result),
         UNCHANGED nextId
  PROVE  Table' /\ Final /\ pending' = pending \ {id}
<1>1. id \in Ids /\ outcome[id] = "waiting"
  BY DEF Table, PendingIsTimed
<1>2. outcome' \in [Ids -> {"unsent", "waiting"} \cup Settled]
  BY DEF Table, Settle
<1>3. \A i \in Ids : outcome'[i] = IF i = id THEN result ELSE outcome[i]
  BY DEF Table, Settle
<1>4. PendingIsTimed'
  BY <1>1, <1>3 DEF Table, PendingIsTimed, Settle, Settled
<1>5. Unused'
  BY <1>1, <1>3 DEF Table, Unused, Ids
<1>6. Final
  BY <1>1, <1>3 DEF Final, Settled
<1> QED
  BY <1>2, <1>4, <1>5, <1>6 DEF Table, Settle

\* rejectAll empties the table and settles what was pending, for good.
LEMMA RejectedRequests ==
  ASSUME Table, RejectAll, UNCHANGED nextId
  PROVE  Table' /\ Final /\ pending' = {}
<1>1. \A id \in Ids : outcome'[id] = IF id \in pending THEN "error" ELSE outcome[id]
  BY DEF RejectAll
<1>2. outcome' \in [Ids -> {"unsent", "waiting"} \cup Settled]
  BY DEF Table, RejectAll, Settled
<1>3. PendingIsTimed'
  BY <1>1 DEF Table, PendingIsTimed, RejectAll
<1>4. Unused'
  BY <1>1 DEF Table, Unused, PendingIsTimed
<1>5. Final
  BY <1>1 DEF Table, Final, Settled, PendingIsTimed
<1> QED
  BY <1>2, <1>3, <1>4, <1>5 DEF Table, RejectAll

\* A step that leaves the table alone keeps what is said about it.
LEMMA SameTable ==
  ASSUME Table, UNCHANGED <<pending, timers, outcome, nextId>>
  PROVE  Table' /\ Final
  BY DEF Table, PendingIsTimed, Unused, Final

-----------------------------------------------------------------------------
(***************************************************************************)
(* What the wire of a list client is after each step that does not send.   *)
(***************************************************************************)
LEMMA SameWire ==
  ASSUME IInv, UNCHANGED <<owner, nextId, wire>>, pending' \subseteq pending,
         connect' = "resolved" <=> connect = "resolved",
         InitializeId \in pending' => connect' = connect
  PROVE  ListHandshakeFirst' /\ ListWire'
<1>1. ListHandshakeFirst'
  BY DEF IInv, ListHandshakeFirst, HandshakeFirst
<1>2. ListWire'
  BY DEF IInv, ListWire, InitializeId
<1> QED
  BY <1>1, <1>2

\* Every lemma below is about one action: it keeps the invariant, and no
\* outcome that is final changes.
LEMMA ConnectStep ==
  ASSUME IInv, Connect, UNCHANGED owner PROVE IInv' /\ Final
<1>1. socket = "none" /\ nextId = 1 /\ wire = <<>> /\ pending = {}
  BY DEF IInv, Called, Fresh, Connect
<1>2. Table' /\ Final
  BY TableOfIInv, SameTable DEF Connect
<1>3. ListHandshakeFirst' /\ ListWire'
  BY <1>1, SameWire DEF Connect
<1>4. TypeOK'
  BY <1>2 DEF IInv, TypeOK, Table, Connect
<1>5. DeadClientsAreIdle' /\ Attached' /\ Fresh' /\ Called'
  BY <1>1 DEF IInv, Connect, DeadClientsAreIdle, Attached, Fresh, Called
<1> QED
  BY <1>2, <1>3, <1>4, <1>5 DEF IInv, Table

\* close() keeps the invariant.
LEMMA CloseStep ==
  ASSUME IInv, Close, UNCHANGED owner PROVE IInv' /\ Final
<1>1. Table' /\ Final /\ pending' = {}
  BY TableOfIInv, RejectedRequests DEF Close
<1>2. /\ connect' \in {connect, "rejected"}
      /\ connect' = "resolved" <=> connect = "resolved"
      /\ connect' # "idle"
      /\ InitializeId \notin pending => connect' = connect
  BY DEF Close, SettleConnect
<1>3. ListHandshakeFirst' /\ ListWire'
  BY <1>1, <1>2, SameWire DEF Close
<1>4. TypeOK'
  BY <1>1, <1>2 DEF IInv, TypeOK, Table, Close
<1>5. DeadClientsAreIdle'
  BY <1>1 DEF DeadClientsAreIdle
<1>6. socket' # "connecting" /\ Attached'
  BY DEF IInv, Attached, Close
<1>7. Fresh' /\ Called'
  BY <1>1, <1>2, <1>6 DEF IInv, Fresh, Called, Close
<1> QED
  BY <1>1, <1>3, <1>4, <1>5, <1>6, <1>7 DEF IInv, Table

\* onerror and onclose: failConnect on a socket that is on its way out.
LEMMA SocketDownStep ==
  ASSUME IInv, SocketError \/ SocketClose, UNCHANGED owner PROVE IInv' /\ Final
<1>1. Table' /\ Final /\ pending' = {}
  BY TableOfIInv, RejectedRequests DEF SocketError, SocketClose, FailConnect
<1>2. /\ connect' \in {connect, "rejected"}
      /\ connect' = "resolved" <=> connect = "resolved"
      /\ connect' = "idle" => connect = "idle"
  BY DEF SocketError, SocketClose, FailConnect, SettleConnect
<1>3. ListHandshakeFirst' /\ ListWire'
  BY <1>1, <1>2, SameWire DEF SocketError, SocketClose
<1>4. socket' \in {"closing", "closed"} /\ socket # "none"
  BY DEF SocketError, SocketClose
<1>5. TypeOK'
  BY <1>1, <1>2, <1>4 DEF IInv, TypeOK, Table, SocketError, SocketClose
<1>6. DeadClientsAreIdle' /\ Attached' /\ Fresh' /\ Called'
  BY <1>1, <1>2, <1>4 DEF IInv, DeadClientsAreIdle, Attached, Fresh, Called
<1> QED
  BY <1>1, <1>3, <1>5, <1>6 DEF IInv, Table

\* onopen sends initialize, as the first frame of a client.
LEMMA SocketOpenStep ==
  ASSUME IInv, SocketOpen, UNCHANGED owner PROVE IInv' /\ Final
<1>1. attached /\ nextId = 1 /\ wire = <<>> /\ connect = "pending"
  BY DEF IInv, Attached, Fresh, SocketOpen
<1>2. nextId \in Ids
  BY <1>1, MaxRequestsAssumption DEF Ids
<1>3. Table' /\ Final
  BY <1>2, TableOfIInv, NewRequest DEF SocketOpen
<1>4. wire' = <<"initialize">>
  BY <1>1 DEF SocketOpen
<1>5. ListHandshakeFirst'
  BY <1>1, <1>4 DEF SocketOpen, ListHandshakeFirst, HandshakeFirst
<1>6. ListWire'
  BY <1>1, <1>4 DEF SocketOpen, ListWire
<1>7. wire' \in Seq({"initialize", "initialized", "request"})
  BY <1>4
<1>8. TypeOK'
  BY <1>3, <1>7, Zenon DEF IInv, TypeOK, Table, SocketOpen
<1>9. DeadClientsAreIdle' /\ Attached' /\ Fresh' /\ Called'
  BY <1>1 DEF SocketOpen, DeadClientsAreIdle, CanSend, Attached, Fresh, Called
<1> QED
  BY <1>3, <1>5, <1>6, <1>8, <1>9 DEF IInv, Table

\* A request of the owner: sent, or failed at once.  A list client makes it
\* only when connect() has resolved, so initialize is long gone.
LEMMA OwnerRequestStep ==
  ASSUME IInv, OwnerRequest, UNCHANGED owner PROVE IInv' /\ Final
<1>1. socket \notin {"none", "connecting"}
  BY DEF IInv, Fresh, OwnerRequest, CanSend
<1>2. nextId \in Ids /\ nextId' = nextId + 1
  BY DEF OwnerRequest, Request
<1>3. CASE CanSend
  <2>1. Table' /\ Final
    BY <1>2, <1>3, TableOfIInv, NewRequest DEF OwnerRequest, Request
  <2>2. wire' = Append(wire, "request") /\ wire \in Seq({"initialize", "initialized", "request"})
    BY <1>3 DEF OwnerRequest, Request, IInv, TypeOK
  <2>3. wire' \in Seq({"initialize", "initialized", "request"})
    BY <2>2, AppendProperties
  <2>4. TypeOK'
    BY <2>1, <2>3, Zenon DEF IInv, TypeOK, Table, OwnerRequest
  <2>5. DeadClientsAreIdle' /\ Attached' /\ Fresh' /\ Called'
    BY <1>1, <1>3 DEF IInv, OwnerRequest, DeadClientsAreIdle, CanSend, Attached, Fresh, Called
  <2>6. ASSUME owner = "syncJobs" PROVE HandshakeFirst' /\ ListWire'
    <3>1. connect = "resolved" /\ nextId > 1 /\ Len(wire) >= 2 /\ HandshakeFirst
      BY <2>6 DEF OwnerRequest, IInv, ListWire, ListHandshakeFirst, HandshakeFirst
    <3>2. Len(wire') = Len(wire) + 1 /\ wire'[Len(wire) + 1] = "request"
      BY <2>2, AppendProperties
    <3>3. \A i \in 1..Len(wire) : wire'[i] = wire[i]
      BY <2>2, AppendProperties
    <3>4. Len(wire) \in Nat
      BY <2>2, LenProperties
    <3>5. HandshakeFirst'
      BY <3>1, <3>2, <3>3, <3>4 DEF HandshakeFirst
    <3>6. InitializeId \notin pending
      BY <2>6, <3>1, <3>4 DEF IInv, ListWire
    <3>7. InitializeId \notin pending' /\ nextId' > 1
      BY <1>2, <1>3, <3>1, <3>6 DEF OwnerRequest, Request, InitializeId, Ids
    <3> QED
      BY <3>1, <3>5, <3>7 DEF OwnerRequest, ListWire
  <2>7. ListHandshakeFirst' /\ ListWire'
    BY <2>6 DEF ListHandshakeFirst, ListWire
  <2> QED
    BY <2>1, <2>4, <2>5, <2>7 DEF IInv, Table
<1>4. CASE ~CanSend
  <2>1. connect = "resolved"
    BY <1>4 DEF OwnerRequest
  <2>2. /\ outcome' = [outcome EXCEPT ![nextId] = "error"]
        /\ UNCHANGED <<pending, timers, wire>>
    BY <1>4 DEF OwnerRequest, Request
  <2>3. outcome[nextId] = "unsent" /\ nextId \notin pending
    BY <1>2, MaxRequestsAssumption DEF IInv, Unused, PendingIsTimed, Ids, TypeOK
  <2>4. \A id \in Ids : outcome'[id] = IF id = nextId THEN "error" ELSE outcome[id]
    BY <2>2 DEF IInv, TypeOK
  <2>5. outcome' \in [Ids -> {"unsent", "waiting"} \cup Settled]
    BY <2>2 DEF IInv, TypeOK, Settled
  <2>6. nextId' \in 1..(MaxRequests + 1)
    BY <1>2, MaxRequestsAssumption DEF Ids
  <2>7. TypeOK'
    BY <2>2, <2>5, <2>6, Zenon DEF IInv, TypeOK, OwnerRequest
  <2>8. PendingIsTimed'
    BY <2>2, <2>3, <2>4 DEF IInv, PendingIsTimed
  <2>9. Unused' /\ Final
    BY <1>2, <2>3, <2>4, MaxRequestsAssumption DEF IInv, Unused, Final, Settled, Ids
  <2>10. DeadClientsAreIdle' /\ Attached' /\ Fresh' /\ Called'
    BY <1>1, <2>2 DEF IInv, OwnerRequest, DeadClientsAreIdle, CanSend, Attached, Fresh, Called
  <2>11. ListHandshakeFirst'
    BY <2>2 DEF IInv, OwnerRequest, ListHandshakeFirst, HandshakeFirst
  <2>12. ListWire'
    BY <1>2, <2>1, <2>2 DEF IInv, OwnerRequest, ListWire, InitializeId, Ids
  <2> QED
    BY <2>7, <2>8, <2>9, <2>10, <2>11, <2>12 DEF IInv
<1> QED
  BY <1>3, <1>4

\* A step that settles at most the request id, and only if it is not
\* initialize: answers, requests of the server, timers.
LEMMA SettleStep ==
  ASSUME IInv, NEW id \in Nat, NEW result \in Settled, id \in pending,
         Settle(id, result), UNCHANGED <<owner, socket, attached, connect, nextId, wire>>,
         answered' \subseteq Ids, asked' \subseteq ServerIds
  PROVE  IInv' /\ Final
<1>1. Table' /\ Final /\ pending' = pending \ {id}
  BY TableOfIInv, SettledRequest
<1>2. ListHandshakeFirst' /\ ListWire'
  BY <1>1, SameWire
<1>3. TypeOK'
  BY <1>1, Zenon DEF IInv, TypeOK, Table
<1>4. DeadClientsAreIdle' /\ Attached' /\ Fresh' /\ Called'
  BY <1>1 DEF IInv, DeadClientsAreIdle, CanSend, Attached, Fresh, Called
<1> QED
  BY <1>1, <1>2, <1>3, <1>4 DEF IInv, Table

\* A step that leaves the table, the connection and the wire alone.
LEMMA DroppedStep ==
  ASSUME IInv, UNCHANGED <<owner, socket, attached, connect, nextId, wire>>,
         UNCHANGED <<pending, timers, outcome>>,
         answered' \subseteq Ids, asked' \subseteq ServerIds
  PROVE  IInv' /\ Final
<1>1. Table' /\ Final
  BY TableOfIInv, SameTable
<1>2. ListHandshakeFirst' /\ ListWire'
  BY SameWire
<1>3. TypeOK'
  BY <1>1, Zenon DEF IInv, TypeOK, Table
<1>4. DeadClientsAreIdle' /\ Attached' /\ Fresh' /\ Called'
  BY DEF IInv, DeadClientsAreIdle, CanSend, Attached, Fresh, Called
<1> QED
  BY <1>1, <1>2, <1>3, <1>4 DEF IInv, Table

\* The handshake fails while the socket is up: an error answer to initialize
\* or its timeout.
LEMMA HandshakeFails ==
  ASSUME IInv, FailConnect, InitializeId \in pending,
         UNCHANGED <<owner, socket, attached, nextId, wire, asked>>,
         answered' \subseteq Ids
  PROVE  IInv' /\ Final
<1>1. Table' /\ Final /\ pending' = {}
  BY TableOfIInv, RejectedRequests DEF FailConnect
<1>2. /\ connect' \in {connect, "rejected"}
      /\ connect' = "resolved" <=> connect = "resolved"
      /\ connect' = "idle" => connect = "idle"
  BY DEF FailConnect, SettleConnect
<1>3. ListHandshakeFirst' /\ ListWire'
  BY <1>1, <1>2, SameWire
<1>4. TypeOK'
  BY <1>1, <1>2 DEF IInv, TypeOK, Table
<1>5. socket \notin {"none", "connecting"}
  BY DEF IInv, Fresh
<1>6. DeadClientsAreIdle' /\ Attached' /\ Fresh' /\ Called'
  BY <1>1, <1>2, <1>5 DEF IInv, DeadClientsAreIdle, Attached, Fresh, Called
<1> QED
  BY <1>1, <1>3, <1>4, <1>6 DEF IInv, Table

\* The handshake succeeds: initialized is the second frame of the wire.
LEMMA HandshakeSucceeds ==
  ASSUME IInv, InitializeId \in pending, Settle(InitializeId, "ok"),
         wire' = Append(wire, "initialized"), SettleConnect("resolved"),
         UNCHANGED <<owner, socket, attached, nextId, asked>>,
         answered' \subseteq Ids
  PROVE  IInv' /\ Final
<1>1. Table' /\ Final /\ pending' = pending \ {InitializeId}
  BY TableOfIInv, SettledRequest DEF Settled
<1>2. nextId > 1 /\ socket \notin {"none", "connecting"}
  BY MaxRequestsAssumption DEF IInv, TypeOK, PendingIsTimed, Unused, Fresh, InitializeId, Ids
<1>3. wire \in Seq({"initialize", "initialized", "request"})
  BY DEF IInv, TypeOK
<1>4. wire' \in Seq({"initialize", "initialized", "request"})
  BY <1>3, AppendProperties
<1>5. /\ connect' \in {connect, "resolved"}
      /\ connect' = "idle" => connect = "idle"
      /\ connect = "pending" => connect' = "resolved"
  BY DEF SettleConnect
<1>6. TypeOK'
  <2>1. connect' \in {"idle", "pending", "resolved", "rejected"}
    BY <1>5 DEF IInv, TypeOK
  <2> QED
    BY <1>1, <1>4, <2>1, Zenon DEF IInv, TypeOK, Table
<1>7. DeadClientsAreIdle' /\ Attached' /\ Fresh' /\ Called'
  BY <1>1, <1>2, <1>5 DEF IInv, DeadClientsAreIdle, CanSend, Attached, Fresh, Called
<1>8. ASSUME owner = "syncJobs" PROVE HandshakeFirst' /\ ListWire'
  <2>1. wire = <<"initialize">> /\ connect = "pending"
    BY <1>8 DEF IInv, ListWire
  <2>2. Len(wire') = 2 /\ wire'[1] = "initialize" /\ wire'[2] = "initialized"
    <3>1. Len(wire) = 1 /\ wire[1] = "initialize"
      BY <2>1
    <3>2. Len(wire') = Len(wire) + 1 /\ wire'[Len(wire) + 1] = "initialized"
      BY <1>3, AppendProperties
    <3>3. \A i \in 1..Len(wire) : wire'[i] = wire[i]
      BY <1>3, AppendProperties
    <3> QED
      BY <3>1, <3>2, <3>3
  <2>3. HandshakeFirst'
    BY <2>2 DEF HandshakeFirst
  <2>4. connect' = "resolved" /\ nextId' > 1 /\ InitializeId \notin pending'
    BY <1>1, <1>2, <1>5, <2>1
  <2> QED
    BY <2>3, <2>4 DEF ListWire
<1>9. ListHandshakeFirst' /\ ListWire'
  BY <1>8 DEF ListHandshakeFirst, ListWire
<1> QED
  BY <1>1, <1>6, <1>7, <1>9 DEF IInv, Table

\* An answer of app-server keeps the invariant, expected or not.
LEMMA SocketMessageStep ==
  ASSUME IInv, NEW id \in Ids, SocketMessage(id), UNCHANGED owner
  PROVE  IInv' /\ Final
<1>1. answered' \subseteq Ids /\ asked' \subseteq ServerIds /\ id \in Nat
  BY DEF SocketMessage, IInv, TypeOK, Ids
<1>2. CASE AnswerInitialize
  BY <1>1, <1>2, HandshakeSucceeds, HandshakeFails DEF SocketMessage, AnswerInitialize
<1>3. CASE AnswerRequest(id)
  <2>1. CASE id \in pending
    <3>1. PICK result \in Settled : Settle(id, result)
      BY <1>3, <2>1 DEF AnswerRequest, Settled
    <3> QED
      BY <1>1, <1>3, <2>1, <3>1, SettleStep DEF SocketMessage, AnswerRequest
  <2>2. CASE id \notin pending
    BY <1>1, <1>3, <2>2, DroppedStep DEF SocketMessage, AnswerRequest
  <2> QED
    BY <2>1, <2>2
<1>4. CASE UNCHANGED <<pending, timers, outcome, connect, wire>>
  BY <1>1, <1>4, DroppedStep DEF SocketMessage
<1> QED
  BY <1>2, <1>3, <1>4 DEF SocketMessage

\* A request of app-server keeps the invariant, whatever its id.
LEMMA ServerRequestStep ==
  ASSUME IInv, NEW id \in ServerIds, ServerRequest(id), UNCHANGED owner
  PROVE  IInv' /\ Final
<1>1. answered' \subseteq Ids /\ asked' \subseteq ServerIds /\ id \in Nat
  BY ServerIdsAssumption DEF ServerRequest, IInv, TypeOK
<1>2. CASE id \in pending
  BY <1>1, <1>2, SettleStep DEF ServerRequest, Settled
<1>3. CASE id \notin pending
  BY <1>1, <1>3, DroppedStep DEF ServerRequest
<1> QED
  BY <1>2, <1>3

\* The timer of a request keeps the invariant.
LEMMA TimerStep ==
  ASSUME IInv, NEW id \in Ids, TimerFires(id), UNCHANGED owner
  PROVE  IInv' /\ Final
<1>1. answered' \subseteq Ids /\ asked' \subseteq ServerIds /\ id \in Nat /\ id \in pending
  BY DEF TimerFires, IInv, TypeOK, PendingIsTimed, Ids
<1>2. CASE id # InitializeId
  BY <1>1, <1>2, SettleStep DEF TimerFires, Settled
<1>3. CASE id = InitializeId
  BY <1>1, <1>3, HandshakeFails DEF TimerFires
<1> QED
  BY <1>2, <1>3

-----------------------------------------------------------------------------
\* Every step keeps the invariant and every outcome.
LEMMA NextIInv == IInv /\ [Next]_vars => IInv' /\ Final
<1> SUFFICES ASSUME IInv, [Next]_vars PROVE IInv' /\ Final
  OBVIOUS
<1>1. CASE Next
  BY <1>1, ConnectStep, OwnerRequestStep, CloseStep, SocketOpenStep, SocketDownStep,
     SocketMessageStep, ServerRequestStep, TimerStep DEF Next
<1>2. CASE UNCHANGED vars
  BY <1>2, DroppedStep DEF vars, IInv, TypeOK
<1> QED
  BY <1>1, <1>2

\* The strengthened invariant holds in every reachable state of a client.
THEOREM Inductive == Spec => []IInv
<1> QED
  BY InitIInv, NextIInv, PTL DEF Spec

\* Every variable of the client keeps its type.
THEOREM TypeCorrect == Spec => []TypeOK
<1>1. IInv => TypeOK
  BY DEF IInv
<1> QED
  BY <1>1, Inductive, PTL

\* Pending requests, armed timers and waiting promises are the same requests
\* (request, handleMessage, rejectAll).
THEOREM PendingTimed == Spec => []PendingIsTimed
<1>1. IInv => PendingIsTimed
  BY DEF IInv
<1> QED
  BY <1>1, Inductive, PTL

\* A client that cannot send has nothing pending (rejectAll, send).
THEOREM DeadIdle == Spec => []DeadClientsAreIdle
<1>1. IInv => DeadClientsAreIdle
  BY DEF IInv
<1> QED
  BY <1>1, Inductive, PTL

\* A list client sends initialize, then initialized, then its requests
\* (connect, syncJobs).
THEOREM ListHandshake == Spec => []ListHandshakeFirst
<1>1. IInv => ListHandshakeFirst
  BY DEF IInv
<1> QED
  BY <1>1, Inductive, PTL

\* A promise of request() settles once: no late answer, timer, close or
\* socket event changes what it came to (handleMessage, rejectAll).
THEOREM FinalOutcome == Spec => OutcomeIsFinal
<1>1. IInv /\ [Next]_vars =>
        [\A id \in Ids : outcome[id] \in Settled => outcome'[id] = outcome[id]]_vars
  BY NextIInv DEF Final
<1> QED
  BY <1>1, Inductive, PTL DEF Spec, OutcomeIsFinal

=============================================================================
