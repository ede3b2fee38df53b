------------------------------ MODULE JsonRpc ------------------------------
(***************************************************************************)
(* The phone's JSON-RPC client (src/pkjs/index.js, JsonRpcClient): one     *)
(* WebSocket, the initialize handshake, requests matched to answers by id, *)
(* a 15 s timer per request, and close().                                  *)
(*                                                                         *)
(* JavaScript runs one event at a time, so every event (a socket event, a  *)
(* timer, a call by the owner) is one action.  The reactions of the        *)
(* initialize promise run as microtasks at the end of the event that       *)
(* settles it and belong to the same action.                               *)
(***************************************************************************)
EXTENDS Naturals, Sequences, FiniteSets, Functions

CONSTANTS
  MaxRequests,  \* bound: ids used in a behaviour, initialize included
  Owners,       \* bound: who the client may belong to
  ServerIds     \* bound: ids of the requests the server sends after initialize

ASSUME MaxRequestsAssumption == MaxRequests \in Nat \ {0}
ASSUME OwnersAssumption == Owners \subseteq {"syncJobs", "ensureDetailClient"}
ASSUME ServerIdsAssumption == ServerIds \subseteq Nat \ {1}

VARIABLES
  owner,     \* who made the client
  socket,    \* readyState of the WebSocket, "none" before connect()
  attached,  \* this.ws is set
  connect,   \* the promise connect() returned: "idle" before the call
  nextId,    \* this.nextId
  pending,   \* ids in this.pending
  timers,    \* ids whose timeout is armed
  outcome,   \* id |-> what the promise request() returned has come to
  answered,  \* ids the server has answered
  asked,     \* ids of the requests the server has sent
  wire       \* the frames sent, in order: methods

vars == <<owner, socket, attached, connect, nextId, pending, timers, outcome,
          answered, asked, wire>>

Ids == 1..MaxRequests
InitializeId == 1
Settled == {"ok", "error"}

TypeOK ==
  /\ owner \in Owners
  /\ socket \in {"none", "connecting", "open", "closing", "closed"}
  /\ attached \in BOOLEAN
  /\ connect \in {"idle", "pending", "resolved", "rejected"}
  /\ nextId \in 1..(MaxRequests + 1)
  /\ pending \subseteq Ids
  /\ timers \subseteq Ids
  /\ outcome \in [Ids -> {"unsent", "waiting"} \cup Settled]
  /\ answered \subseteq Ids
  /\ asked \subseteq ServerIds
  /\ wire \in Seq({"initialize", "initialized", "request"})

Init ==
  /\ owner \in Owners
  /\ socket = "none"
  /\ attached = FALSE
  /\ connect = "idle"
  /\ nextId = 1
  /\ pending = {}
  /\ timers = {}
  /\ outcome = [id \in Ids |-> "unsent"]
  /\ answered = {}
  /\ asked = {}
  /\ wire = <<>>

-----------------------------------------------------------------------------
(* Helpers. *)

\* send() throws unless the socket is attached and open.
CanSend == attached /\ socket = "open"

\* The promise of connect() settles once.
SettleConnect(result) ==
  connect' = IF connect = "pending" THEN result ELSE connect

\* rejectAll: every pending request fails and its timer is cleared.
RejectAll ==
  /\ outcome' = [id \in Ids |-> IF id \in pending THEN "error" ELSE outcome[id]]
  /\ timers' = timers \ pending
  /\ pending' = {}

\* failConnect; when initialize is among the rejected, its catch calls
\* failConnect again, which changes nothing more.
FailConnect == SettleConnect("rejected") /\ RejectAll

\* Mutant: no timer is armed.
RequestUntimed(method) ==
  /\ CanSend
  /\ nextId \in Ids
  /\ nextId' = nextId + 1
  /\ pending' = pending \cup {nextId}
  /\ outcome' = [outcome EXCEPT ![nextId] = "waiting"]
  /\ wire' = Append(wire, method)
  /\ UNCHANGED timers

\* request(): the id is used up even when send() throws.
Request(method) ==
  /\ nextId \in Ids
  /\ nextId' = nextId + 1
  /\ IF CanSend
     THEN /\ pending' = pending \cup {nextId}
          /\ timers' = timers \cup {nextId}
          /\ outcome' = [outcome EXCEPT ![nextId] = "waiting"]
          /\ wire' = Append(wire, method)
     ELSE /\ outcome' = [outcome EXCEPT ![nextId] = "error"]
          /\ UNCHANGED <<pending, timers, wire>>

\* One request leaves the table with a result.
Settle(id, result) ==
  /\ pending' = pending \ {id}
  /\ timers' = timers \ {id}
  /\ outcome' = [outcome EXCEPT ![id] = result]

-----------------------------------------------------------------------------
(* The owner's calls. *)

Connect ==
  /\ connect = "idle"
  /\ \/ /\ socket' = "connecting" /\ attached' = TRUE
        /\ connect' = "pending"
     \/ /\ connect' = "rejected"             \* the constructor throws
        /\ UNCHANGED <<socket, attached>>
  /\ UNCHANGED <<nextId, pending, timers, outcome, answered, asked, wire>>

\* syncJobs sends its request from the reactions of a resolved connect(),
\* when the client may have been closed since.  ensureDetailClient also gives
\* the client to a second request as soon as its socket is open.
OwnerRequest ==
  /\ connect = "resolved" \/ (owner = "ensureDetailClient" /\ CanSend)
  /\ Request("request")
  /\ UNCHANGED <<socket, attached, connect, answered, asked>>

\* close(); when initialize was pending its rejection fails connect().
Close ==
  /\ connect # "idle"
  /\ attached' = FALSE
  /\ socket' = IF attached /\ socket \in {"connecting", "open"}
               THEN "closing" ELSE socket
  /\ RejectAll
  /\ IF InitializeId \in pending THEN SettleConnect("rejected")
                                 ELSE UNCHANGED connect
  /\ UNCHANGED <<nextId, answered, asked, wire>>

-----------------------------------------------------------------------------
(* Socket events. *)

\* onopen: the handshake starts.
SocketOpen ==
  /\ socket = "connecting"
  /\ socket' = "open"
  /\ nextId' = nextId + 1
  /\ pending' = pending \cup {nextId}
  /\ timers' = timers \cup {nextId}
  /\ outcome' = [outcome EXCEPT ![nextId] = "waiting"]
  /\ wire' = Append(wire, "initialize")
  /\ UNCHANGED <<attached, connect, answered, asked>>

\* onerror: the connection has failed, a close event follows.
SocketError ==
  /\ socket \in {"connecting", "open"}
  /\ socket' = "closing"
  /\ FailConnect
  /\ UNCHANGED <<attached, nextId, answered, asked, wire>>

SocketClose ==
  /\ socket \in {"connecting", "open", "closing"}
  /\ socket' = "closed"
  /\ FailConnect
  /\ UNCHANGED <<attached, nextId, answered, asked, wire>>

\* Mutant: connect() resolves without the initialized notification.
AnswerInitializeSilently ==
  /\ InitializeId \in pending
  /\ Settle(InitializeId, "ok")
  /\ SettleConnect("resolved")
  /\ UNCHANGED wire

\* handleMessage for an answer to the pending initialize request, with the
\* reactions of connect(): initialized is sent before anybody may use the
\* client.
AnswerInitialize ==
  /\ InitializeId \in pending
  /\ \/ /\ Settle(InitializeId, "ok")
        /\ wire' = Append(wire, "initialized")
        /\ SettleConnect("resolved")
     \/ /\ FailConnect
        /\ UNCHANGED wire

\* Mutant: an answer settles its request even when it came too late.
AnswerRequestLate(id) ==
  /\ id # InitializeId
  /\ \E result \in {"ok", "error"} : Settle(id, result)
  /\ UNCHANGED <<connect, wire>>

\* handleMessage for an answer to any other request; an answer to a request
\* that is no longer pending is dropped.
AnswerRequest(id) ==
  /\ id # InitializeId
  /\ \/ /\ id \in pending
        /\ \E result \in {"ok", "error"} : Settle(id, result)
     \/ /\ id \notin pending
        /\ UNCHANGED <<pending, timers, outcome>>
  /\ UNCHANGED <<connect, wire>>

\* The server answers every request it was sent at most once, in any order.
SocketMessage(id) ==
  /\ socket = "open"
  /\ id < nextId /\ id \notin answered
  /\ \/ AnswerInitialize /\ id = InitializeId
     \/ AnswerRequest(id)
     \/ /\ id = InitializeId /\ id \notin pending
        /\ UNCHANGED <<pending, timers, outcome, connect, wire>>
  /\ answered' = answered \cup {id}
  /\ UNCHANGED <<socket, attached, nextId, asked>>

\* A request of the server, an approval for instance, while the thread is
\* followed: handleMessage looks at its id only, and settles the pending
\* request that has the same one with an empty result.
ServerRequest(id) ==
  /\ socket = "open" /\ "request" \in Range(wire)
  /\ id \notin asked /\ asked' = asked \cup {id}
  /\ IF id \in pending THEN Settle(id, "ok") ELSE UNCHANGED <<pending, timers, outcome>>
  /\ UNCHANGED <<socket, attached, connect, nextId, answered, wire>>

\* Mutant: a timed-out initialize does not fail connect().
TimerFiresAlone(id) ==
  /\ id \in timers
  /\ Settle(id, "error")
  /\ UNCHANGED <<connect, socket, attached, nextId, answered, asked, wire>>

\* The 15 s timer of a request; initialize fails connect(), and with it every
\* request that did not wait for it.
TimerFires(id) ==
  /\ id \in timers
  /\ \/ /\ id # InitializeId
        /\ Settle(id, "error")
        /\ UNCHANGED connect
     \/ /\ id = InitializeId
        /\ FailConnect
  /\ UNCHANGED <<socket, attached, nextId, answered, asked, wire>>

Next ==
  /\ \/ Connect \/ OwnerRequest \/ Close
     \/ SocketOpen \/ SocketError \/ SocketClose
     \/ \E id \in Ids : SocketMessage(id) \/ TimerFires(id)
     \/ \E id \in ServerIds : ServerRequest(id)
  /\ UNCHANGED owner

Spec == Init /\ [][Next]_vars

\* A socket that is being opened or closed eventually reports the result, and
\* an armed timer eventually fires unless it is cleared.
SocketReports ==
  /\ socket \in {"connecting", "closing"}
  /\ SocketOpen \/ SocketError \/ SocketClose
  /\ UNCHANGED owner

FairSpec ==
  /\ Spec
  /\ WF_vars(SocketReports)
  /\ \A id \in Ids : WF_vars(TimerFires(id) /\ UNCHANGED owner)

-----------------------------------------------------------------------------
(* Properties. *)

\* The table of pending requests, the armed timers and the unsettled promises
\* are always the same requests: nothing is left to hang without a timer, and
\* no timer outlives its request (request, handleMessage, rejectAll).
PendingIsTimed ==
  /\ timers = pending
  /\ \A id \in Ids : id \in pending <=> outcome[id] = "waiting"

\* A client whose socket is not open, or that its owner has closed, has
\* nothing pending, however late its socket events arrive (rejectAll, send).
DeadClientsAreIdle == ~CanSend => pending = {}

\* Nothing is sent before the handshake is complete: initialize, initialized,
\* then requests (connect, ensureDetailClient).
HandshakeFirst ==
  /\ \A i \in 1..Len(wire) :
       (wire[i] = "initialize" <=> i = 1) /\ (wire[i] = "initialized" <=> i = 2)
  /\ connect = "resolved" => Len(wire) >= 2

\* The same of a client whose owner waits for connect() (syncJobs).
ListHandshakeFirst == owner = "syncJobs" => HandshakeFirst

\* Once a request has an outcome, no late answer, timer or close changes it
\* (handleMessage).
OutcomeIsFinal ==
  [][\A id \in Ids : outcome[id] \in Settled => outcome'[id] = outcome[id]]_vars

\* Every request settles, whatever the server and the socket do (the timer in
\* request).
RequestsSettle == \A id \in Ids : (id \in pending) ~> (id \notin pending)

\* connect() settles once the socket has reported, even when the server never
\* answers initialize or the owner closes the client meanwhile (connect).
ConnectSettles == (connect = "pending") ~> (connect # "pending")

=============================================================================
