------------------------------ MODULE Sidecar ------------------------------
(***************************************************************************)
(* The sidecar (src/internal/sidecar): one HTTP handler per connection     *)
(* attempt, a gate that admits one session at a time, and for the admitted *)
(* session two goroutines that copy messages between the phone and Codex   *)
(* app-server, over a Unix socket opened for the session or over the       *)
(* process's own stdin and stdout.                                         *)
(*                                                                         *)
(* Steps are the places where goroutines can interleave: the compare-and-  *)
(* swap, each blocking read, each write, the write lock of the phone's     *)
(* WebSocket, and the closes.  Message contents, pings and the framing are *)
(* abstracted.  Session s is the whole life of one connection attempt,     *)
(* from the request that waits to be served.                               *)
(***************************************************************************)
EXTENDS Naturals, Sequences, FiniteSets, SequencesExt

CONSTANTS
  Sessions,     \* connection attempts
  Transports,   \* bound: the backends ResolveBackend may have found
  StdioPipe,    \* the app-server's end of the process's stdin and stdout
  MaxMessages   \* bound: messages the phones send in a behaviour

ASSUME TransportsAssumption == Transports \subseteq {"unix", "stdio"}
ASSUME MaxMessagesAssumption == MaxMessages \in Nat

VARIABLES
  transport,   \* backend.Transport, the same for the life of the process
  active,      \* Server.active
  handler,     \* session |-> where ServeHTTP is
  reader,      \* session |-> where the phone-to-server goroutine is
  writer,      \* session |-> where the server-to-phone goroutine is
  sending,     \* session |-> the message reader is about to send, if any
  writing,     \* session |-> the message writer is about to write, if any
  writeLock,   \* session |-> who holds writeMu of the phone's connection
  errc,        \* session |-> errors in the bridge's channel
  down,        \* session |-> the phone's connection at the sidecar
  up,          \* session |-> the upstream of the session
  phone,       \* session |-> the phone's end
  toServer,    \* session |-> messages on their way to the sidecar
  sent,        \* session |-> number of messages the phone sent
  phoneGot,    \* session |-> answers the phone received
  serverGot,   \* channel |-> messages app-server received
  served,      \* channel |-> how many of them it has answered
  fromServer,  \* channel |-> answers on their way to the sidecar
  serverUp     \* app-server is running

vars == <<transport, active, handler, reader, writer, sending, writing, writeLock, errc,
          down, up, phone, toServer, sent, phoneGot, serverGot, served,
          fromServer, serverUp>>

phoneVars == <<phone, toServer, sent>>
serverVars == <<serverGot, served, fromServer, serverUp>>
bridgeVars == <<reader, writer, sending, writing, errc>>

Channels == Sessions \cup {StdioPipe}
\* Mutant: all sessions share one upstream.
SharedChannel(s) == StdioPipe

Channel(s) == IF transport = "stdio" THEN StdioPipe ELSE s

\* A message is its session and its number; app-server answers with the same.
Message == [session : Sessions, n : 1..MaxMessages]
None == <<>>

\* Handlers that are past the gate and have not released it.
Holding == {"claimed", "dialed", "bridge", "close", "closing", "closeUp", "release"}

TypeOK ==
  /\ transport \in Transports
  /\ active \in BOOLEAN
  /\ handler \in [Sessions -> {"new", "done"} \cup Holding]
  /\ reader \in [Sessions -> {"off", "read", "send", "reply", "replying", "out"}]
  /\ writer \in [Sessions -> {"off", "recv", "write", "locked", "out"}]
  /\ sending \in [Sessions -> Message \cup {None}]
  /\ writing \in [Sessions -> Message \cup {None}]
  /\ writeLock \in [Sessions -> {"free", "reader", "writer", "handler"}]
  /\ errc \in [Sessions -> 0..2]
  /\ down \in [Sessions -> {"none", "open", "closed"}]
  /\ up \in [Sessions -> {"none", "open", "closed"}]
  /\ phone \in [Sessions -> {"asking", "open", "refused", "left"}]
  /\ sent \in [Sessions -> 0..MaxMessages]
  /\ served \in [Channels -> Nat]
  /\ serverUp \in BOOLEAN

Init ==
  /\ transport \in Transports
  /\ active = FALSE
  /\ handler = [s \in Sessions |-> "new"]
  /\ reader = [s \in Sessions |-> "off"]
  /\ writer = [s \in Sessions |-> "off"]
  /\ sending = [s \in Sessions |-> None]
  /\ writing = [s \in Sessions |-> None]
  /\ writeLock = [s \in Sessions |-> "free"]
  /\ errc = [s \in Sessions |-> 0]
  /\ down = [s \in Sessions |-> "none"]
  /\ up = [s \in Sessions |-> "none"]
  /\ phone = [s \in Sessions |-> "asking"]
  /\ toServer = [s \in Sessions |-> <<>>]
  /\ sent = [s \in Sessions |-> 0]
  /\ phoneGot = [s \in Sessions |-> <<>>]
  /\ serverGot = [c \in Channels |-> <<>>]
  /\ served = [c \in Channels |-> 0]
  /\ fromServer = [c \in Channels |-> <<>>]
  /\ serverUp = TRUE

-----------------------------------------------------------------------------
(* The phone and app-server. *)

SumSent == MapThenSumSet(LAMBDA s : sent[s], Sessions)

PhoneSends(s) ==
  /\ phone[s] = "open" /\ SumSent < MaxMessages
  /\ sent' = [sent EXCEPT ![s] = sent[s] + 1]
  /\ toServer' = [toServer EXCEPT ![s] =
                    Append(toServer[s], [session |-> s, n |-> sent[s] + 1])]
  /\ UNCHANGED <<transport, active, handler, bridgeVars, writeLock, down, up, phone,
                 phoneGot, serverVars>>

\* The phone closes its socket, or its network is gone.
PhoneLeaves(s) ==
  /\ phone[s] \in {"asking", "open"}
  /\ phone' = [phone EXCEPT ![s] = "left"]
  /\ UNCHANGED <<transport, active, handler, bridgeVars, writeLock, down, up, toServer,
                 sent, phoneGot, serverVars>>

ServerAnswers(c) ==
  /\ serverUp /\ served[c] < Len(serverGot[c])
  /\ served' = [served EXCEPT ![c] = served[c] + 1]
  /\ fromServer' = [fromServer EXCEPT ![c] =
                      Append(fromServer[c], serverGot[c][served[c] + 1])]
  /\ UNCHANGED <<transport, active, handler, bridgeVars, writeLock, down, up, phoneVars,
                 phoneGot, serverGot, serverUp>>

ServerExits ==
  /\ serverUp /\ serverUp' = FALSE
  /\ UNCHANGED <<transport, active, handler, bridgeVars, writeLock, down, up, phoneVars,
                 phoneGot, serverGot, served, fromServer>>

-----------------------------------------------------------------------------
(* ServeHTTP. *)

HandlerStep(s, from, to) ==
  /\ handler[s] = from
  /\ handler' = [handler EXCEPT ![s] = to]

\* Not a WebSocket upgrade, or not authorized: answered without the gate.
Rejected(s) ==
  /\ phone[s] = "asking"
  /\ HandlerStep(s, "new", "done")
  /\ phone' = [phone EXCEPT ![s] = "refused"]
  /\ UNCHANGED <<transport, active, bridgeVars, writeLock, down, up, toServer, sent,
                 phoneGot, serverVars>>

\* active.CompareAndSwap(false, true)
Claim(s) ==
  /\ ~active /\ active' = TRUE
  /\ HandlerStep(s, "new", "claimed")
  /\ UNCHANGED <<transport, bridgeVars, writeLock, down, up, phoneVars, phoneGot, serverVars>>

\* 409: another client is connected.
Conflict(s) ==
  /\ active
  /\ HandlerStep(s, "new", "done")
  /\ phone' = [phone EXCEPT ![s] = IF phone[s] = "asking" THEN "refused" ELSE phone[s]]
  /\ UNCHANGED <<transport, active, bridgeVars, writeLock, down, up, toServer, sent,
                 phoneGot, serverVars>>

\* The factory: stdio needs nobody, a Unix socket needs app-server's answer.
Dial(s) ==
  /\ transport = "unix" => serverUp
  /\ HandlerStep(s, "claimed", "dialed")
  /\ up' = [up EXCEPT ![s] = "open"]
  /\ UNCHANGED <<transport, active, bridgeVars, writeLock, down, phoneVars, phoneGot, serverVars>>

\* Mutant: the handler returns before the deferred reset is in place.
DialFailsEarly(s) ==
  /\ transport = "unix" /\ (~serverUp \/ phone[s] = "left")
  /\ HandlerStep(s, "claimed", "done")
  /\ UNCHANGED <<transport, active, bridgeVars, writeLock, down, up, phoneVars, phoneGot, serverVars>>

\* 502, or the request's context ended because the phone left.
DialFails(s) ==
  /\ transport = "unix" /\ (~serverUp \/ phone[s] = "left")
  /\ HandlerStep(s, "claimed", "release")
  /\ UNCHANGED <<transport, active, bridgeVars, writeLock, down, up, phoneVars, phoneGot, serverVars>>

\* AcceptWebSocket, and the start of bridge; the answer to a phone that has
\* left may still be written.
Upgrade(s) ==
  /\ phone[s] \in {"asking", "left"}
  /\ HandlerStep(s, "dialed", "bridge")
  /\ down' = [down EXCEPT ![s] = "open"]
  /\ phone' = [phone EXCEPT ![s] = IF phone[s] = "asking" THEN "open" ELSE phone[s]]
  /\ reader' = [reader EXCEPT ![s] = "read"]
  /\ writer' = [writer EXCEPT ![s] = "recv"]
  /\ UNCHANGED <<transport, active, sending, writing, writeLock, errc, up, toServer, sent,
                 phoneGot, serverVars>>

UpgradeFails(s) ==
  /\ phone[s] \in {"asking", "left"}
  /\ HandlerStep(s, "dialed", "release")
  /\ up' = [up EXCEPT ![s] = "closed"]
  /\ phone' = [phone EXCEPT ![s] = IF phone[s] = "asking" THEN "refused" ELSE phone[s]]
  /\ UNCHANGED <<transport, active, bridgeVars, writeLock, down, toServer, sent, phoneGot,
                 serverVars>>

\* Mutant: bridge waits for both goroutines before it closes anything.
BridgeEndsLast(s) ==
  /\ errc[s] > 1
  /\ errc' = [errc EXCEPT ![s] = errc[s] - 1]
  /\ HandlerStep(s, "bridge", "close")
  /\ UNCHANGED <<transport, active, reader, writer, sending, writing, writeLock, down, up,
                 phoneVars, phoneGot, serverVars>>

\* bridge returns with the first error ...
BridgeEnds(s) ==
  /\ errc[s] > 0
  /\ errc' = [errc EXCEPT ![s] = errc[s] - 1]
  /\ HandlerStep(s, "bridge", "close")
  /\ UNCHANGED <<transport, active, reader, writer, sending, writing, writeLock, down, up,
                 phoneVars, phoneGot, serverVars>>

\* ... closes the phone's connection, which needs the write lock ...
CloseLocks(s) ==
  /\ writeLock[s] = "free"
  /\ HandlerStep(s, "close", "closing")
  /\ writeLock' = [writeLock EXCEPT ![s] = "handler"]
  /\ UNCHANGED <<transport, active, bridgeVars, down, up, phoneVars, phoneGot, serverVars>>

CloseDown(s) ==
  /\ HandlerStep(s, "closing", "closeUp")
  /\ writeLock' = [writeLock EXCEPT ![s] = "free"]
  /\ down' = [down EXCEPT ![s] = "closed"]
  /\ UNCHANGED <<transport, active, bridgeVars, up, phoneVars, phoneGot, serverVars>>

\* Mutant: the upstream is left open.
CloseUpNever(s) ==
  /\ HandlerStep(s, "closeUp", "release")
  /\ UNCHANGED <<transport, active, bridgeVars, writeLock, down, up, phoneVars, phoneGot, serverVars>>

\* ... and the upstream; closing stdio does nothing.
CloseUp(s) ==
  /\ HandlerStep(s, "closeUp", "release")
  /\ up' = IF transport = "stdio" THEN up ELSE [up EXCEPT ![s] = "closed"]
  /\ UNCHANGED <<transport, active, bridgeVars, writeLock, down, phoneVars, phoneGot, serverVars>>

\* The deferred closes again, on closed connections, then active.Store(false).
Release(s) ==
  /\ writeLock[s] = "free"
  /\ HandlerStep(s, "release", "done")
  /\ active' = FALSE
  /\ UNCHANGED <<transport, bridgeVars, writeLock, down, up, phoneVars, phoneGot, serverVars>>

Handler(s) ==
  \/ Claim(s) \/ Conflict(s) \/ Upgrade(s) \/ UpgradeFails(s)
  \/ DialFails(s) \/ BridgeEnds(s) \/ CloseLocks(s) \/ CloseDown(s)
  \/ CloseUp(s) \/ Release(s)

-----------------------------------------------------------------------------
(* The goroutine that reads from the phone. *)

ReaderFails(s) ==
  /\ reader' = [reader EXCEPT ![s] = "out"]
  /\ errc' = [errc EXCEPT ![s] = errc[s] + 1]

ReadMessage(s) ==
  /\ reader[s] = "read" /\ down[s] = "open" /\ toServer[s] # <<>>
  /\ reader' = [reader EXCEPT ![s] = "send"]
  /\ sending' = [sending EXCEPT ![s] = Head(toServer[s])]
  /\ toServer' = [toServer EXCEPT ![s] = Tail(toServer[s])]
  /\ UNCHANGED <<transport, active, handler, writer, writing, writeLock, errc, down, up,
                 phone, sent, phoneGot, serverVars>>

\* A close frame is answered before the goroutine ends; a lost or closed
\* connection ends it at once.
ReadEnds(s) ==
  /\ reader[s] = "read"
  /\ \/ /\ down[s] = "open" /\ phone[s] = "left" /\ toServer[s] = <<>>
        /\ reader' = [reader EXCEPT ![s] = "reply"] /\ UNCHANGED errc
     \/ /\ down[s] = "closed" \/ (phone[s] = "left" /\ toServer[s] = <<>>)
        /\ ReaderFails(s)
  /\ UNCHANGED <<transport, active, handler, writer, sending, writing, writeLock, down, up,
                 phoneVars, phoneGot, serverVars>>

ReplyLocks(s) ==
  /\ reader[s] = "reply" /\ writeLock[s] = "free"
  /\ reader' = [reader EXCEPT ![s] = "replying"]
  /\ writeLock' = [writeLock EXCEPT ![s] = "reader"]
  /\ UNCHANGED <<transport, active, handler, writer, sending, writing, errc, down, up,
                 phoneVars, phoneGot, serverVars>>

ReplyEnds(s) ==
  /\ reader[s] = "replying"
  /\ ReaderFails(s)
  /\ writeLock' = [writeLock EXCEPT ![s] = "free"]
  /\ UNCHANGED <<transport, active, handler, writer, sending, writing, down, up, phoneVars,
                 phoneGot, serverVars>>

\* Mutant: a message that cannot be sent is skipped.
SendUpSkips(s) ==
  /\ reader[s] = "send"
  /\ sending' = [sending EXCEPT ![s] = None]
  /\ reader' = [reader EXCEPT ![s] = "read"]
  /\ serverGot' = IF up[s] = "open" /\ serverUp
                  THEN [serverGot EXCEPT ![Channel(s)] =
                          Append(serverGot[Channel(s)], sending[s])]
                  ELSE serverGot
  /\ UNCHANGED <<transport, active, handler, writer, writing, writeLock, errc, down, up,
                 phoneVars, phoneGot, served, fromServer, serverUp>>

\* upstream.Send
SendUp(s) ==
  /\ reader[s] = "send"
  /\ sending' = [sending EXCEPT ![s] = None]
  /\ \/ /\ up[s] = "open" /\ serverUp
        /\ serverGot' = [serverGot EXCEPT ![Channel(s)] =
                           Append(serverGot[Channel(s)], sending[s])]
        /\ reader' = [reader EXCEPT ![s] = "read"] /\ UNCHANGED errc
     \/ /\ up[s] = "closed" \/ ~serverUp
        /\ ReaderFails(s) /\ UNCHANGED serverGot
  /\ UNCHANGED <<transport, active, handler, writer, writing, writeLock, down, up,
                 phoneVars, phoneGot, served, fromServer, serverUp>>

Reader(s) ==
  ReadMessage(s) \/ ReadEnds(s) \/ ReplyLocks(s) \/ ReplyEnds(s) \/ SendUp(s)

-----------------------------------------------------------------------------
(* The goroutine that reads from app-server. *)

WriterFails(s) ==
  /\ writer' = [writer EXCEPT ![s] = "out"]
  /\ errc' = [errc EXCEPT ![s] = errc[s] + 1]

\* upstream.Recv; a closed socket may still yield what was read ahead.
Recv(s) ==
  /\ writer[s] = "recv" /\ fromServer[Channel(s)] # <<>>
  /\ writer' = [writer EXCEPT ![s] = "write"]
  /\ writing' = [writing EXCEPT ![s] = Head(fromServer[Channel(s)])]
  /\ fromServer' = [fromServer EXCEPT ![Channel(s)] = Tail(fromServer[Channel(s)])]
  /\ UNCHANGED <<transport, active, handler, reader, sending, writeLock, errc, down, up,
                 phoneVars, phoneGot, serverGot, served, serverUp>>

RecvFails(s) ==
  /\ writer[s] = "recv"
  /\ up[s] = "closed" \/ (~serverUp /\ fromServer[Channel(s)] = <<>>)
  /\ WriterFails(s)
  /\ UNCHANGED <<transport, active, handler, reader, sending, writing, writeLock, down, up,
                 phoneVars, phoneGot, serverVars>>

WriteLocks(s) ==
  /\ writer[s] = "write" /\ writeLock[s] = "free"
  /\ writer' = [writer EXCEPT ![s] = "locked"]
  /\ writeLock' = [writeLock EXCEPT ![s] = "writer"]
  /\ UNCHANGED <<transport, active, handler, reader, sending, writing, errc, down, up,
                 phoneVars, phoneGot, serverVars>>

\* The write to a phone that left may still seem to succeed.
WriteEnds(s) ==
  /\ writer[s] = "locked"
  /\ writeLock' = [writeLock EXCEPT ![s] = "free"]
  /\ writing' = [writing EXCEPT ![s] = None]
  /\ \/ /\ down[s] = "open"
        /\ phoneGot' = IF phone[s] = "open"
                       THEN [phoneGot EXCEPT ![s] = Append(phoneGot[s], writing[s])]
                       ELSE phoneGot
        /\ writer' = [writer EXCEPT ![s] = "recv"] /\ UNCHANGED errc
     \/ /\ down[s] = "closed" \/ phone[s] = "left"
        /\ WriterFails(s) /\ UNCHANGED phoneGot
  /\ UNCHANGED <<transport, active, handler, reader, sending, down, up, phoneVars, serverVars>>

Writer(s) ==
  Recv(s) \/ RecvFails(s) \/ WriteLocks(s) \/ WriteEnds(s)

-----------------------------------------------------------------------------
Phone(s) == PhoneSends(s) \/ PhoneLeaves(s)

Next ==
  \/ \E s \in Sessions :
       Phone(s) \/ Rejected(s) \/ Dial(s) \/ Handler(s) \/ Reader(s) \/ Writer(s)
  \/ \E c \in Channels : ServerAnswers(c)
  \/ ServerExits

Spec == Init /\ [][Next]_vars

\* Runnable goroutines run, and a write ends: the phone takes it or TCP gives
\* up, and app-server, while it runs, reads what it is sent.  Nothing else is
\* assumed of the phone or of app-server; in particular a Unix socket may be
\* accepted and the upgrade never answered.
FairSpec ==
  /\ Spec
  /\ \A s \in Sessions :
       /\ WF_vars(Handler(s)) /\ WF_vars(Reader(s)) /\ WF_vars(Writer(s))
       /\ WF_vars(transport = "stdio" /\ Dial(s))

-----------------------------------------------------------------------------
(* Properties. *)

\* The gate is closed exactly while one session is past it, on every path out
\* of ServeHTTP (active, its deferred reset).
GateIsHeld ==
  /\ active <=> \E s \in Sessions : handler[s] \in Holding
  /\ \A s, t \in Sessions :
       handler[s] \in Holding /\ handler[t] \in Holding => s = t

\* Where the messages of session s are in a sequence.
Own(s, seq) == {i \in 1..Len(seq) : seq[i].session = s}

\* app-server gets the messages of a phone as they were sent, without gaps; and
\* while the session lasts, what it has not got is, in order, in the reader's
\* hands or still on the way (bridge).
UpstreamInOrder ==
  \A s \in Sessions :
    LET got    == serverGot[Channel(s)]
        own    == Own(s, got)
        held   == IF reader[s] = "send" THEN <<sending[s]>> ELSE <<>>
        coming == held \o toServer[s]
    IN
    /\ \A i \in own : got[i].n = Cardinality({j \in own : j <= i})
    /\ reader[s] \in {"read", "send"} =>
         /\ Cardinality(own) + Len(coming) = sent[s]
         /\ \A i \in 1..Len(coming) : coming[i].n = Cardinality(own) + i

\* Every answer reaches the session that asked, in order and without gaps, and
\* no other session ever holds it (bridge, StdioUpstream.Recv).
AnswersReachTheirSession ==
  \A s \in Sessions :
    /\ \A i \in 1..Len(phoneGot[s]) : phoneGot[s][i] = [session |-> s, n |-> i]
    /\ writing[s] # None => writing[s].session = s

\* The same of a sidecar that opens a connection to app-server for every
\* session (bridge, UnixWebSocketUpstream).
AnswersReachTheirUnixSession == transport = "unix" => AnswersReachTheirSession

\* A session whose phone is gone gives the gate back, whoever holds the write
\* lock and whichever goroutine notices first (bridge, WebSocketConn.Close).
GateReopens ==
  \A s \in Sessions :
    (phone[s] = "left" /\ handler[s] \in Holding) ~> (handler[s] = "done")

\* Both goroutines of a finished session end; over stdio the one that waits
\* for app-server may wait on (the buffered error channel, the closes in
\* bridge).
GoroutinesEnd ==
  \A s \in Sessions :
    (handler[s] = "done" /\ reader[s] # "off")
      ~> (reader[s] = "out" /\ (transport = "unix" => writer[s] = "out"))

=============================================================================
