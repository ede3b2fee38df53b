-------------------------------- MODULE Smoke --------------------------------
(***************************************************************************)
(* The smoke test (scripts/smoke-app-server.mjs): a WebSocket and JSON-RPC *)
(* client of its own, which upgrades the connection, takes frames out of a *)
(* stream of bytes that is cut anywhere, asks four things one after the    *)
(* other and reports.                                                      *)
(*                                                                         *)
(* A byte is its place in a frame and the frame; of the upgrade's headers  *)
(* it is the place 0 and the status or a part of their end.  Lengths are   *)
(* scaled down, the sizes of headers are not.  app-server runs no turn for *)
(* this client, so it sends answers and notifications, no requests.        *)
(***************************************************************************)
EXTENDS Integers, Sequences, SequencesExt

CONSTANTS
  Length16,    \* 126: lengths from here on take 2 more bytes
  Length64,    \* 65536: lengths from here on take 8 more bytes
  FrameSizes,  \* bytes of a payload
  MaxFrames,   \* bound: frames app-server sends
  MaxUnread    \* bound: frames under way

ASSUME FrameAssumption ==
  /\ Length16 \in Nat /\ Length64 \in Nat /\ MaxFrames \in Nat
  /\ MaxUnread \in Nat /\ FrameSizes \subseteq Nat

VARIABLES
  socket,     \* "idle", "connecting", "open" or "gone"
  closed,     \* client.closed
  upgraded,   \* handshakeDone
  buffer,     \* handshakeBuffer, then buffer
  incoming,   \* bytes under way to the client
  step,       \* what main waits for: 0 to connect, 1 to 4 a request of that id
  outcome,    \* "running", "ok" or "failed"
  candidate,  \* candidateThreadId is known
  unread,     \* history: frames app-server sent that the client has not taken
  taken,      \* history: frames the client took of the last chunk
  frames      \* number of frames so far

smokeVars == <<socket, closed, upgraded, buffer, incoming, step, outcome, candidate,
               unread, taken, frames>>

\* answers: the id of an answer, 0 for a notification; found: it names a thread.
Frame ==
  [opcode : {"text"}, answers : 0..4, error : BOOLEAN, found : BOOLEAN, size : FrameSizes]
    \cup [opcode : {"ping", "close"}, size : FrameSizes]

-----------------------------------------------------------------------------
(* Frames. *)

\* encodeFrame's header, which app-server writes without a mask.
HeaderSize(size) == IF size < Length16 THEN 2 ELSE IF size < Length64 THEN 4 ELSE 10

EncodeFrame(f) == [i \in 1..(HeaderSize(f.size) + f.size) |-> <<i, f>>]

\* Reference: what a frame carries.
Payload(f) == SubSeq(EncodeFrame(f), HeaderSize(f.size) + 1, HeaderSize(f.size) + f.size)

\* decodeFrame: the header says how long it is and how long the payload is.
DecodeFrame(bytes) ==
  IF Len(bytes) < 2 THEN [complete |-> FALSE]
  ELSE LET f == bytes[1][2]
           offset == HeaderSize(f.size)
       IN  IF Len(bytes) < offset \/ Len(bytes) < offset + f.size THEN [complete |-> FALSE]
           ELSE [complete |-> TRUE, payload |-> SubSeq(bytes, offset + 1, offset + f.size),
                 consumed |-> offset + f.size]

\* The loop of handleFrames: the frames it takes, and the bytes that are left; a
\* close frame ends it.
TakeFrames(bytes) ==
  LET from[i \in 1..(Len(bytes) + 1)] ==
        LET decoded == DecodeFrame(SubSeq(bytes, i, Len(bytes))) IN
        IF ~decoded.complete THEN [frames |-> <<>>, rest |-> SubSeq(bytes, i, Len(bytes))]
        ELSE LET f == [header |-> bytes[i], payload |-> decoded.payload]
                 next == i + decoded.consumed
             IN  IF f.header[2].opcode = "close"
                 THEN [frames |-> <<f>>, rest |-> SubSeq(bytes, next, Len(bytes))]
                 ELSE [from[next] EXCEPT !.frames = <<f>> \o @]
  IN  from[1]

-----------------------------------------------------------------------------
(* main. *)

Answers(f, id) == f.opcode = "text" /\ f.answers = id

Fails == step' = step /\ outcome' = "failed" /\ closed' = TRUE /\ UNCHANGED candidate

\* rejectAll, as main sees it: the request it waits for fails.
RejectAll ==
  IF outcome = "running" /\ step # 0 THEN Fails
  ELSE closed' = TRUE /\ UNCHANGED <<step, outcome, candidate>>

\* main, once its request was answered: what it asks next, if it still can.
Proceeds(answer, nowClosed) ==
  LET known == candidate \/ answer.found
      over == step = 4 \/ (step = 3 /\ ~known)
  IN  /\ candidate' = known
      /\ closed' = (nowClosed \/ over)
      /\ outcome' = IF over THEN "ok" ELSE IF nowClosed THEN "failed" ELSE "running"
      /\ step' = IF outcome' = "running" THEN step + 1 ELSE step

\* handleFrames: main goes on after all frames of the chunk were handled.
HandleFrames(bytes) ==
  LET got == TakeFrames(bytes)
      of(f) == f.header[2]
      nowClosed == closed \/ \E i \in DOMAIN got.frames : of(got.frames[i]).opcode = "close"
      answered == {i \in DOMAIN got.frames : Answers(of(got.frames[i]), step)}
  IN  /\ buffer' = got.rest
      /\ taken' = got.frames
      /\ IF outcome # "running" \/ step = 0 \/ answered = {}
         THEN closed' = nowClosed /\ UNCHANGED <<step, outcome, candidate>>
         ELSE LET answer == of(got.frames[CHOOSE i \in answered : \A j \in answered : i <= j])
              IN  IF answer.error THEN Fails ELSE Proceeds(answer, nowClosed)

-----------------------------------------------------------------------------
(* The upgrade. *)

HeaderEnd == <<<<0, "cr">>, <<0, "lf">>, <<0, "cr">>, <<0, "lf">>>>
Statuses == {"101", "101 with another key", "503"}

\* Mutant: what came with the headers is dropped.
HandshakeWithoutRemainder(bytes, end) ==
  IF bytes[1] = <<0, "101">>
  THEN /\ upgraded' = TRUE /\ buffer' = <<>> /\ step' = 1 /\ taken' = <<>>
       /\ UNCHANGED <<closed, outcome, candidate>>
  ELSE Fails /\ buffer' = bytes /\ UNCHANGED upgraded /\ taken' = <<>>

\* The rest of handleHandshake, once the headers end at place end; connect() is
\* resolved after the frames that came along were handled.
Upgraded(bytes, end) ==
  IF bytes[1] = <<0, "101">>
  THEN LET got == TakeFrames(SubSeq(bytes, end + 1, Len(bytes)))
           nowClosed == \E i \in DOMAIN got.frames : got.frames[i].header[2].opcode = "close"
       IN  /\ upgraded' = TRUE
           /\ buffer' = got.rest /\ taken' = got.frames
           /\ closed' = nowClosed
           /\ outcome' = IF nowClosed THEN "failed" ELSE "running"
           /\ step' = IF nowClosed THEN 0 ELSE 1
           /\ UNCHANGED candidate
  ELSE Fails /\ buffer' = bytes /\ UNCHANGED upgraded /\ taken' = <<>>

\* handleHandshake
HandleHandshake(bytes) ==
  LET ends == {i \in 4..Len(bytes) : SubSeq(bytes, i - 3, i) = HeaderEnd} IN
  IF ends = {}
  THEN buffer' = bytes /\ taken' = <<>> /\ UNCHANGED <<closed, upgraded, step, outcome, candidate>>
  ELSE Upgraded(bytes, CHOOSE i \in ends : \A j \in ends : i <= j)

-----------------------------------------------------------------------------
SmokeInit ==
  /\ socket = "idle"
  /\ closed = FALSE /\ upgraded = FALSE
  /\ buffer = <<>> /\ incoming = <<>>
  /\ step = 0 /\ outcome = "running" /\ candidate = FALSE
  /\ unread = <<>> /\ taken = <<>> /\ frames = 0

\* connect: the upgrade is asked for when the socket opens.
Connect ==
  /\ socket = "idle"
  /\ socket' = "connecting"
  /\ UNCHANGED <<closed, upgraded, buffer, incoming, step, outcome, candidate, unread, taken, frames>>

\* app-server answers the upgrade.
AnswerUpgrade(status) ==
  /\ socket = "connecting"
  /\ socket' = "open"
  /\ incoming' = <<<<0, status>>>> \o HeaderEnd
  /\ UNCHANGED <<closed, upgraded, buffer, step, outcome, candidate, unread, taken, frames>>

\* app-server sends a frame, an answer only to what was asked.
SendFrame(f) ==
  /\ socket = "open" /\ ~closed /\ frames < MaxFrames /\ Len(unread) < MaxUnread
  /\ \A i \in DOMAIN unread : unread[i].opcode # "close"
  /\ frames' = frames + 1
  /\ f.opcode = "text" =>
       IF f.answers = 0 THEN ~f.found /\ ~f.error
       ELSE f.answers = step /\ ~\E i \in DOMAIN unread : Answers(unread[i], step)
  /\ unread' = Append(unread, f)
  /\ incoming' = incoming \o EncodeFrame(f)
  /\ UNCHANGED <<socket, closed, upgraded, buffer, step, outcome, candidate, taken>>

\* The "data" handler, with a chunk of n bytes.
Data(n) ==
  /\ socket = "open" /\ n \in 1..Len(incoming)
  /\ incoming' = SubSeq(incoming, n + 1, Len(incoming))
  /\ LET bytes == buffer \o SubSeq(incoming, 1, n)
     IN  IF upgraded THEN HandleFrames(bytes) /\ UNCHANGED upgraded ELSE HandleHandshake(bytes)
  /\ unread' = SubSeq(unread, Len(taken') + 1, Len(unread))
  /\ UNCHANGED <<socket, frames>>

\* The timer of connect(): a socket that is gone already reports no error.
ConnectTimesOut ==
  /\ step = 0 /\ socket # "idle" /\ outcome = "running"
  /\ socket' = "gone"
  /\ IF socket = "gone" THEN UNCHANGED <<closed, step, outcome, candidate>> ELSE Fails
  /\ UNCHANGED <<upgraded, buffer, incoming, unread, taken, frames>>

\* The timer of the request that is pending.
RequestTimesOut ==
  /\ step # 0 /\ outcome = "running"
  /\ Fails
  /\ UNCHANGED <<socket, upgraded, buffer, incoming, unread, taken, frames>>

\* The "error" and "close" handlers; a connection that closes without an error
\* before it is upgraded leaves connect() pending.
SocketCloses(withError) ==
  /\ socket \in {"connecting", "open"} /\ socket' = "gone"
  /\ IF withError /\ step = 0 /\ outcome = "running" THEN Fails ELSE RejectAll
  /\ UNCHANGED <<upgraded, buffer, incoming, unread, taken, frames>>

SmokeNext ==
  \/ Connect
  \/ \E status \in Statuses : AnswerUpgrade(status)
  \/ \E f \in Frame : SendFrame(f)
  \/ \E n \in 1..Len(incoming) : Data(n)
  \/ ConnectTimesOut \/ RequestTimesOut
  \/ \E withError \in BOOLEAN : SocketCloses(withError)

-----------------------------------------------------------------------------
(* Properties. *)

\* The client takes the frames app-server sent, whole, in order and each once,
\* and leaves none that is there, wherever the stream is cut: inside a header, a
\* payload or the end of the upgrade's headers, or after several frames
\* (handleHandshake, handleFrames, decodeFrame).
FramesArriveWhole ==
  [][upgraded' /\ incoming' # incoming /\ frames' = frames =>
       /\ Len(taken') <= Len(unread)
       /\ taken' = [i \in DOMAIN taken' |->
                      [header |-> <<1, unread[i]>>, payload |-> Payload(unread[i])]]
       /\ incoming' = <<>> => unread' = <<>>]_smokeVars

=============================================================================
