---------------------------- MODULE DetailSession ----------------------------
(***************************************************************************)
(* Following one thread (src/pkjs/index.js, requestThreadDetail down to    *)
(* handleCodexNotification): the thread the user looks at, the client that *)
(* is connected and subscribed for it, the requests made through clients   *)
(* old and new, and the poll timer that follows a running turn.            *)
(*                                                                         *)
(* One event of JavaScript is one action.  Promise reactions that only     *)
(* wait for their turn (the requests of a client that is dead) come before *)
(* the next event.  Clients and requests live in numbered slots that are   *)
(* used again.  What is sent to the watch is abstracted to the sync state  *)
(* that the watch is left with.                                            *)
(***************************************************************************)
EXTENDS Naturals, FiniteSets, FiniteSetsExt

CONSTANTS
  Threads,      \* thread ids
  NoThread,     \* the empty thread id
  MaxClients,   \* bound: clients alive at a time
  MaxOps,       \* bound: requests in flight at a time
  MaxAttempts,  \* DETAIL_POLL_MAX_ATTEMPTS
  MaxInputs     \* bound: watch messages, notifications and broken connections

ASSUME BoundsAssumption ==
  /\ MaxClients \in Nat \ {0} /\ MaxOps \in Nat \ {0}
  /\ MaxAttempts \in Nat \ {0} /\ MaxInputs \in Nat
ASSUME NoThreadAssumption == NoThread \notin Threads

VARIABLES
  configured,          \* the saved settings have a wsUrl
  active,              \* activeDetailThreadId
  conn,                \* detailClient, detailClientReady and all clients
  ops,                 \* slot |-> a request and what waits for it
  pollTimer,           \* the thread detailPollTimer is armed for
  detailPollAttempts,
  detailPollInFlight,
  cached,              \* threads in detailPageCacheByThreadId
  awaiting,            \* threads in pendingReplyTextByThreadId
  liveFlush,           \* a liveFlushTimersByThreadId of the active thread
  status,              \* the last sync state sent to the watch
  inputs,              \* number of inputs so far
  followed             \* history: the active thread was last seen running

vars == <<configured, active, conn, ops, pollTimer, detailPollAttempts,
          detailPollInFlight, cached, awaiting, liveFlush, status, inputs, followed>>

Clients == 1..MaxClients
NoClient == 0
Idle == [kind |-> "idle"]

Client == [thread : Threads \cup {NoThread},
           socket : {"none", "connecting", "open", "closing"},
           setup : {"none", "pending", "ready"},
           unsubscribing : BOOLEAN]

\* A slot without a client, or whose client is closed.
Closed == [thread |-> NoThread, socket |-> "none", setup |-> "none", unsubscribing |-> FALSE]

\* setup: waits for ensureDetailClient; resolve: reads the thread before a
\* reply; asked: waits for the answer the request is about.
Op == [kind : {"detail", "poll", "reply", "refresh"}, thread : Threads,
       client : Clients \cup {NoClient}, step : {"setup", "resolve", "asked"}]

TypeOK ==
  /\ configured \in BOOLEAN
  /\ active \in Threads \cup {NoThread}
  /\ conn \in [client : Clients \cup {NoClient}, ready : BOOLEAN,
               all : [Clients -> Client]]
  /\ ops \in [1..MaxOps -> Op \cup {Idle}]
  /\ pollTimer \in Threads \cup {NoThread}
  /\ detailPollAttempts \in 0..MaxAttempts
  /\ detailPollInFlight \in BOOLEAN
  /\ cached \subseteq Threads
  /\ awaiting \subseteq Threads
  /\ liveFlush \in BOOLEAN
  /\ status \in {"desynced", "syncing", "synced"}
  /\ inputs \in 0..MaxInputs
  /\ followed \in BOOLEAN

Init ==
  /\ configured \in BOOLEAN
  /\ active = NoThread
  /\ conn = [client |-> NoClient, ready |-> FALSE,
             all |-> [c \in Clients |-> Closed]]
  /\ ops = [i \in 1..MaxOps |-> Idle]
  /\ pollTimer = NoThread
  /\ detailPollAttempts = 0
  /\ detailPollInFlight = FALSE
  /\ cached = {}
  /\ awaiting = {}
  /\ liveFlush = FALSE
  /\ status = "synced"
  /\ inputs = 0
  /\ followed = FALSE

-----------------------------------------------------------------------------
(* The detail client. *)

\* client.close(): a socket still connecting reports its end later.
Close(client) ==
  IF client.socket = "connecting" THEN [client EXCEPT !.socket = "closing"] ELSE Closed

\* closeDetailClient: an open client unsubscribes before it is closed.
CloseDetailClient(k) ==
  IF k.client = NoClient THEN [k EXCEPT !.ready = FALSE]
  ELSE [client |-> NoClient, ready |-> FALSE,
        all |-> [k.all EXCEPT ![k.client] =
                   IF @.socket = "open" THEN [@ EXCEPT !.unsubscribing = TRUE]
                                        ELSE Close(@)]]

\* The client of thread t, which needs no setup and which is being set up.
Open(k, t) ==
  k.client # NoClient /\ k.all[k.client].thread = t /\ k.all[k.client].socket = "open"

BeingSetUp(k, t) ==
  k.client # NoClient /\ k.all[k.client].thread = t /\ k.ready

\* Slots no client that still matters lives in.
FreeClients(k) ==
  {c \in Clients : /\ c # k.client /\ k.all[c].socket = "none"
                   /\ \A i \in 1..MaxOps : ops[i] # Idle => ops[i].client # c}

FreeOps == {i \in 1..MaxOps : ops[i] = Idle}

\* Mutant: the client of the thread left behind is not closed.
EnsureWithoutClosing(k, t) ==
  IF Open(k, t) \/ BeingSetUp(k, t) THEN k
  ELSE LET c == Min(FreeClients(k))
       IN  [client |-> c, ready |-> TRUE,
            all |-> [k.all EXCEPT ![c] =
                       [thread |-> t, socket |-> "connecting", setup |-> "pending",
                        unsubscribing |-> FALSE]]]

\* ensureDetailClient; a new client takes a free slot.
EnsureDetailClient(k, t) ==
  IF Open(k, t) \/ BeingSetUp(k, t) THEN k
  ELSE LET closed == CloseDetailClient(k)
           c == Min(FreeClients(closed))
       IN  [client |-> c, ready |-> TRUE,
            all |-> [closed.all EXCEPT ![c] =
                       [thread |-> t, socket |-> "connecting", setup |-> "pending",
                        unsubscribing |-> FALSE]]]

\* resolveReplyTarget reads the thread unless its turns are cached.
FirstStep(kind, t, known) ==
  IF kind = "reply" /\ t \notin known THEN "resolve" ELSE "asked"

\* runDetailRequest, given the state of the clients its caller leaves.
RunDetailRequest(kind, t, k) ==
  /\ FreeOps # {}
  /\ IF configured
     THEN /\ Open(k, t) \/ BeingSetUp(k, t) \/ FreeClients(CloseDetailClient(k)) # {}
          /\ conn' = EnsureDetailClient(k, t)
          /\ ops' = [ops EXCEPT ![Min(FreeOps)] =
                       [kind |-> kind, thread |-> t, client |-> conn'.client,
                        step |-> IF Open(k, t) THEN FirstStep(kind, t, cached) ELSE "setup"]]
     ELSE /\ conn' = k
          /\ ops' = [ops EXCEPT ![Min(FreeOps)] =
                       [kind |-> kind, thread |-> t, client |-> NoClient, step |-> "setup"]]

-----------------------------------------------------------------------------
(* The active thread and its poll timer. *)

\* setActiveDetailThread, up to what becomes of the clients.
SetActiveDetailThread(t) ==
  /\ active' = t
  /\ IF t = active
     THEN UNCHANGED <<pollTimer, detailPollAttempts, detailPollInFlight, liveFlush,
                      followed>>
     ELSE /\ pollTimer' = NoThread
          /\ liveFlush' = FALSE
          /\ detailPollAttempts' = 0
          /\ detailPollInFlight' = FALSE
          /\ followed' = FALSE

ConnAfterSwitch(t) == IF t = active THEN conn ELSE CloseDetailClient(conn)

\* scheduleDetailPoll
ScheduleDetailPoll(t, resetAttempts) ==
  IF t = active
  THEN /\ pollTimer' = t
       /\ detailPollAttempts' = IF resetAttempts THEN 0 ELSE detailPollAttempts
  ELSE UNCHANGED <<pollTimer, detailPollAttempts>>

NoPollScheduled == UNCHANGED <<pollTimer, detailPollAttempts>>

\* syncJobs ends with the list synced or failed (module ListSync).
SyncJobs == status' \in {"synced", "desynced"}

-----------------------------------------------------------------------------
(* Requests of dead clients fail before anything else happens. *)

Dead(op) ==
  /\ op # Idle
  /\ op.client # NoClient => conn.all[op.client].socket = "none"

Settled == \A i \in 1..MaxOps : ~Dead(ops[i])

Input ==
  /\ Settled
  /\ inputs < MaxInputs
  /\ inputs' = inputs + 1

-----------------------------------------------------------------------------
(* Messages from the watch, and the settings page. *)

\* requestThreadDetail
RequestThreadDetail(t) ==
  /\ Input
  /\ SetActiveDetailThread(t)
  /\ RunDetailRequest("detail", t, ConnAfterSwitch(t))
  /\ status' = "syncing"
  /\ UNCHANGED <<configured, cached, awaiting>>

\* requestDetailScroll of a thread whose pages are cached; without them it is
\* requestThreadDetail.
RequestDetailScroll(t) ==
  /\ Input
  /\ t \in cached
  /\ SetActiveDetailThread(t)
  /\ conn' = ConnAfterSwitch(t)
  /\ status' = "synced"
  /\ UNCHANGED <<configured, ops, cached, awaiting>>

\* submitReply
SubmitReply(t) ==
  /\ Input
  /\ SetActiveDetailThread(t)
  /\ RunDetailRequest("reply", t, ConnAfterSwitch(t))
  /\ awaiting' = awaiting \cup {t}
  /\ status' = "syncing"
  /\ UNCHANGED <<configured, cached>>

\* webviewclosed
SaveSettings ==
  /\ Input
  /\ configured' \in BOOLEAN
  /\ conn' = CloseDetailClient(conn)
  /\ SyncJobs
  /\ UNCHANGED <<active, ops, pollTimer, detailPollAttempts, detailPollInFlight,
                 cached, awaiting, liveFlush, followed>>

-----------------------------------------------------------------------------
(* Clients. *)

SocketOpens(c) ==
  /\ Settled
  /\ conn.all[c].socket = "connecting"
  /\ conn' = [conn EXCEPT !.all[c].socket = "open"]
  /\ UNCHANGED <<configured, active, ops, pollTimer, detailPollAttempts,
                 detailPollInFlight, cached, awaiting, liveFlush, status, inputs,
                 followed>>

\* A thread was sent to the watch; it may show the reply that is awaited.
Shown(t) ==
  /\ cached' = cached \cup {t}
  /\ awaiting' \in {awaiting, awaiting \ {t}}

\* The handshake is over and thread/resume answered, perhaps with a thread;
\* those who wait for the client go on.
SetupDone(c) ==
  /\ Settled
  /\ conn.all[c].socket = "open" /\ conn.all[c].setup = "pending"
  /\ conn' = [conn EXCEPT !.ready = FALSE, !.all[c].setup = "ready"]
  /\ \/ Shown(conn.all[c].thread) /\ status' = "synced"
     \/ UNCHANGED <<cached, awaiting, status>>
  /\ ops' = [i \in 1..MaxOps |->
               IF ops[i] # Idle /\ ops[i].client = c /\ ops[i].step = "setup"
               THEN [ops[i] EXCEPT !.step = FirstStep(ops[i].kind, ops[i].thread, cached')]
               ELSE ops[i]]
  /\ UNCHANGED <<configured, active, pollTimer, detailPollAttempts,
                 detailPollInFlight, liveFlush, inputs, followed>>

\* The connection, the handshake or thread/resume failed.
SetupFails(c) ==
  /\ Settled
  /\ conn.all[c].setup = "pending"
  /\ LET all == [conn.all EXCEPT ![c] = Closed]
     IN  conn' = IF conn.client = c
                 THEN [client |-> NoClient, ready |-> FALSE, all |-> all]
                 ELSE [conn EXCEPT !.all = all]
  /\ UNCHANGED <<configured, active, ops, pollTimer, detailPollAttempts,
                 detailPollInFlight, cached, awaiting, liveFlush, status, inputs,
                 followed>>

\* The connection of a client in use breaks; nobody is told but its requests.
SocketDies(c) ==
  /\ Input
  /\ conn.all[c].socket = "open" /\ conn.all[c].setup = "ready"
  /\ conn' = [conn EXCEPT !.all[c] = Close(@)]
  /\ UNCHANGED <<configured, active, ops, pollTimer, detailPollAttempts,
                 detailPollInFlight, cached, awaiting, liveFlush, status, followed>>

\* thread/unsubscribe answered, failed or timed out.
Unsubscribed(c) ==
  /\ Settled
  /\ conn.all[c].unsubscribing
  /\ conn' = [conn EXCEPT !.all[c] = Close(@)]
  /\ UNCHANGED <<configured, active, ops, pollTimer, detailPollAttempts,
                 detailPollInFlight, cached, awaiting, liveFlush, status, inputs,
                 followed>>

-----------------------------------------------------------------------------
(* Notifications of the detail client about the active thread. *)

Notified ==
  /\ Input
  /\ active # NoThread /\ Open(conn, active)

\* A line of progress goes to the watch a little later (queueLiveProgress), or
\* at once in place of what is queued (sendLiveProgressNow, handleItemCompleted);
\* an item the watch shows already only cancels what is queued.
LiveProgress ==
  /\ Notified
  /\ \/ liveFlush' = TRUE /\ UNCHANGED status
     \/ liveFlush' = FALSE /\ status' \in {status, "syncing"}
  /\ UNCHANGED <<configured, active, conn, ops, pollTimer, detailPollAttempts,
                 detailPollInFlight, cached, awaiting, followed>>

FlushLiveProgress ==
  /\ Settled
  /\ liveFlush /\ liveFlush' = FALSE
  /\ status' = "syncing"
  /\ UNCHANGED <<configured, active, conn, ops, pollTimer, detailPollAttempts,
                 detailPollInFlight, cached, awaiting, inputs, followed>>

\* handleTurnCompleted: the turn is shown, then the whole thread is read.
HandleTurnCompleted ==
  /\ Notified
  /\ RunDetailRequest("refresh", active, conn)
  /\ \/ Shown(active) /\ status' = "synced"
     \/ UNCHANGED <<cached, awaiting, status>>
  /\ UNCHANGED <<configured, active, pollTimer, detailPollAttempts,
                 detailPollInFlight, liveFlush, followed>>

-----------------------------------------------------------------------------
(* Answers. *)

Finish(i) == ops' = [ops EXCEPT ![i] = Idle]

\* The thread is read for a reply, which is then sent on the same client.
ReplyResolved(i) ==
  /\ ops[i].step = "resolve"
  /\ ops' = [ops EXCEPT ![i].step = "asked"]
  /\ cached' = cached \cup {ops[i].thread}
  /\ UNCHANGED <<awaiting, status, pollTimer, detailPollAttempts,
                 detailPollInFlight, followed>>

\* Mutant: the thread is shown in the state the request began with.
DetailReadSyncing(i) ==
  /\ ops[i].kind = "detail"
  /\ Finish(i)
  /\ Shown(ops[i].thread)
  /\ status' = "syncing"
  /\ \E running \in BOOLEAN :
       /\ IF running THEN ScheduleDetailPoll(ops[i].thread, TRUE) ELSE NoPollScheduled
       /\ followed' = (followed \/ (running /\ ops[i].thread = active))
  /\ UNCHANGED detailPollInFlight

\* thread/read of requestThreadDetail; running says threadNeedsFollowup.
DetailRead(i) ==
  /\ ops[i].kind = "detail"
  /\ Finish(i)
  /\ Shown(ops[i].thread)
  /\ status' = "synced"
  /\ \E running \in BOOLEAN :
       /\ IF running THEN ScheduleDetailPoll(ops[i].thread, TRUE) ELSE NoPollScheduled
       /\ followed' = (followed \/ (running /\ ops[i].thread = active))
  /\ UNCHANGED detailPollInFlight

\* The reply was accepted.
ReplyAccepted(i) ==
  /\ ops[i].kind = "reply" /\ ops[i].step = "asked"
  /\ Finish(i)
  /\ status' = "syncing"
  /\ ScheduleDetailPoll(ops[i].thread, TRUE)
  /\ followed' = (followed \/ ops[i].thread = active)
  /\ UNCHANGED <<cached, awaiting, detailPollInFlight>>

\* The answer to a poll; an unchanged page is not sent again.
PollRead(i) ==
  /\ ops[i].kind = "poll"
  /\ Finish(i)
  /\ detailPollInFlight' = FALSE
  /\ IF ops[i].thread # active
     THEN UNCHANGED <<cached, awaiting, status, pollTimer, detailPollAttempts, followed>>
     ELSE /\ Shown(active)
          /\ \/ /\ ScheduleDetailPoll(active, FALSE)
                /\ status' \in {status, "synced"}
                /\ followed' = TRUE
             \/ /\ active \notin awaiting'
                /\ SyncJobs
                /\ NoPollScheduled
                /\ followed' = FALSE

\* thread/read after a completed turn.
RefreshRead(i) ==
  /\ ops[i].kind = "refresh"
  /\ Finish(i)
  /\ IF ops[i].thread # active
     THEN UNCHANGED <<cached, awaiting, status>>
     ELSE Shown(active) /\ SyncJobs
  /\ UNCHANGED <<pollTimer, detailPollAttempts, detailPollInFlight, followed>>

Answered(i) ==
  /\ Settled
  /\ ops[i] # Idle /\ ops[i].step # "setup"
  /\ conn.all[ops[i].client].socket = "open"
  /\ \/ ReplyResolved(i) \/ DetailRead(i) \/ ReplyAccepted(i) \/ PollRead(i)
     \/ RefreshRead(i)
  /\ UNCHANGED <<configured, active, conn, liveFlush, inputs>>

\* Mutant: a poll that failed is not tried again.
PollFailedForGood(t) ==
  /\ detailPollInFlight' = FALSE
  /\ NoPollScheduled
  /\ UNCHANGED <<status, followed>>

\* A poll that failed is tried again while attempts are left.
PollFailed(t) ==
  /\ detailPollInFlight' = FALSE
  /\ \/ /\ detailPollAttempts < MaxAttempts
        /\ ScheduleDetailPoll(t, FALSE)
        /\ UNCHANGED <<status, followed>>
     \/ /\ detailPollAttempts >= MaxAttempts
        /\ status' = "desynced"
        /\ followed' = (followed /\ t # active)
        /\ NoPollScheduled

\* An error, a timeout or the end of the client.
Failed(i) ==
  /\ ops[i] # Idle
  /\ Dead(ops[i]) \/ (Settled /\ ops[i].step # "setup")
  /\ Finish(i)
  /\ \/ /\ ops[i].kind \in {"detail", "reply"}
        /\ status' = "desynced"
        /\ NoPollScheduled
        /\ UNCHANGED <<detailPollInFlight, followed>>
     \/ ops[i].kind = "poll" /\ PollFailed(ops[i].thread)
     \/ /\ ops[i].kind = "refresh"
        /\ IF ops[i].thread \in awaiting THEN ScheduleDetailPoll(ops[i].thread, FALSE)
                                         ELSE NoPollScheduled
        /\ UNCHANGED <<status, detailPollInFlight, followed>>
  /\ UNCHANGED <<configured, active, conn, cached, awaiting, liveFlush, inputs>>

-----------------------------------------------------------------------------
(* The poll timer: pollThreadDetail. *)

\* The last poll is still on its way: the timer is armed again.
PollLater ==
  /\ detailPollInFlight
  /\ UNCHANGED <<pollTimer, conn, ops, detailPollAttempts, detailPollInFlight,
                 status, followed>>

PollStops ==
  /\ ~detailPollInFlight /\ detailPollAttempts >= MaxAttempts
  /\ pollTimer' = NoThread
  /\ followed' = FALSE
  /\ SyncJobs
  /\ UNCHANGED <<conn, ops, detailPollAttempts, detailPollInFlight>>

\* Mutant: the attempts are not counted.
PollUncounted ==
  /\ ~detailPollInFlight /\ detailPollAttempts < MaxAttempts
  /\ RunDetailRequest("poll", pollTimer, conn)
  /\ pollTimer' = NoThread
  /\ detailPollInFlight' = TRUE
  /\ UNCHANGED <<detailPollAttempts, status, followed>>

PollAgain ==
  /\ ~detailPollInFlight /\ detailPollAttempts < MaxAttempts
  /\ RunDetailRequest("poll", pollTimer, conn)
  /\ pollTimer' = NoThread
  /\ detailPollAttempts' = detailPollAttempts + 1
  /\ detailPollInFlight' = TRUE
  /\ UNCHANGED <<status, followed>>

PollThreadDetail ==
  /\ Settled
  /\ pollTimer # NoThread
  /\ PollLater \/ PollStops \/ PollAgain
  /\ UNCHANGED <<configured, active, cached, awaiting, liveFlush, inputs>>

-----------------------------------------------------------------------------
Watch(t) == RequestThreadDetail(t) \/ RequestDetailScroll(t) \/ SubmitReply(t)

SetupEnds(c) == SetupDone(c) \/ SetupFails(c)

Next ==
  \/ \E t \in Threads : Watch(t)
  \/ SaveSettings \/ LiveProgress \/ FlushLiveProgress \/ HandleTurnCompleted
  \/ PollThreadDetail
  \/ \E c \in Clients : SocketOpens(c) \/ SetupEnds(c) \/ SocketDies(c) \/ Unsubscribed(c)
  \/ \E i \in 1..MaxOps : Answered(i) \/ Failed(i)

Spec == Init /\ [][Next]_vars

\* What ends by itself: setting up a client and requests, which time out
\* (JsonRpc!ConnectSettles, RequestsSettle), and armed timers.
EndsByItself ==
  \/ PollThreadDetail \/ FlushLiveProgress
  \/ \E c \in Clients : SetupEnds(c) \/ Unsubscribed(c)
  \/ \E i \in 1..MaxOps : Answered(i) \/ Failed(i)

\* The session goes on while something is due, in any order.  Users,
\* notifications, sockets that open and connections that break owe nothing.
FairSpec == Spec /\ WF_vars(EndsByItself)

-----------------------------------------------------------------------------
(* Properties. *)

\* No connection is forgotten: a client that is not the detail client any more
\* is closed, closing, or about to be closed by the answer to its unsubscribe
\* request, on every path through switches, failures and saved settings
\* (closeDetailClient, ensureDetailClient).
ClientsReleased ==
  \A c \in Clients \ {conn.client} :
    conn.all[c].socket \in {"none", "closing"} \/ conn.all[c].unsubscribing

\* A thread last seen running is followed: until a poll sees it at rest, the
\* attempts are used up or the user leaves, a timer is armed or a poll is in
\* flight, whatever fails meanwhile (scheduleDetailPoll, pollThreadDetail).
RunningIsFollowed ==
  followed =>
    \/ pollTimer = active
    \/ \E i \in 1..MaxOps : ops[i] # Idle /\ ops[i].kind = "poll" /\ ops[i].thread = active

\* A thread the user opens leaves the syncing state, by its details or by an
\* error, whatever becomes of its client meanwhile (requestThreadDetail).
RequestsReported ==
  (\E i \in 1..MaxOps : ops[i] # Idle /\ ops[i].kind = "detail") ~> (status # "syncing")

\* Left alone, the session comes to rest: polling ends, every request ends and
\* every client but the current one is closed (DETAIL_POLL_MAX_ATTEMPTS,
\* closeDetailClient).
ComesToRest ==
  <>[](/\ pollTimer = NoThread /\ ~liveFlush
       /\ \A i \in 1..MaxOps : ops[i] = Idle
       /\ \A c \in Clients \ {conn.client} : conn.all[c].socket = "none")

=============================================================================
