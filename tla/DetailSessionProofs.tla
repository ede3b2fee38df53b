-------------------------- MODULE DetailSessionProofs --------------------------
(***************************************************************************)
(* Proofs about the detail session, for every set of threads and every     *)
(* number of clients, requests, attempts and inputs.                       *)
(***************************************************************************)
EXTENDS DetailSession, FiniteSetTheorems, TLAPS

(***************************************************************************)
(* The inductive invariant, in three parts: the clients, the requests, and *)
(* the rest with the property about following.  A client that is not       *)
(* closed has a thread, since a thread is shown when its set-up is done.   *)
(***************************************************************************)
Conn == [client : Clients \cup {NoClient}, ready : BOOLEAN, all : [Clients -> Client]]

Released(k) ==
  \A c \in Clients \ {k.client} :
    k.all[c].socket \in {"none", "closing"} \/ k.all[c].unsubscribing

Threaded(k) == \A c \in Clients : k.all[c].socket # "none" => k.all[c].thread # NoThread

ConnInv(k) == k \in Conn /\ Released(k) /\ Threaded(k)

OpsInv == ops \in [1..MaxOps -> Op \cup {Idle}]

TypesOfRest ==
  /\ configured \in BOOLEAN
  /\ active \in Threads \cup {NoThread}
  /\ pollTimer \in Threads \cup {NoThread}
  /\ detailPollAttempts \in 0..MaxAttempts
  /\ detailPollInFlight \in BOOLEAN
  /\ cached \subseteq Threads
  /\ awaiting \subseteq Threads
  /\ liveFlush \in BOOLEAN
  /\ status \in {"desynced", "syncing", "synced"}
  /\ inputs \in 0..MaxInputs
  /\ followed \in BOOLEAN

RestInv == TypesOfRest /\ RunningIsFollowed

IInv == ConnInv(conn) /\ OpsInv /\ RestInv

\* Some request in flight polls the thread.
Polled(os, t) == \E i \in 1..MaxOps : os[i] # Idle /\ os[i].kind = "poll" /\ os[i].thread = t

(***************************************************************************)
(* The slot that is taken is a free one.  That there is a least number is  *)
(* taken from the intervals up to each number, ordered by inclusion.       *)
(***************************************************************************)
LEMMA MinIsIn ==
  ASSUME NEW S, S \subseteq Nat, S # {}
  PROVE  Min(S) \in S
<1> DEFINE Below == {0..x : x \in S}
<1>1. Below \subseteq FiniteSubsetsOf(Nat) /\ Below # {}
  <2>1. \A x \in S : 0..x \subseteq Nat /\ IsFiniteSet(0..x)
    BY FS_Interval
  <2> QED
    BY <2>1, Zenon DEF FiniteSubsetsOf
<1>2. PICK B \in Below : \A C \in Below : <<C, B>> \notin StrictSubsetOrdering(Nat)
  BY <1>1, FS_StrictSubsetOrderingWellFounded, WFMin, Zenon
<1>3. PICK x \in S : B = 0..x
  BY <1>2
<1>4. ASSUME NEW y \in S, y < x PROVE FALSE
  <2>1. 0..y \subseteq 0..x /\ 0..y # 0..x /\ 0..y \in Below
    BY <1>4
  <2>2. <<0..y, B>> \in StrictSubsetOrdering(Nat)
    BY <2>1, <1>3, <1>4 DEF StrictSubsetOrdering
  <2> QED
    BY <2>1, <2>2, <1>2
<1>5. \A y \in S : x <= y
  BY <1>4
<1> QED
  BY <1>5 DEF Min

(***************************************************************************)
(* Clients: what closing, making and setting up a client do.               *)
(***************************************************************************)
LEMMA ClosedClient ==
  ASSUME NEW client \in Client, client.socket # "none" => client.thread # NoThread
  PROVE  /\ Close(client) \in Client
         /\ Close(client).socket \in {"none", "closing"}
         /\ Close(client).socket # "none" => Close(client).thread # NoThread
  BY DEF Close, Closed, Client

\* A client is replaced in its slot by one that keeps the invariant.
LEMMA SlotChanged ==
  ASSUME NEW k, ConnInv(k), NEW c \in Clients, NEW client \in Client,
         client.socket # "none" => client.thread # NoThread,
         NEW k2 \in Conn, k2.all = [k.all EXCEPT ![c] = client],
         k.client \in {k2.client, c, NoClient},
         \/ k2.client = c
         \/ client.socket \in {"none", "closing"} \/ client.unsubscribing
  PROVE  ConnInv(k2)
<1>1. \A d \in Clients : k2.all[d] = IF d = c THEN client ELSE k.all[d]
  BY DEF ConnInv, Conn
<1>2. Threaded(k2)
  BY <1>1 DEF ConnInv, Threaded
<1>3. Released(k2)
  BY <1>1 DEF ConnInv, Released, Clients, NoClient
<1> QED
  BY <1>2, <1>3 DEF ConnInv

\* closeDetailClient
LEMMA ClosedDetailClient ==
  ASSUME NEW k, ConnInv(k)
  PROVE  ConnInv(CloseDetailClient(k)) /\ CloseDetailClient(k).client = NoClient
<1>1. CASE k.client = NoClient
  <2>1. CloseDetailClient(k) = [k EXCEPT !.ready = FALSE]
    BY <1>1 DEF CloseDetailClient
  <2> QED
    BY <2>1, <1>1 DEF ConnInv, Conn, Released, Threaded
<1>2. CASE k.client # NoClient
  <2> DEFINE old == k.all[k.client]
             client == IF old.socket = "open" THEN [old EXCEPT !.unsubscribing = TRUE]
                                              ELSE Close(old)
  <2>1. k.client \in Clients /\ old \in Client /\ (old.socket # "none" => old.thread # NoThread)
    BY <1>2 DEF ConnInv, Conn, Threaded
  <2>2. /\ client \in Client
        /\ client.socket # "none" => client.thread # NoThread
        /\ client.socket \in {"none", "closing"} \/ client.unsubscribing
    <3>1. CASE old.socket = "open"
      BY <3>1, <2>1 DEF Client
    <3>2. CASE old.socket # "open"
      BY <3>2, <2>1, ClosedClient
    <3> QED
      BY <3>1, <3>2
  <2> DEFINE k2 == [client |-> NoClient, ready |-> FALSE,
                    all |-> [k.all EXCEPT ![k.client] = client]]
  <2>3. CloseDetailClient(k) = k2
    BY <1>2 DEF CloseDetailClient
  <2>4. k2 \in Conn
    BY <2>1, <2>2 DEF ConnInv, Conn
  <2> HIDE DEF client
  <2>5. ConnInv(k2)
    BY <2>1, <2>2, <2>4, SlotChanged
  <2> QED
    BY <2>3, <2>5
<1> QED
  BY <1>1, <1>2

\* ensureDetailClient, when there is a slot for the client it makes.
LEMMA EnsuredDetailClient ==
  ASSUME NEW k, ConnInv(k), NEW t \in Threads,
         Open(k, t) \/ BeingSetUp(k, t) \/ FreeClients(CloseDetailClient(k)) # {}
  PROVE  ConnInv(EnsureDetailClient(k, t)) /\ EnsureDetailClient(k, t).client \in Clients
<1>1. CASE Open(k, t) \/ BeingSetUp(k, t)
  BY <1>1 DEF EnsureDetailClient, Open, BeingSetUp, ConnInv, Conn
<1>2. CASE ~(Open(k, t) \/ BeingSetUp(k, t))
  <2> DEFINE closed == CloseDetailClient(k)
             c == Min(FreeClients(closed))
             client == [thread |-> t, socket |-> "connecting", setup |-> "pending",
                        unsubscribing |-> FALSE]
             k2 == [client |-> c, ready |-> TRUE, all |-> [closed.all EXCEPT ![c] = client]]
  <2>1. ConnInv(closed) /\ closed.client = NoClient
    BY ClosedDetailClient
  <2>2. c \in Clients
    <3>1. FreeClients(closed) \subseteq Nat /\ FreeClients(closed) \subseteq Clients
      BY DEF FreeClients, Clients
    <3> QED
      BY <1>2, <3>1, MinIsIn
  <2>3. EnsureDetailClient(k, t) = k2
    BY <1>2 DEF EnsureDetailClient
  <2> HIDE DEF closed, c
  <2>4. client \in Client /\ client.thread # NoThread
    BY NoThreadAssumption DEF Client
  <2>5. k2 \in Conn
    BY <2>1, <2>2, <2>4 DEF ConnInv, Conn
  <2> HIDE DEF client
  <2>6. ConnInv(k2)
    BY <2>1, <2>2, <2>4, <2>5, SlotChanged
  <2> QED
    BY <2>2, <2>3, <2>6
<1> QED
  BY <1>1, <1>2

(***************************************************************************)
(* Requests: what adding one, ending one and going on with one do.         *)
(***************************************************************************)
\* runDetailRequest: the new request is in flight, and the others still are.
LEMMA RequestRuns ==
  ASSUME IInv, NEW k, ConnInv(k), NEW t \in Threads,
         NEW kind \in {"detail", "poll", "reply", "refresh"}, RunDetailRequest(kind, t, k)
  PROVE  /\ ConnInv(conn') /\ OpsInv'
         /\ \A u : Polled(ops, u) => Polled(ops', u)
         /\ kind = "poll" => Polled(ops', t)
<1> DEFINE slot == Min(FreeOps)
           step == IF Open(k, t) THEN FirstStep(kind, t, cached) ELSE "setup"
<1>1. slot \in 1..MaxOps /\ ops[slot] = Idle
  <2>1. FreeOps \subseteq Nat /\ FreeOps # {}
    BY BoundsAssumption DEF FreeOps, RunDetailRequest
  <2>2. slot \in FreeOps
    BY <2>1, MinIsIn
  <2> QED
    BY <2>2 DEF FreeOps
<1> HIDE DEF slot
<1>2. PICK op \in Op : op.kind = kind /\ op.thread = t /\ ConnInv(conn')
                        /\ ops' = [ops EXCEPT ![slot] = op]
  <2>1. CASE configured
    <3> DEFINE op == [kind |-> kind, thread |-> t, client |-> conn'.client, step |-> step]
    <3>1. conn' = EnsureDetailClient(k, t)
          /\ (Open(k, t) \/ BeingSetUp(k, t) \/ FreeClients(CloseDetailClient(k)) # {})
      BY <2>1 DEF RunDetailRequest
    <3>2. ConnInv(conn') /\ conn'.client \in Clients
      BY <3>1, EnsuredDetailClient
    <3>3. op \in Op
      BY <3>2 DEF Op, FirstStep
    <3>4. ops' = [ops EXCEPT ![slot] = op]
      BY <2>1 DEF RunDetailRequest, slot
    <3> QED
      BY <3>2, <3>3, <3>4
  <2>2. CASE ~configured
    <3> DEFINE op == [kind |-> kind, thread |-> t, client |-> NoClient, step |-> "setup"]
    <3>1. op \in Op
      BY DEF Op
    <3>2. conn' = k /\ ops' = [ops EXCEPT ![slot] = op]
      BY <2>2 DEF RunDetailRequest, slot
    <3> QED
      BY <3>1, <3>2
  <2> QED
    BY <2>1, <2>2
<1>3. OpsInv'
  BY <1>1, <1>2 DEF IInv, OpsInv
<1>4. op # Idle
  BY <1>2 DEF Op, Idle
<1>5. \A i \in 1..MaxOps : ops'[i] = IF i = slot THEN op ELSE ops[i]
  BY <1>1, <1>2 DEF IInv, OpsInv
<1>6. ASSUME NEW u, Polled(ops, u) PROVE Polled(ops', u)
  BY <1>1, <1>5, <1>6 DEF Polled
<1>7. ASSUME kind = "poll" PROVE Polled(ops', t)
  BY <1>1, <1>2, <1>4, <1>5, <1>7 DEF Polled
<1> QED
  BY <1>2, <1>3, <1>6, <1>7

\* What ends is in flight no more; the others are.
LEMMA RequestEnds ==
  ASSUME IInv, NEW i \in 1..MaxOps, Finish(i)
  PROVE  /\ OpsInv'
         /\ \A u : (ops[i].kind # "poll" \/ ops[i].thread # u) /\ Polled(ops, u) => Polled(ops', u)
<1>1. OpsInv' /\ \A j \in 1..MaxOps : ops'[j] = IF j = i THEN Idle ELSE ops[j]
  BY DEF IInv, OpsInv, Finish
<1> QED
  BY <1>1 DEF Polled

(***************************************************************************)
(* The rest: the active thread, the timer and what was shown.              *)
(***************************************************************************)
LEMMA ShownThread ==
  ASSUME TypesOfRest, NEW t \in Threads, Shown(t)
  PROVE  cached' \subseteq Threads /\ awaiting' \subseteq Threads
  BY DEF TypesOfRest, Shown

LEMMA PollScheduled ==
  ASSUME TypesOfRest, NEW t \in Threads, NEW reset \in BOOLEAN, ScheduleDetailPoll(t, reset)
  PROVE  /\ pollTimer' \in Threads \cup {NoThread} /\ detailPollAttempts' \in 0..MaxAttempts
         /\ t = active => pollTimer' = active
         /\ t # active => pollTimer' = pollTimer
  BY BoundsAssumption DEF TypesOfRest, ScheduleDetailPoll

\* RunningIsFollowed in terms of the polls in flight.
LEMMA FollowedBy == RunningIsFollowed <=> (followed => pollTimer = active \/ Polled(ops, active))
  BY DEF RunningIsFollowed, Polled

LEMMA FollowedByNext ==
  RunningIsFollowed' <=> (followed' => pollTimer' = active' \/ Polled(ops', active'))
  BY DEF RunningIsFollowed, Polled

\* setActiveDetailThread, whatever request goes with it.
LEMMA Switched ==
  ASSUME IInv, NEW t \in Threads, SetActiveDetailThread(t),
         \A u : Polled(ops, u) => Polled(ops', u)
  PROVE  /\ RunningIsFollowed'
         /\ active' \in Threads \cup {NoThread} /\ pollTimer' \in Threads \cup {NoThread}
         /\ detailPollAttempts' \in 0..MaxAttempts /\ detailPollInFlight' \in BOOLEAN
         /\ liveFlush' \in BOOLEAN /\ followed' \in BOOLEAN
<1>1. CASE t = active
  BY <1>1, FollowedBy, FollowedByNext DEF SetActiveDetailThread, IInv, RestInv, TypesOfRest
<1>2. CASE t # active
  <2>1. RunningIsFollowed'
    BY <1>2, FollowedByNext DEF SetActiveDetailThread
  <2>2. 0 \in 0..MaxAttempts
    BY BoundsAssumption
  <2> QED
    BY <1>2, <2>1, <2>2 DEF SetActiveDetailThread
<1> QED
  BY <1>1, <1>2

LEMMA SwitchedConn ==
  ASSUME IInv, NEW t
  PROVE  ConnInv(ConnAfterSwitch(t))
  BY ClosedDetailClient DEF ConnAfterSwitch, IInv

LEMMA CountedInput ==
  ASSUME IInv, Input
  PROVE  inputs' \in 0..MaxInputs
  BY BoundsAssumption DEF IInv, RestInv, TypesOfRest, Input

LEMMA StillFollowed ==
  ASSUME IInv, UNCHANGED <<active, pollTimer, followed>>,
         \A u : Polled(ops, u) => Polled(ops', u)
  PROVE  RunningIsFollowed'
  BY FollowedBy, FollowedByNext DEF IInv, RestInv

(***************************************************************************)
(* One lemma per group of actions.                                         *)
(***************************************************************************)
LEMMA InitIInv == Init => IInv
<1> SUFFICES ASSUME Init PROVE IInv
  OBVIOUS
<1>1. Closed \in Client /\ Closed.socket = "none"
  BY DEF Closed, Client
<1>2. ConnInv(conn)
  BY <1>1 DEF Init, ConnInv, Conn, Released, Threaded
<1>3. OpsInv
  BY DEF Init, OpsInv
<1>4. 0 \in 0..MaxAttempts /\ 0 \in 0..MaxInputs
  BY BoundsAssumption
<1>5. TypesOfRest
  BY <1>4 DEF Init, TypesOfRest
<1>6. RunningIsFollowed
  BY DEF Init, RunningIsFollowed
<1> QED
  BY <1>2, <1>3, <1>5, <1>6 DEF IInv, RestInv

LEMMA WatchIInv ==
  ASSUME IInv, NEW t \in Threads, Watch(t)
  PROVE  IInv'
<1>1. ConnInv(ConnAfterSwitch(t)) /\ TypesOfRest
  BY SwitchedConn DEF IInv, RestInv
<1>2. Input /\ SetActiveDetailThread(t) /\ UNCHANGED configured
  BY DEF Watch, RequestThreadDetail, RequestDetailScroll, SubmitReply
<1>3. inputs' \in 0..MaxInputs
  BY <1>2, CountedInput
<1>4. ConnInv(conn') /\ OpsInv' /\ \A u : Polled(ops, u) => Polled(ops', u)
  <2>1. CASE RequestThreadDetail(t)
    BY <2>1, <1>1, RequestRuns DEF RequestThreadDetail
  <2>2. CASE SubmitReply(t)
    BY <2>2, <1>1, RequestRuns DEF SubmitReply
  <2>3. CASE RequestDetailScroll(t)
    BY <2>3, <1>1 DEF RequestDetailScroll, IInv, OpsInv, Polled
  <2> QED
    BY <2>1, <2>2, <2>3 DEF Watch
<1>5. cached' \subseteq Threads /\ awaiting' \subseteq Threads
      /\ status' \in {"desynced", "syncing", "synced"}
  BY <1>1 DEF TypesOfRest, Watch, RequestThreadDetail, RequestDetailScroll, SubmitReply
<1>6. /\ RunningIsFollowed'
      /\ active' \in Threads \cup {NoThread} /\ pollTimer' \in Threads \cup {NoThread}
      /\ detailPollAttempts' \in 0..MaxAttempts /\ detailPollInFlight' \in BOOLEAN
      /\ liveFlush' \in BOOLEAN /\ followed' \in BOOLEAN
  BY <1>2, <1>4, Switched
<1>7. TypesOfRest'
  BY <1>1, <1>2, <1>3, <1>5, <1>6 DEF TypesOfRest
<1> QED
  BY <1>4, <1>6, <1>7 DEF IInv, RestInv

\* What the clients alone change.
LEMMA OthersUnchanged ==
  ASSUME IInv, ConnInv(conn'),
         UNCHANGED <<configured, active, ops, pollTimer, detailPollAttempts,
                     detailPollInFlight, cached, awaiting, liveFlush, followed>>,
         status' \in {"desynced", "syncing", "synced"}, inputs' \in 0..MaxInputs
  PROVE  IInv'
<1>1. OpsInv' /\ RunningIsFollowed'
  BY DEF IInv, OpsInv, RestInv, RunningIsFollowed
<1>2. TypesOfRest'
  BY DEF IInv, RestInv, TypesOfRest
<1> QED
  BY <1>1, <1>2 DEF IInv, RestInv

LEMMA SaveSettingsIInv == ASSUME IInv, SaveSettings PROVE IInv'
<1>1. ConnInv(conn')
  BY ClosedDetailClient DEF SaveSettings, IInv
<1>2. inputs' \in 0..MaxInputs
  BY CountedInput DEF SaveSettings
<1>3. OpsInv' /\ RunningIsFollowed'
  BY DEF SaveSettings, IInv, OpsInv, RestInv, RunningIsFollowed
<1>4. TypesOfRest'
  BY <1>2 DEF SaveSettings, SyncJobs, IInv, RestInv, TypesOfRest
<1> QED
  BY <1>1, <1>3, <1>4 DEF IInv, RestInv

LEMMA ClientOf ==
  ASSUME IInv, NEW c \in Clients
  PROVE  /\ conn.all[c] \in Client
         /\ conn.all[c].socket # "none" => conn.all[c].thread # NoThread
         /\ c # conn.client => conn.all[c].socket \in {"none", "closing"} \/ conn.all[c].unsubscribing
  BY DEF IInv, ConnInv, Conn, Released, Threaded

LEMMA StatusAndInputs ==
  ASSUME IInv
  PROVE  status \in {"desynced", "syncing", "synced"} /\ inputs \in 0..MaxInputs
  BY DEF IInv, RestInv, TypesOfRest

LEMMA SocketOpensIInv ==
  ASSUME IInv, NEW c \in Clients, SocketOpens(c)
  PROVE  IInv'
<1> DEFINE client == [conn.all[c] EXCEPT !.socket = "open"]
<1>1. client \in Client /\ client.thread # NoThread
      /\ (c = conn.client \/ client.unsubscribing)
  BY ClientOf DEF SocketOpens, Client
<1>2. conn' \in Conn /\ conn'.all = [conn.all EXCEPT ![c] = client] /\ conn'.client = conn.client
  BY <1>1 DEF SocketOpens, IInv, ConnInv, Conn
<1> HIDE DEF client
<1>3. ConnInv(conn')
  BY <1>1, <1>2, SlotChanged DEF IInv
<1> QED
  BY <1>3, OthersUnchanged, StatusAndInputs DEF SocketOpens

LEMMA SetupFailsIInv ==
  ASSUME IInv, NEW c \in Clients, SetupFails(c)
  PROVE  IInv'
<1>1. Closed \in Client /\ Closed.socket = "none"
  BY DEF Closed, Client
<1>2. /\ conn' \in Conn /\ conn'.all = [conn.all EXCEPT ![c] = Closed]
      /\ conn.client \in {conn'.client, c}
  BY <1>1 DEF SetupFails, IInv, ConnInv, Conn
<1>3. ConnInv(conn')
  BY <1>1, <1>2, SlotChanged DEF IInv
<1> QED
  BY <1>3, OthersUnchanged, StatusAndInputs DEF SetupFails

\* A client in use, or one that has unsubscribed, is closed.
LEMMA ConnWithClosed ==
  ASSUME IInv, NEW c \in Clients, conn' = [conn EXCEPT !.all[c] = Close(@)]
  PROVE  ConnInv(conn')
<1> DEFINE client == Close(conn.all[c])
<1>1. /\ client \in Client /\ client.socket \in {"none", "closing"}
      /\ client.socket # "none" => client.thread # NoThread
  BY ClientOf, ClosedClient
<1> HIDE DEF client
<1>2. conn' \in Conn /\ conn'.all = [conn.all EXCEPT ![c] = client] /\ conn'.client = conn.client
  BY <1>1 DEF IInv, ConnInv, Conn, client
<1> QED
  BY <1>1, <1>2, SlotChanged, ZenonT(60) DEF IInv

LEMMA SocketDiesIInv ==
  ASSUME IInv, NEW c \in Clients, SocketDies(c)
  PROVE  IInv'
  BY ConnWithClosed, OthersUnchanged, StatusAndInputs, CountedInput DEF SocketDies

LEMMA UnsubscribedIInv ==
  ASSUME IInv, NEW c \in Clients, Unsubscribed(c)
  PROVE  IInv'
  BY ConnWithClosed, OthersUnchanged, StatusAndInputs DEF Unsubscribed

LEMMA SetupDoneIInv ==
  ASSUME IInv, NEW c \in Clients, SetupDone(c)
  PROVE  IInv'
<1> DEFINE client == [conn.all[c] EXCEPT !.setup = "ready"]
<1>1. client \in Client /\ client.thread \in Threads
      /\ client.socket = conn.all[c].socket /\ client.unsubscribing = conn.all[c].unsubscribing
  BY ClientOf DEF SetupDone, Client
<1>2. conn' \in Conn /\ conn'.all = [conn.all EXCEPT ![c] = client] /\ conn'.client = conn.client
  BY <1>1 DEF SetupDone, IInv, ConnInv, Conn
<1>3. conn.all[c].thread \in Threads
  BY <1>1, ClientOf DEF Client
<1> HIDE DEF client
<1>4. ConnInv(conn')
  BY <1>1, <1>2, ClientOf, NoThreadAssumption, SlotChanged DEF IInv
<1>5. \A i \in 1..MaxOps :
        /\ ops'[i] \in Op \cup {Idle}
        /\ ops[i] # Idle => ops'[i] # Idle /\ ops'[i].kind = ops[i].kind
                            /\ ops'[i].thread = ops[i].thread
  <2> SUFFICES ASSUME NEW i \in 1..MaxOps
               PROVE  /\ ops'[i] \in Op \cup {Idle}
                      /\ ops[i] # Idle => ops'[i] # Idle /\ ops'[i].kind = ops[i].kind
                                          /\ ops'[i].thread = ops[i].thread
    OBVIOUS
  <2> DEFINE step == FirstStep(ops[i].kind, ops[i].thread, cached')
  <2>1. step \in {"setup", "resolve", "asked"}
    BY DEF FirstStep
  <2> HIDE DEF step
  <2>2. ops[i] \in Op \cup {Idle} /\ (ops'[i] = ops[i] \/ (ops[i] # Idle /\ ops'[i] = [ops[i] EXCEPT !.step = step]))
    BY DEF SetupDone, IInv, OpsInv, step
  <2> QED
    BY <2>1, <2>2 DEF Op, Idle
<1>6. OpsInv' /\ \A u : Polled(ops, u) => Polled(ops', u)
  <2>1. OpsInv'
    BY <1>5 DEF SetupDone, OpsInv
  <2> QED
    BY <2>1, <1>5 DEF Polled
<1>7. RunningIsFollowed'
  BY <1>6, StillFollowed DEF SetupDone
<1>8. cached' \subseteq Threads /\ awaiting' \subseteq Threads
  BY <1>3, ShownThread DEF SetupDone, IInv, RestInv, TypesOfRest
<1>9. TypesOfRest'
  BY <1>8 DEF SetupDone, IInv, RestInv, TypesOfRest
<1> QED
  BY <1>4, <1>6, <1>7, <1>9 DEF IInv, RestInv

\* The progress of a turn that runs.
LEMMA ProgressIInv ==
  ASSUME IInv, LiveProgress \/ FlushLiveProgress
  PROVE  IInv'
<1>1. UNCHANGED <<configured, active, conn, ops, pollTimer, detailPollAttempts,
                  detailPollInFlight, cached, awaiting, followed>>
  BY DEF LiveProgress, FlushLiveProgress, Notified
<1>2. inputs' \in 0..MaxInputs
  BY CountedInput, StatusAndInputs DEF LiveProgress, FlushLiveProgress, Notified
<1>3. liveFlush' \in BOOLEAN /\ status' \in {"desynced", "syncing", "synced"}
  BY StatusAndInputs DEF LiveProgress, FlushLiveProgress
<1>4. OpsInv' /\ RunningIsFollowed'
  BY <1>1 DEF IInv, OpsInv, RestInv, RunningIsFollowed
<1>5. TypesOfRest'
  BY <1>1, <1>2, <1>3 DEF IInv, RestInv, TypesOfRest
<1> QED
  BY <1>1, <1>4, <1>5 DEF IInv, RestInv

LEMMA HandleTurnCompletedIInv == ASSUME IInv, HandleTurnCompleted PROVE IInv'
<1>1. active \in Threads /\ TypesOfRest
  BY DEF HandleTurnCompleted, Notified, IInv, RestInv, TypesOfRest
<1>2. ConnInv(conn') /\ OpsInv' /\ \A u : Polled(ops, u) => Polled(ops', u)
  BY <1>1, RequestRuns DEF HandleTurnCompleted, IInv
<1>3. RunningIsFollowed'
  BY <1>2, StillFollowed DEF HandleTurnCompleted
<1>4. cached' \subseteq Threads /\ awaiting' \subseteq Threads
  BY <1>1, ShownThread DEF HandleTurnCompleted, TypesOfRest
<1>5. inputs' \in 0..MaxInputs
  BY CountedInput DEF HandleTurnCompleted, Notified
<1>6. TypesOfRest'
  BY <1>1, <1>4, <1>5 DEF HandleTurnCompleted, TypesOfRest
<1> QED
  BY <1>2, <1>3, <1>6 DEF IInv, RestInv

\* A request whose answer or failure arrives is in flight.
LEMMA RequestOf ==
  ASSUME IInv, NEW i \in 1..MaxOps, ops[i] # Idle
  PROVE  ops[i] \in Op /\ ops[i].thread \in Threads
  BY DEF IInv, OpsInv, Op

\* Answers and failures leave the clients and the active thread alone.
LEMMA AnswerTypes ==
  ASSUME IInv, UNCHANGED <<configured, active, conn, liveFlush, inputs>>,
         OpsInv', RunningIsFollowed',
         cached' \subseteq Threads, awaiting' \subseteq Threads,
         status' \in {"desynced", "syncing", "synced"},
         pollTimer' \in Threads \cup {NoThread}, detailPollAttempts' \in 0..MaxAttempts,
         detailPollInFlight' \in BOOLEAN, followed' \in BOOLEAN
  PROVE  IInv'
<1>1. TypesOfRest'
  BY DEF IInv, RestInv, TypesOfRest
<1> QED
  BY <1>1 DEF IInv, RestInv

LEMMA AnsweredIInv ==
  ASSUME IInv, NEW i \in 1..MaxOps, Answered(i)
  PROVE  IInv'
<1> DEFINE t == ops[i].thread
<1>1. TypesOfRest /\ ops[i] \in Op /\ t \in Threads
  BY RequestOf DEF Answered, IInv, RestInv
<1>2. UNCHANGED <<configured, active, conn, liveFlush, inputs>>
  BY DEF Answered
<1>3. CASE ReplyResolved(i)
  <2>1. \A j \in 1..MaxOps : ops'[j] = IF j = i THEN [ops[i] EXCEPT !.step = "asked"] ELSE ops[j]
    BY <1>3 DEF ReplyResolved, IInv, OpsInv
  <2>2. [ops[i] EXCEPT !.step = "asked"] \in Op
        /\ [ops[i] EXCEPT !.step = "asked"].kind = ops[i].kind
        /\ [ops[i] EXCEPT !.step = "asked"].thread = ops[i].thread
    BY <1>1 DEF Op
  <2>3. OpsInv'
    BY <1>3, <2>2 DEF ReplyResolved, IInv, OpsInv
  <2>4. \A op \in Op : op # Idle
    BY DEF Op, Idle
  <2>5. \A u : Polled(ops, u) => Polled(ops', u)
    BY <2>1, <2>2, <2>4 DEF Polled
  <2>6. RunningIsFollowed'
    BY <1>2, <1>3, <2>5, StillFollowed DEF ReplyResolved
  <2> QED
    BY <1>1, <1>2, <1>3, <2>3, <2>6, AnswerTypes DEF ReplyResolved, TypesOfRest
<1>4. ASSUME Finish(i)
      PROVE  /\ OpsInv'
             /\ \A u : (ops[i].kind # "poll" \/ t # u) /\ Polled(ops, u) => Polled(ops', u)
  BY <1>4, RequestEnds
<1>5. CASE DetailRead(i)
  <2>1. PICK running \in BOOLEAN :
          /\ IF running THEN ScheduleDetailPoll(t, TRUE) ELSE NoPollScheduled
          /\ followed' = (followed \/ (running /\ t = active))
    BY <1>5 DEF DetailRead
  <2>2. OpsInv' /\ \A u : Polled(ops, u) => Polled(ops', u)
    BY <1>4, <1>5 DEF DetailRead
  <2>3. cached' \subseteq Threads /\ awaiting' \subseteq Threads
    BY <1>1, <1>5, ShownThread DEF DetailRead
  <2>4. CASE running
    <3>1. /\ pollTimer' \in Threads \cup {NoThread} /\ detailPollAttempts' \in 0..MaxAttempts
          /\ t = active => pollTimer' = active
          /\ t # active => pollTimer' = pollTimer
      BY <1>1, <2>1, <2>4, PollScheduled
    <3>2. RunningIsFollowed'
      BY <1>2, <2>1, <2>2, <3>1, FollowedBy, FollowedByNext DEF IInv, RestInv
    <3> QED
      BY <1>1, <1>2, <1>5, <2>1, <2>2, <2>3, <3>1, <3>2, AnswerTypes DEF DetailRead, TypesOfRest
  <2>5. CASE ~running
    <3>1. UNCHANGED <<pollTimer, detailPollAttempts>> /\ followed' = followed
      BY <1>1, <2>1, <2>5 DEF NoPollScheduled, TypesOfRest
    <3>2. RunningIsFollowed'
      BY <1>2, <2>2, <3>1, StillFollowed
    <3> QED
      BY <1>1, <1>2, <1>5, <2>2, <2>3, <3>1, <3>2, AnswerTypes DEF DetailRead, TypesOfRest
  <2> QED
    BY <2>4, <2>5
<1>6. CASE ReplyAccepted(i)
  <2>1. OpsInv' /\ \A u : Polled(ops, u) => Polled(ops', u)
    BY <1>4, <1>6 DEF ReplyAccepted
  <2>2. /\ pollTimer' \in Threads \cup {NoThread} /\ detailPollAttempts' \in 0..MaxAttempts
        /\ t = active => pollTimer' = active
        /\ t # active => pollTimer' = pollTimer
    BY <1>1, <1>6, PollScheduled DEF ReplyAccepted
  <2>3. RunningIsFollowed'
    BY <1>2, <1>6, <2>1, <2>2, FollowedBy, FollowedByNext DEF ReplyAccepted, IInv, RestInv
  <2> QED
    BY <1>1, <1>2, <1>6, <2>1, <2>2, <2>3, AnswerTypes DEF ReplyAccepted, TypesOfRest
<1>7. CASE PollRead(i)
  <2>1. OpsInv' /\ \A u : t # u /\ Polled(ops, u) => Polled(ops', u)
    BY <1>4, <1>7 DEF PollRead
  <2>2. CASE t # active
    <3>1. UNCHANGED <<cached, awaiting, status, pollTimer, detailPollAttempts, followed>>
          /\ detailPollInFlight' = FALSE
      BY <1>7, <2>2 DEF PollRead
    <3>2. RunningIsFollowed'
      BY <1>2, <2>1, <2>2, <3>1, FollowedBy, FollowedByNext DEF IInv, RestInv
    <3> QED
      BY <1>1, <1>2, <2>1, <3>1, <3>2, AnswerTypes DEF TypesOfRest
  <2>3. CASE t = active
    <3>1. cached' \subseteq Threads /\ awaiting' \subseteq Threads /\ detailPollInFlight' = FALSE
      BY <1>1, <1>7, <2>3, ShownThread DEF PollRead
    <3>2. CASE ScheduleDetailPoll(active, FALSE) /\ status' \in {status, "synced"} /\ followed' = TRUE
      <4>1. /\ pollTimer' \in Threads \cup {NoThread} /\ detailPollAttempts' \in 0..MaxAttempts
            /\ pollTimer' = active
        BY <1>1, <2>3, <3>2, PollScheduled
      <4>2. RunningIsFollowed'
        BY <1>2, <4>1, FollowedByNext
      <4>3. status' \in {"desynced", "syncing", "synced"}
        BY <3>2, StatusAndInputs
      <4> QED
        BY <1>2, <2>1, <3>1, <3>2, <4>1, <4>2, <4>3, AnswerTypes
    <3>3. CASE SyncJobs /\ NoPollScheduled /\ followed' = FALSE
      <4>1. RunningIsFollowed'
        BY <3>3, FollowedByNext
      <4>2. status' \in {"desynced", "syncing", "synced"}
        BY <3>3 DEF SyncJobs
      <4>3. UNCHANGED <<pollTimer, detailPollAttempts>>
        BY <3>3 DEF NoPollScheduled
      <4> QED
        BY <1>1, <1>2, <2>1, <3>1, <3>3, <4>1, <4>2, <4>3, AnswerTypes DEF TypesOfRest
    <3> QED
      BY <1>7, <2>3, <3>2, <3>3 DEF PollRead
  <2> QED
    BY <2>2, <2>3
<1>8. CASE RefreshRead(i)
  <2>1. OpsInv' /\ \A u : Polled(ops, u) => Polled(ops', u)
    BY <1>4, <1>8 DEF RefreshRead
  <2>2. RunningIsFollowed'
    BY <1>2, <1>8, <2>1, StillFollowed DEF RefreshRead
  <2>3. /\ cached' \subseteq Threads /\ awaiting' \subseteq Threads
        /\ status' \in {"desynced", "syncing", "synced"}
    BY <1>1, <1>8, ShownThread DEF RefreshRead, SyncJobs, TypesOfRest
  <2> QED
    BY <1>1, <1>2, <1>8, <2>1, <2>2, <2>3, AnswerTypes DEF RefreshRead, TypesOfRest
<1> QED
  BY <1>3, <1>5, <1>6, <1>7, <1>8 DEF Answered

LEMMA FailedIInv ==
  ASSUME IInv, NEW i \in 1..MaxOps, Failed(i)
  PROVE  IInv'
<1> DEFINE t == ops[i].thread
<1>1. TypesOfRest /\ t \in Threads
  BY RequestOf DEF Failed, IInv, RestInv
<1>2. UNCHANGED <<configured, active, conn, cached, awaiting, liveFlush, inputs>>
  BY DEF Failed
<1>3. OpsInv' /\ \A u : (ops[i].kind # "poll" \/ t # u) /\ Polled(ops, u) => Polled(ops', u)
  BY RequestEnds DEF Failed
<1>4. CASE /\ ops[i].kind \in {"detail", "reply"} /\ status' = "desynced" /\ NoPollScheduled
           /\ UNCHANGED <<detailPollInFlight, followed>>
  <2>1. RunningIsFollowed'
    BY <1>2, <1>3, <1>4, StillFollowed DEF NoPollScheduled
  <2> QED
    BY <1>1, <1>2, <1>3, <1>4, <2>1, AnswerTypes DEF NoPollScheduled, TypesOfRest
<1>5. CASE PollFailed(t)
  <2>1. CASE ScheduleDetailPoll(t, FALSE) /\ UNCHANGED <<status, followed>>
    <3>1. /\ pollTimer' \in Threads \cup {NoThread} /\ detailPollAttempts' \in 0..MaxAttempts
          /\ t = active => pollTimer' = active
          /\ t # active => pollTimer' = pollTimer
      BY <1>1, <2>1, PollScheduled
    <3>2. RunningIsFollowed'
      BY <1>2, <1>3, <2>1, <3>1, FollowedBy, FollowedByNext DEF IInv, RestInv
    <3> QED
      BY <1>1, <1>2, <1>3, <1>5, <2>1, <3>1, <3>2, AnswerTypes DEF PollFailed, TypesOfRest
  <2>2. CASE status' = "desynced" /\ followed' = (followed /\ t # active) /\ NoPollScheduled
    <3>1. RunningIsFollowed'
      BY <1>2, <1>3, <2>2, FollowedBy, FollowedByNext DEF NoPollScheduled, IInv, RestInv
    <3> QED
      BY <1>1, <1>2, <1>3, <1>5, <2>2, <3>1, AnswerTypes DEF PollFailed, NoPollScheduled, TypesOfRest
  <2> QED
    BY <1>5, <2>1, <2>2 DEF PollFailed
<1>6. CASE /\ ops[i].kind = "refresh"
           /\ IF t \in awaiting THEN ScheduleDetailPoll(t, FALSE) ELSE NoPollScheduled
           /\ UNCHANGED <<status, detailPollInFlight, followed>>
  <2>1. /\ pollTimer' \in Threads \cup {NoThread} /\ detailPollAttempts' \in 0..MaxAttempts
        /\ pollTimer' = active \/ pollTimer' = pollTimer
    BY <1>1, <1>6, PollScheduled DEF NoPollScheduled, TypesOfRest
  <2>2. RunningIsFollowed'
    BY <1>2, <1>3, <1>6, <2>1, FollowedBy, FollowedByNext DEF IInv, RestInv
  <2> QED
    BY <1>1, <1>2, <1>3, <1>6, <2>1, <2>2, AnswerTypes DEF TypesOfRest
<1> QED
  BY <1>4, <1>5, <1>6 DEF Failed

LEMMA PollThreadDetailIInv == ASSUME IInv, PollThreadDetail PROVE IInv'
<1>1. TypesOfRest /\ pollTimer \in Threads
  BY DEF PollThreadDetail, IInv, RestInv, TypesOfRest
<1>2. UNCHANGED <<configured, active, cached, awaiting, liveFlush, inputs>>
  BY DEF PollThreadDetail
<1>3. CASE PollLater
  <2>1. UNCHANGED <<pollTimer, conn, ops, detailPollAttempts, detailPollInFlight, status, followed>>
    BY <1>3 DEF PollLater
  <2> QED
    BY <1>2, <2>1, OthersUnchanged, StatusAndInputs DEF IInv
<1>4. CASE PollStops
  <2>1. UNCHANGED <<conn, ops, detailPollAttempts, detailPollInFlight>> /\ followed' = FALSE
        /\ pollTimer' = NoThread /\ status' \in {"desynced", "syncing", "synced"}
    BY <1>4 DEF PollStops, SyncJobs
  <2>2. OpsInv' /\ RunningIsFollowed'
    BY <2>1, FollowedByNext DEF IInv, OpsInv
  <2> QED
    BY <1>1, <1>2, <2>1, <2>2, AnswerTypes DEF TypesOfRest
<1>5. CASE PollAgain
  <2>1. /\ ConnInv(conn') /\ OpsInv'
        /\ \A u : Polled(ops, u) => Polled(ops', u)
        /\ Polled(ops', pollTimer)
    BY <1>1, <1>5, RequestRuns DEF PollAgain, IInv
  <2>2. /\ pollTimer' = NoThread /\ detailPollInFlight' = TRUE /\ UNCHANGED <<status, followed>>
        /\ detailPollAttempts' \in 0..MaxAttempts
    BY <1>1, <1>5, BoundsAssumption DEF PollAgain, TypesOfRest
  <2>3. RunningIsFollowed'
    BY <1>2, <2>1, <2>2, FollowedBy, FollowedByNext DEF IInv, RestInv
  <2>4. TypesOfRest'
    BY <1>1, <1>2, <2>2 DEF TypesOfRest
  <2> QED
    BY <2>1, <2>3, <2>4 DEF IInv, RestInv
<1> QED
  BY <1>3, <1>4, <1>5 DEF PollThreadDetail

LEMMA StutterIInv == ASSUME IInv, UNCHANGED vars PROVE IInv'
<1>1. ConnInv(conn')
  BY DEF vars, IInv
<1> QED
  BY <1>1, OthersUnchanged, StatusAndInputs DEF vars

LEMMA NextIInv == IInv /\ [Next]_vars => IInv'
<1> SUFFICES ASSUME IInv, [Next]_vars PROVE IInv'
  OBVIOUS
<1>1. CASE \E t \in Threads : Watch(t)
  BY <1>1, WatchIInv
<1>2. CASE SaveSettings \/ LiveProgress \/ FlushLiveProgress \/ HandleTurnCompleted
             \/ PollThreadDetail
  BY <1>2, SaveSettingsIInv, ProgressIInv, HandleTurnCompletedIInv, PollThreadDetailIInv
<1>3. CASE \E c \in Clients : SocketOpens(c) \/ SetupEnds(c) \/ SocketDies(c) \/ Unsubscribed(c)
  BY <1>3, SocketOpensIInv, SetupDoneIInv, SetupFailsIInv, SocketDiesIInv, UnsubscribedIInv
     DEF SetupEnds
<1>4. CASE \E i \in 1..MaxOps : Answered(i) \/ Failed(i)
  BY <1>4, AnsweredIInv, FailedIInv
<1>5. CASE UNCHANGED vars
  BY <1>5, StutterIInv
<1> QED
  BY <1>1, <1>2, <1>3, <1>4, <1>5 DEF Next

-----------------------------------------------------------------------------
(***************************************************************************)
(* The strengthened invariant holds in every reachable state: the clients  *)
(* with their threads, the requests, the timer and what is followed.       *)
(***************************************************************************)
THEOREM Inductive == Spec => []IInv
<1> QED
  BY InitIInv, NextIInv, PTL DEF Spec

(***************************************************************************)
(* Every variable of the detail session keeps its type.                    *)
(***************************************************************************)
THEOREM TypeCorrect == Spec => []TypeOK
<1>1. IInv => TypeOK
  BY DEF IInv, ConnInv, Conn, OpsInv, RestInv, TypesOfRest, TypeOK
<1> QED
  BY <1>1, Inductive, PTL

(***************************************************************************)
(* No connection is forgotten, through any number of switches, failures    *)
(* and saved settings, and with any number of clients on their way out.    *)
(***************************************************************************)
THEOREM NoClientForgotten == Spec => []ClientsReleased
<1>1. IInv => ClientsReleased
  BY DEF IInv, ConnInv, Released, ClientsReleased
<1> QED
  BY <1>1, Inductive, PTL

(***************************************************************************)
(* A thread last seen running is followed by an armed timer or by a poll   *)
(* in flight, however many requests fail or are answered late.             *)
(***************************************************************************)
THEOREM RunningFollowed == Spec => []RunningIsFollowed
<1>1. IInv => RunningIsFollowed
  BY DEF IInv, RestInv
<1> QED
  BY <1>1, Inductive, PTL
=============================================================================
