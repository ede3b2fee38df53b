------------------------------- MODULE Replies -------------------------------
(***************************************************************************)
(* What the phone keeps of the threads it was asked about, and what it     *)
(* shows of them while a reply or a live turn is under way: the cached     *)
(* sections, the reply that is pending, the line of live progress and the  *)
(* one that is queued (src/pkjs/index.js, submitReply to threadSections).  *)
(*                                                                         *)
(* The app-server is a sequence of turns per thread; answers and           *)
(* notifications reach the phone in the order they were sent.  A section   *)
(* is one line here and every body fits a page: pages, and scrolling, are  *)
(* module DetailPages, sockets and poll attempts module DetailSession.     *)
(***************************************************************************)
EXTENDS Naturals, Sequences, FiniteSets, SequencesExt

CONSTANTS
  Threads,     \* thread ids
  NoThread,    \* the empty thread id
  Texts,       \* what the user says; none contains another
  Answers,     \* what Codex says or does, each item once
  CacheLimit,  \* DETAIL_CACHE_LIMIT
  MaxTurns,    \* bound: turns of a thread
  MaxWire,     \* bound: answers and notifications under way
  MaxChanges   \* bound: messages of the watch, items, turns and failures

ASSUME CacheLimitAssumption == CacheLimit \in Nat \ {0}
ASSUME NoThreadAssumption == NoThread \notin Threads
ASSUME BoundsAssumption == MaxTurns \in Nat /\ MaxWire \in Nat /\ MaxChanges \in Nat

Empty == "No loaded messages yet"
Working == "Codex: working..."
Progress == "progress"
Failed == "Reply failed"
NoLine == "none"

\* submitReply turns an empty text away.
ASSUME TextsAssumption == NoLine \notin Texts

\* "You: " and "Codex: " are left out: a text or an answer is its own line.
Line == Texts \cup Answers \cup {Empty, Working, Progress, Failed}

Turn == [items : Seq(Texts \cup Answers),
         status : {"inProgress", "completed", "interrupted", "failed"}]

NotCached == [sections |-> <<>>, known |-> FALSE, turn |-> 0]

VARIABLES
  server,   \* the app-server: thread |-> its turns
  phone,    \* what the phone keeps
  client,   \* the detail client of the active thread: none, setup, open
  calls,    \* requests not answered yet
  wire,     \* answers and notifications under way to the phone
  poll,     \* detailPollTimer is armed
  polling,  \* detailPollInFlight
  fresh,    \* history: threads whose pending reply says something new
  excused,  \* history: why the active thread may be shown as it was
  changes   \* number of changes so far

vars == <<server, phone, client, calls, wire, poll, polling, fresh, excused, changes>>

-----------------------------------------------------------------------------
(* Threads as they were read: sequences of turns. *)

UserText(turns, x) == \E i \in DOMAIN turns : \E j \in DOMAIN turns[i].items : turns[i].items[j] = x

\* threadHasReplyResult: the status it calls "canceled" is never sent.
ThreadHasReplyResult(turns, x) ==
  \E i \in DOMAIN turns : \E j \in DOMAIN turns[i].items :
    /\ turns[i].items[j] = x
    /\ \/ turns[i].status \in {"completed", "failed"}
       \/ \E k \in DOMAIN turns[i].items : k > j /\ turns[i].items[k] \in Answers

\* latestInProgressTurn, by its number; 0 for none.
LatestInProgressTurn(turns) ==
  LET running == {i \in DOMAIN turns : turns[i].status = "inProgress"}
  IN  IF running = {} THEN 0 ELSE CHOOSE i \in running : \A j \in running : j <= i

\* threadSections
ThreadSections(turns) ==
  LET lines[n \in 0..Len(turns)] == IF n = 0 THEN <<>> ELSE lines[n - 1] \o turns[n].items
  IN  IF lines[Len(turns)] = <<>> THEN <<Empty>> ELSE lines[Len(turns)]

\* removeLiveProgressLine and removeSectionLine
Without(lines, line) ==
  LET kept[n \in 0..Len(lines)] ==
        IF n = 0 THEN <<>>
        ELSE IF lines[n] = line THEN kept[n - 1] ELSE Append(kept[n - 1], lines[n])
  IN  IF line \in ToSet(lines) THEN kept[Len(lines)] ELSE lines

-----------------------------------------------------------------------------
(* What the phone keeps: operators from the phone's state to the next.      *)

\* pruneDetailThread
PruneDetailThread(p, t) ==
  [p EXCEPT !.queued[t] = NoLine, !.body[t] = <<>>, !.cache[t] = NotCached,
            !.pending[t] = NoLine, !.progress[t] = NoLine, !.texts = @ \ {t}]

\* detailCacheOrder with thread t at its end.
MovedToEnd(order, t) ==
  IF t \in ToSet(order)
  THEN Append(RemoveAt(order, CHOOSE i \in DOMAIN order : order[i] = t), t)
  ELSE Append(order, t)

\* Mutant: the oldest thread is forgotten, what is kept of it is not.
RememberWithoutPruning(p, t) ==
  LET order == MovedToEnd(p.order, t)
  IN  [p EXCEPT !.order = IF Len(order) <= CacheLimit THEN order ELSE Tail(order)]

\* rememberDetailThread: one thread more evicts one.
RememberDetailThread(p, t) ==
  LET order == MovedToEnd(p.order, t)
  IN  IF Len(order) <= CacheLimit THEN [p EXCEPT !.order = order]
      ELSE [(IF Head(order) = t THEN p ELSE PruneDetailThread(p, Head(order)))
              EXCEPT !.order = Tail(order)]

\* Mutant: a read that does not have the reply yet is shown as it is.
SectionsWithoutReply(p, t, turns) ==
  IF LatestInProgressTurn(turns) # 0 THEN Append(ThreadSections(turns), Working)
  ELSE ThreadSections(turns)

\* detailSections and detailBody
DetailSections(p, t, turns) ==
  LET x == p.pending[t]
      sections == ThreadSections(turns)
  IN  IF x # NoLine
      THEN IF ~UserText(turns, x) THEN <<x, Working>>
           ELSE IF ~ThreadHasReplyResult(turns, x) THEN Append(sections, Working)
           ELSE sections
      ELSE IF LatestInProgressTurn(turns) # 0 THEN Append(sections, Working) ELSE sections

\* cacheThreadDetail
CacheThreadDetail(p, t, turns) ==
  [RememberDetailThread(p, t) EXCEPT
     !.cache[t] = [sections |-> DetailSections(p, t, turns), known |-> TRUE,
                   turn |-> LatestInProgressTurn(turns)]]

\* sendDetailBody
SendDetailBody(p, t, body) ==
  [RememberDetailThread(p, t) EXCEPT !.body[t] = body,
                                     !.shown = [thread |-> t, body |-> body]]

\* sendDetailPage
SendDetailPage(p, t) ==
  LET q == IF p.cache[t].sections = <<>> THEN CacheThreadDetail(p, t, <<>>) ELSE p
  IN  SendDetailBody(q, t, q.cache[t].sections)

\* Mutant: a thread without a turn in progress has answered the reply.
ReconcileWhenIdle(p, t, turns) ==
  IF LatestInProgressTurn(turns) = 0 THEN [p EXCEPT !.pending[t] = NoLine] ELSE p

\* reconcilePendingReply
ReconcilePendingReply(p, t, turns) ==
  IF p.pending[t] # NoLine /\ ThreadHasReplyResult(turns, p.pending[t])
  THEN [p EXCEPT !.pending[t] = NoLine] ELSE p

\* sendDetailUpdate
SendDetailUpdate(p, t, turns) ==
  ReconcilePendingReply(SendDetailPage(CacheThreadDetail(p, t, turns), t), t, turns)

\* sendDetailUpdateIfChanged
SendDetailUpdateIfChanged(p, t, turns) ==
  LET q == ReconcilePendingReply(CacheThreadDetail(p, t, turns), t, turns)
  IN  IF q.body[t] = q.cache[t].sections THEN q ELSE SendDetailPage(q, t)

-----------------------------------------------------------------------------
(* Live progress.                                                          *)

\* clearLiveProgress: what the watch was sent last is forgotten, not resent.
ClearLiveProgress(p, t) ==
  LET line == p.progress[t]
  IN  [p EXCEPT !.body[t] = Without(@, line), !.cache[t].sections = Without(@, line),
                !.progress[t] = NoLine]

\* appendWithReservedSuffix
AppendLine(body, line) ==
  IF body \in {<<>>, <<Empty>>} THEN <<line>> ELSE Append(body, line)

\* sendLiveProgress
SendLiveProgress(p, t, line) ==
  IF p.pending[t] # NoLine
  THEN SendDetailBody([p EXCEPT !.progress[t] = line], t, <<p.pending[t], line>>)
  ELSE IF p.cache[t].known
  THEN SendDetailPage(
         [p EXCEPT !.cache[t].sections = Append(Without(@, p.progress[t]), line),
                   !.progress[t] = line], t)
  ELSE LET q == ClearLiveProgress(p, t)
       IN  SendDetailBody([q EXCEPT !.progress[t] = line], t, AppendLine(q.body[t], line))

\* sendLiveProgressNow and cancelQueuedLiveProgress
CancelQueued(p, t) == [p EXCEPT !.queued[t] = NoLine]
SendLiveProgressNow(p, t, line) == SendLiveProgress(CancelQueued(p, t), t, line)

\* queueLiveProgress; the timer is armed while a line is queued.
QueueLiveProgress(p, t, line) == [p EXCEPT !.queued[t] = line]

\* handleItemCompleted
HandleItemCompleted(p, t, item) ==
  LET q == ClearLiveProgress(
             [CancelQueued(p, t) EXCEPT !.texts = IF item \in Answers THEN @ \ {t} ELSE @], t)
      known == item \in ToSet(q.cache[t].sections)
  IN  IF item \in ToSet(q.body[t]) THEN q
      ELSE IF q.pending[t] # NoLine /\ item \in Answers
      THEN SendDetailBody(q, t, <<q.pending[t], item>>)
      ELSE IF q.cache[t].known
      THEN SendDetailPage(
             [q EXCEPT !.cache[t].sections = IF known THEN @ ELSE Append(@, item)], t)
      ELSE SendDetailBody(q, t, AppendLine(q.body[t], item))

\* setActiveDetailThread, what it does to the thread it leaves
SetActiveDetailThread(p, t) ==
  IF p.active = t THEN p
  ELSE [p EXCEPT !.active = t, !.texts = @ \ {p.active},
                 !.queued = [u \in Threads |-> IF u = p.active THEN NoLine ELSE @[u]]]

-----------------------------------------------------------------------------
(* Calls and messages. *)

\* setup: its client is not ready; dead: its client is gone.
Call(kind, t, x, turn, step) ==
  [kind |-> kind, thread |-> t, text |-> x, turn |-> turn, step |-> step]

\* The answer to a call, or a notification, which answers none.
Message(kind, t, turns, x) == [kind |-> kind, thread |-> t, turns |-> turns, text |-> x]

\* A client that is left has nobody to notify: onNotification is null.
Notifications == {"started", "line", "delta", "item", "ended", "unheard"}
IsAnswer(m) == m.kind \notin Notifications

\* resolveReplyTarget: a reply waits for a read unless the thread is cached.
Asked(p, c) ==
  IF c.kind # "reply" THEN [c EXCEPT !.step = "asked"]
  ELSE IF p.cache[c.thread].known
  THEN Call("send", c.thread, c.text, p.cache[c.thread].turn, "asked")
  ELSE Call("resolve", c.thread, c.text, 0, "asked")

\* runDetailRequest and ensureDetailClient, for the active thread of phone p
\* whose client is k; cs are the calls there are.
Run(p, k, cs, c) ==
  /\ client' = IF k = "none" THEN "setup" ELSE k
  /\ calls' = cs \cup (IF k = "open" THEN {Asked(p, c)} ELSE {c})
                 \cup (IF k = "none" THEN {Call("resume", c.thread, NoLine, 0, "asked")} ELSE {})

\* closeDetailClient: a client that is still connecting takes those who wait for
\* it along; one that resumes its thread goes on until that is answered.
Abandoned ==
  {calls, {IF c.thread = phone.active /\ (c.step = "setup" \/ c.kind = "resume")
           THEN [c EXCEPT !.step = "dead"] ELSE c : c \in calls}}

\* The phone looks at thread t and asks c of it.
LookAt(t, p, c) ==
  IF t = phone.active
  THEN /\ Run(p, client, calls, c)
       /\ UNCHANGED <<wire, poll, polling, excused>>
  ELSE /\ \E cs \in IF client = "setup" THEN Abandoned ELSE {calls} : Run(p, "none", cs, c)
       /\ wire' = [i \in DOMAIN wire |-> IF IsAnswer(wire[i]) THEN wire[i]
                                        ELSE [wire[i] EXCEPT !.kind = "unheard"]]
       /\ poll' = FALSE /\ polling' = FALSE /\ excused' = {}

\* Requests of clients that are gone fail before anything else happens.
Settled == \A c \in calls : c.step # "dead"
Change == Settled /\ changes < MaxChanges /\ changes' = changes + 1

TypeOK ==
  /\ server \in [Threads -> Seq(Turn)]
  /\ phone \in [active : Threads \cup {NoThread}, order : Seq(Threads),
                cache : [Threads -> [sections : Seq(Line), known : BOOLEAN, turn : Nat]],
                pending : [Threads -> Texts \cup {NoLine}],
                progress : [Threads -> Line \cup {NoLine}],
                queued : [Threads -> Line \cup {NoLine}],
                body : [Threads -> Seq(Line)], texts : SUBSET Threads,
                shown : [thread : Threads \cup {NoThread}, body : Seq(Line)]]
  /\ client \in {"none", "setup", "resumed", "open"}
  /\ poll \in BOOLEAN /\ polling \in BOOLEAN
  /\ fresh \subseteq Threads
  /\ excused \subseteq {"failed", "late", "evicted"}
  /\ changes \in 0..MaxChanges

\* A thread is new, or was answered once.
Histories == {<<>>} \cup
  {<<[items |-> <<x, a>>, status |-> "completed"]>> : x \in Texts, a \in Answers}

Init ==
  /\ server \in [Threads -> Histories]
  /\ phone = [active |-> NoThread, order |-> <<>>,
              cache |-> [t \in Threads |-> NotCached],
              pending |-> [t \in Threads |-> NoLine],
              progress |-> [t \in Threads |-> NoLine],
              queued |-> [t \in Threads |-> NoLine],
              body |-> [t \in Threads |-> <<>>], texts |-> {},
              shown |-> [thread |-> NoThread, body |-> <<>>]]
  /\ client = "none"
  /\ calls = {} /\ wire = <<>>
  /\ poll = FALSE /\ polling = FALSE
  /\ fresh = {} /\ excused = {}
  /\ changes = 0

-----------------------------------------------------------------------------
(* Messages of the watch. *)

\* requestThreadDetail
RequestThreadDetail(t) ==
  /\ Change
  /\ phone' = SetActiveDetailThread(phone, t)
  /\ LookAt(t, phone', Call("detail", t, NoLine, 0, "setup"))
  /\ UNCHANGED <<server, fresh>>

\* submitReply and sendPendingReplyUpdate
SubmitReply(t, x) ==
  /\ Change
  /\ phone' = SendDetailBody(
                [SetActiveDetailThread(phone, t) EXCEPT !.pending[t] = x], t, <<x, Working>>)
  /\ LookAt(t, phone', Call("reply", t, x, 0, "setup"))
  /\ fresh' = IF UserText(server[t], x) THEN fresh \ {t} ELSE fresh \cup {t}
  /\ UNCHANGED server

-----------------------------------------------------------------------------
(* The app-server. *)

\* What the detail client is told, when it has resumed thread t.
Notify(t, messages) ==
  IF t = phone.active /\ client \in {"resumed", "open"}
  THEN Len(wire) + Len(messages) <= MaxWire /\ wire' = wire \o messages
  ELSE UNCHANGED wire

\* A read of the thread, or thread/resume.
AnswerRead(c) ==
  /\ Settled
  /\ c.step = "asked" /\ c.kind \in {"resume", "detail", "poll", "refresh", "resolve"}
  /\ Len(wire) < MaxWire
  /\ calls' = calls \ {c}
  /\ wire' = Append(wire, Message(c.kind, c.thread, server[c.thread], c.text))
  /\ client' = IF c.kind = "resume" /\ c.thread = phone.active /\ client = "setup"
               THEN "resumed" ELSE client
  /\ UNCHANGED <<server, phone, poll, polling, fresh, excused, changes>>

\* turn/steer into the turn that runs, or turn/start: a message in a turn that
\* runs is added to it.
AnswerSend(c) ==
  LET running == LatestInProgressTurn(server[c.thread])
      sent == <<Message("sent", c.thread, <<>>, c.text)>>
      item == <<Message("item", c.thread, <<>>, c.text)>>
      told == c.thread = phone.active /\ client \in {"resumed", "open"}
  IN  /\ Settled
      /\ c.step = "asked" /\ c.kind = "send"
      /\ calls' = calls \ {c}
      /\ Len(wire) + 3 <= MaxWire
      /\ \/ /\ c.turn \in {0, running} /\ running # 0
            /\ server' = [server EXCEPT ![c.thread][running].items = Append(@, c.text)]
            /\ wire' = wire \o sent \o (IF told THEN item ELSE <<>>)
         \/ /\ c.turn = 0 /\ running = 0 /\ Len(server[c.thread]) < MaxTurns
            /\ server' = [server EXCEPT ![c.thread] =
                            Append(@, [items |-> <<c.text>>, status |-> "inProgress"])]
            /\ wire' = wire \o sent
                         \o (IF told THEN <<Message("started", c.thread, <<>>, NoLine)>> \o item
                             ELSE <<>>)
         \/ /\ c.turn # running
            /\ wire' = Append(wire, Message("refused", c.thread, <<>>, c.text))
            /\ UNCHANGED server
      /\ UNCHANGED <<phone, client, poll, polling, fresh, excused, changes>>

\* A turn of another client starts.
TurnStarts(t) ==
  /\ Change
  /\ LatestInProgressTurn(server[t]) = 0 /\ Len(server[t]) < MaxTurns
  /\ server' = [server EXCEPT ![t] = Append(@, [items |-> <<>>, status |-> "inProgress"])]
  /\ Notify(t, <<Message("started", t, <<>>, NoLine)>>)
  /\ UNCHANGED <<phone, client, calls, poll, polling, fresh, excused>>

\* An item of the running turn is completed.
ItemCompletes(t, a) ==
  LET running == LatestInProgressTurn(server[t]) IN
  /\ Change
  /\ running # 0 /\ a \notin ToSet(ThreadSections(server[t]))
  /\ server' = [server EXCEPT ![t][running].items = Append(@, a)]
  /\ Notify(t, <<Message("item", t, <<>>, a)>>)
  /\ UNCHANGED <<phone, client, calls, poll, polling, fresh, excused>>

\* Progress of the running turn, or a change of the thread's status.
Progresses(t, kind) ==
  /\ Change
  /\ t = phone.active /\ client \in {"resumed", "open"}
  /\ LatestInProgressTurn(server[t]) # 0 \/ (kind = "line" /\ server[t] # <<>>)
  /\ Notify(t, <<Message(kind, t, <<>>, NoLine)>>)
  /\ UNCHANGED <<server, phone, client, calls, poll, polling, fresh, excused>>

\* The running turn ends; the notification need not carry its items.
TurnEnds(t, status) ==
  LET running == LatestInProgressTurn(server[t])
      turn == [server[t][running] EXCEPT !.status = status]
  IN  /\ Change
      /\ running # 0 /\ status # "inProgress"
      /\ server' = [server EXCEPT ![t][running] = turn]
      /\ \E items \in {turn.items, <<>>} :
           Notify(t, <<Message("ended", t, <<[turn EXCEPT !.items = items]>>, NoLine)>>)
      /\ UNCHANGED <<phone, client, calls, poll, polling, fresh, excused>>

-----------------------------------------------------------------------------
(* The phone: what an answer or a notification does. *)

\* scheduleDetailPoll
ScheduleDetailPoll(t) == poll' = (poll \/ t = phone.active)

\* threadNeedsFollowup and detailNeedsFollowup: app-server calls a thread active
\* while a turn of it is in progress.
DetailNeedsFollowup(p, t, turns) == LatestInProgressTurn(turns) # 0 \/ p.pending[t] # NoLine

\* The thread as it was read is all that is shown; what changes it later is heard
\* of while its client is there.
Excused(t) == IF t = phone.active /\ client # "none" THEN {} ELSE excused

FailedFor(t) == IF t = phone.active THEN excused \cup {"failed"} ELSE excused

\* The client of thread t is ready.
Resumed(t, turns) ==
  /\ phone' = SendDetailUpdate(phone, t, turns)
  /\ client' = IF t = phone.active /\ client = "resumed" THEN "open" ELSE client
  /\ calls' = {IF c.thread = t /\ c.step = "setup" THEN Asked(phone', c) ELSE c : c \in calls}
  /\ excused' = Excused(t)
  /\ UNCHANGED <<server, poll, polling, fresh>>

DetailRead(t, turns) ==
  /\ phone' = SendDetailUpdate(phone, t, turns)
  /\ IF LatestInProgressTurn(turns) # 0 THEN ScheduleDetailPoll(t) ELSE UNCHANGED poll
  /\ excused' = Excused(t)
  /\ UNCHANGED <<server, client, calls, polling, fresh>>

\* pollThreadDetail; a poll without followup syncs the list.
Polled(t, turns) ==
  /\ polling' = FALSE
  /\ IF t = phone.active
     THEN /\ phone' = SendDetailUpdateIfChanged(phone, t, turns)
          /\ poll' = (poll \/ DetailNeedsFollowup(phone', t, turns))
     ELSE UNCHANGED <<phone, poll>>
  /\ UNCHANGED <<server, client, calls, fresh, excused>>

\* handleTurnCompleted, once the thread is read
Refreshed(t, turns) ==
  /\ IF t = phone.active
     THEN phone' = SendDetailUpdate(phone, t, turns) /\ excused' = Excused(t)
     ELSE UNCHANGED <<phone, excused>>
  /\ UNCHANGED <<server, client, calls, poll, polling, fresh>>

\* resolveReplyTarget, once the thread is read; it may evict the active thread,
\* and the reply that is pending with it.
Resolved(t, turns, x) ==
  /\ phone' = CacheThreadDetail(phone, t, turns)
  /\ calls' = calls \cup {Call("send", t, x, LatestInProgressTurn(turns), "asked")}
  /\ excused' = IF \E u \in Threads \ {t} : u = phone.active /\ phone'.pending[u] # phone.pending[u]
                THEN excused \cup {"evicted"} ELSE excused
  /\ UNCHANGED <<server, client, poll, polling, fresh>>

\* submitReply, once the reply was taken
Sent(t) ==
  /\ ScheduleDetailPoll(t)
  /\ UNCHANGED <<server, phone, client, calls, polling, fresh, excused>>

\* submitReply, after a failure: sendFailedReplyUpdate
ReplyFailed(t, x) == phone' = SendDetailBody(phone, t, <<x, Failed>>)

\* handleCodexNotification; only the active thread's are handled.
Notified(m) ==
  LET t == m.thread IN
  /\ CASE m.kind = "started" -> phone' = SendLiveProgressNow(phone, t, Working)
       [] m.kind = "line" -> phone' = QueueLiveProgress(phone, t, Progress)
       [] m.kind = "delta" ->
            phone' = [QueueLiveProgress(phone, t, Progress) EXCEPT !.texts = @ \cup {t}]
       [] m.kind = "item" -> phone' = HandleItemCompleted(phone, t, m.text)
       [] m.kind = "unheard" -> UNCHANGED phone
  /\ UNCHANGED <<server, client, calls, poll, polling, fresh, excused>>

\* Mutant: the thread is not read when its turn completes.
TurnCompletedWithoutRead(t, turns) ==
  /\ phone' = SendDetailUpdate(
                [ClearLiveProgress(phone, t) EXCEPT !.texts = @ \ {t}], t, turns)
  /\ UNCHANGED <<server, client, calls, poll, polling, fresh, excused>>

\* handleTurnCompleted: what is queued stays queued.
HandleTurnCompleted(t, turns) ==
  /\ phone' = SendDetailUpdate(
                [ClearLiveProgress(phone, t) EXCEPT !.texts = @ \ {t}], t, turns)
  /\ Run(phone', client, calls, Call("refresh", t, NoLine, 0, "setup"))
  /\ UNCHANGED <<server, poll, polling, fresh, excused>>

Deliver ==
  /\ Settled
  /\ wire # <<>> /\ wire' = Tail(wire)
  /\ LET m == Head(wire) IN
     CASE m.kind = "resume" -> Resumed(m.thread, m.turns)
       [] m.kind = "detail" -> DetailRead(m.thread, m.turns)
       [] m.kind = "poll" -> Polled(m.thread, m.turns)
       [] m.kind = "refresh" -> Refreshed(m.thread, m.turns)
       [] m.kind = "resolve" -> Resolved(m.thread, m.turns, m.text)
       [] m.kind = "sent" -> Sent(m.thread)
       [] m.kind = "refused" ->
            /\ ReplyFailed(m.thread, m.text) /\ excused' = FailedFor(m.thread)
            /\ UNCHANGED <<server, client, calls, poll, polling, fresh>>
       [] m.kind = "ended" -> HandleTurnCompleted(m.thread, m.turns)
       [] OTHER -> Notified(m)
  /\ UNCHANGED changes

-----------------------------------------------------------------------------
(* The phone: timers and failures. *)

\* The flush timer of queueLiveProgress, which only the active thread has.
FlushLiveProgress(t) ==
  /\ Settled
  /\ phone.queued[t] # NoLine
  /\ phone' = LET q == CancelQueued(phone, t)
              IN  IF t = phone.active THEN SendLiveProgress(q, t, phone.queued[t]) ELSE q
  /\ excused' = IF LatestInProgressTurn(server[t]) = 0 THEN excused \cup {"late"} ELSE excused
  /\ UNCHANGED <<server, client, calls, wire, poll, polling, fresh, changes>>

\* pollThreadDetail: it waits for the last poll.
PollThreadDetail ==
  /\ Settled
  /\ poll /\ ~polling
  /\ poll' = FALSE /\ polling' = TRUE
  /\ Run(phone, client, calls, Call("poll", phone.active, NoLine, 0, "setup"))
  /\ UNCHANGED <<server, phone, wire, fresh, excused, changes>>

\* DETAIL_POLL_MAX_ATTEMPTS is reached; the list is synced instead.
PollingStops ==
  /\ Change
  /\ poll /\ poll' = FALSE
  /\ UNCHANGED <<server, phone, client, calls, wire, polling, fresh, excused>>

\* A call fails because its client is gone, it times out, or it is refused.
CallFails(c) ==
  /\ IF c.step = "dead" THEN UNCHANGED changes ELSE Change /\ c.step = "asked"
  /\ calls' = LET others == calls \ {c} IN
              IF c.kind = "resume"
              THEN {IF d.thread = c.thread /\ d.step = "setup" THEN [d EXCEPT !.step = "dead"]
                    ELSE d : d \in others}
              ELSE others
  /\ client' = IF c.kind = "resume" /\ c.step = "asked" /\ c.thread = phone.active
               THEN "none" ELSE client
  /\ IF c.kind \in {"reply", "resolve", "send"} THEN ReplyFailed(c.thread, c.text)
     ELSE UNCHANGED phone
  /\ polling' = (polling /\ c.kind # "poll")
  /\ poll' = (poll \/ /\ c.thread = phone.active
                      /\ c.kind = "poll" \/ (c.kind = "refresh" /\ phone.pending[c.thread] # NoLine))
  /\ excused' = FailedFor(c.thread)
  /\ UNCHANGED <<server, wire, fresh>>

\* The connection breaks: notifications are lost, calls fail.
ConnectionLost ==
  /\ Change
  /\ client # "none" /\ client' = "none"
  /\ \A i \in DOMAIN wire : ~IsAnswer(wire[i])
  /\ wire' = <<>>
  /\ calls' = {IF c.thread = phone.active THEN [c EXCEPT !.step = "dead"] ELSE c : c \in calls}
  /\ excused' = excused \cup {"failed"}
  /\ UNCHANGED <<server, phone, poll, polling, fresh>>

-----------------------------------------------------------------------------
Next ==
  \/ \E t \in Threads :
       \/ RequestThreadDetail(t) \/ \E x \in Texts : SubmitReply(t, x)
       \/ TurnStarts(t) \/ \E a \in Answers : ItemCompletes(t, a)
       \/ \E kind \in {"line", "delta"} : Progresses(t, kind)
       \/ \E status \in {"completed", "interrupted"} : TurnEnds(t, status)
       \/ FlushLiveProgress(t)
  \/ \E c \in calls : AnswerRead(c) \/ AnswerSend(c) \/ CallFails(c)
  \/ Deliver
  \/ PollThreadDetail \/ PollingStops \/ ConnectionLost

Spec == Init /\ [][Next]_vars

-----------------------------------------------------------------------------
(* Properties. *)

\* Nothing is under way for the active thread and its last turn is over.
Quiet ==
  /\ phone.active # NoThread
  /\ calls = {} /\ wire = <<>>
  /\ LatestInProgressTurn(server[phone.active]) = 0

\* The phone's memory of threads is bounded: what it keeps of a thread that is
\* not the active one it keeps only of the last CacheLimit threads it showed, so
\* that rememberDetailThread evicts it (pruneDetailThread).
KeptIsRemembered ==
  /\ Len(phone.order) <= CacheLimit
  /\ \A t \in Threads \ ToSet(phone.order) :
       /\ phone.cache[t] = NotCached /\ phone.pending[t] = NoLine
       /\ phone.progress[t] = NoLine /\ phone.body[t] = <<>>
       /\ t # phone.active => phone.queued[t] = NoLine /\ t \notin phone.texts

\* While a reply is pending, what is shown of its thread has the reply in it,
\* whatever reads that do not know of it yet, notifications and failures come
\* between (detailSections, sendLiveProgress, handleItemCompleted); unless what
\* is shown is another reply's failure, or its item that was completed.
PendingReplyIsShown ==
  [][\A t \in Threads :
       phone'.shown # phone.shown /\ phone'.shown.thread = t /\ phone'.pending[t] # NoLine =>
         \/ phone'.pending[t] \in ToSet(phone'.shown.body)
         \/ \E y \in Texts \ {phone'.pending[t]} :
              \/ phone'.shown.body = <<y, Failed>>
              \/ wire # <<>> /\ Head(wire) = Message("item", t, <<>>, y)]_vars

\* A pending reply that said something new is forgotten only because the
\* app-server has it, another reply replaces it or its thread is evicted: a read
\* that is older than the reply never ends the wait (reconcilePendingReply).
ReplyOutlivesStaleReads ==
  [][\A t \in fresh :
       phone.pending[t] # NoLine /\ phone'.pending[t] = NoLine =>
         \/ UserText(server[t], phone.pending[t])
         \/ t \notin ToSet(phone'.order)]_vars

\* When nothing is under way any more, the watch was last sent the thread as the
\* app-server has it; unless a request failed or the connection was lost and the
\* thread was not read since, a line of progress was shown after its turn had
\* ended (handleTurnCompleted does not cancel it), another thread was shown since
\* (requestThreadDetail), a reply that failed is still pending (submitReply), or
\* the read of another thread evicted the active one with its reply
\* (rememberDetailThread).
QuietIsCurrent ==
  Quiet /\ excused = {} /\ phone.shown.thread = phone.active /\ phone.pending[phone.active] = NoLine =>
    phone.shown.body = ThreadSections(server[phone.active])

\* A reply that failed, and that app-server never had, is shown as failed as long
\* as its thread is shown and the reply is kept: what a test of the repository
\* calls "keeps failed dictated replies visible for retry" (submitReply).  The
\* code shows a failed reply like one that is under way (detailSections).
FailedReplyIsVisible ==
  \A t \in Threads :
    (/\ phone.pending[t] # NoLine /\ ~UserText(server[t], phone.pending[t])
     /\ ~\E c \in calls : c.thread = t /\ c.kind \in {"reply", "resolve", "send"}
     /\ ~\E i \in DOMAIN wire : wire[i].thread = t /\ wire[i].kind \in {"resolve", "sent", "refused"}
     /\ phone.shown.thread = t)
    => Failed \in ToSet(phone.shown.body)

=============================================================================
