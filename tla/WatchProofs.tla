----------------------------- MODULE WatchProofs -----------------------------
(***************************************************************************)
(* Proofs about the watch app, for every set of threads, texts and kinds   *)
(* of rows, every size of the table, and a phone that may send anything.   *)
(***************************************************************************)
EXTENDS Watch, SequenceTheorems, TLAPS

(***************************************************************************)
(* The inductive invariant, in three parts: the table with its selection,  *)
(* the reply, and everything else.                                         *)
(***************************************************************************)
RowsInv ==
  /\ jobs \in Seq(Job) /\ Len(jobs) <= MaxJobs
  /\ selectedJob \in 0..MaxJobs
  /\ selectedId \in Threads \cup {NoThread}
  /\ SelectionIsStable

ReplyInv == reply \in Reply /\ ReplyIsKept

AnyMessage == [type : MessageTypes, thread : Threads \cup {NoThread}, text : Texts \cup {NoText}]

RestInv ==
  /\ hasSettings \in BOOLEAN /\ receivedState \in BOOLEAN
  /\ syncState \in SyncStates
  /\ hasMore \in BOOLEAN
  /\ detailOpen \in BOOLEAN /\ dictating \in BOOLEAN
  /\ readyTimer \in BOOLEAN
  /\ outbox = NoMessage \/ outbox \in AnyMessage

IInv == RowsInv /\ ReplyInv /\ RestInv

\* The rows of a table are distinct, index by index.
LEMMA Distinct ==
  ASSUME RowsInv
  PROVE  /\ Len(jobs) \in Nat
         /\ \A i \in 1..Len(jobs) : jobs[i] \in Job
         /\ \A i, k \in 1..Len(jobs) : jobs[i].id = jobs[k].id => i = k
  BY LenProperties, ElementOfSeq DEF RowsInv, SelectionIsStable, IsInjective

\* What prv_find_job_by_id finds, or that there is nothing to find.
LEMMA FindJobProperties ==
  ASSUME RowsInv, NEW id
  PROVE  \/ /\ FindJob(id) = 0
            /\ \A i \in 1..Len(jobs) : jobs[i].id # id
         \/ /\ FindJob(id) \in 1..Len(jobs)
            /\ jobs[FindJob(id)].id = id
<1>1. CASE \A i \in 1..Len(jobs) : jobs[i].id # id
  BY <1>1 DEF FindJob
<1>2. CASE \E i \in 1..Len(jobs) : jobs[i].id = id
  <2>1. PICK i \in 1..Len(jobs) : jobs[i].id = id
    BY <1>2
  <2>2. \A k \in 1..(i - 1) : jobs[k].id # id
    BY <2>1, Distinct
  <2>3. \E k \in 1..Len(jobs) :
          jobs[k].id = id /\ \A m \in 1..(k - 1) : jobs[m].id # id
    BY <2>1, <2>2
  <2>4. FindJob(id) = CHOOSE k \in 1..Len(jobs) :
          jobs[k].id = id /\ \A m \in 1..(k - 1) : jobs[m].id # id
    BY <1>2 DEF FindJob
  <2> QED
    BY <2>3, <2>4
<1> QED
  BY <1>1, <1>2

\* The selected row, if there is one, is the thread that was opened.
LEMMA SelectedJobProperties ==
  ASSUME RowsInv
  PROVE  \/ SelectedJob = 0
         \/ /\ SelectedJob \in 1..Len(jobs)
            /\ jobs[SelectedJob].id = selectedId
            /\ selectedId \in Threads
<1>1. CASE selectedJob \in 1..Len(jobs)
  BY <1>1, Distinct DEF SelectedJob, RowsInv, SelectionIsStable, Job
<1>2. CASE selectedJob \notin 1..Len(jobs)
  BY <1>2, Distinct, FindJobProperties DEF SelectedJob, Job
<1> QED
  BY <1>1, <1>2

-----------------------------------------------------------------------------
(* The table. *)

\* A table whose rows keep their threads keeps its invariant.
LEMMA SameThreads ==
  ASSUME RowsInv,
         NEW rows \in Seq(Job), Len(rows) = Len(jobs),
         \A i \in 1..Len(jobs) : rows[i].id = jobs[i].id,
         NEW sel \in 0..MaxJobs, NEW id \in Threads \cup {NoThread},
         sel # 0 => sel <= Len(jobs) /\ jobs[sel].id = id,
         jobs' = rows, selectedJob' = sel, selectedId' = id
  PROVE  RowsInv'
<1>1. \A i, k \in 1..Len(rows) : rows[i].id = rows[k].id => i = k
  BY Distinct
<1>2. IsInjective([i \in 1..Len(rows) |-> rows[i].id])
  BY <1>1 DEF IsInjective
<1>3. sel # 0 => sel <= Len(rows) /\ rows[sel].id = id
  BY Distinct
<1> QED
  BY <1>2, <1>3 DEF RowsInv, SelectionIsStable

\* No rows, no selected row.
LEMMA ClearedRows ==
  ASSUME ClearJobs, selectedId' \in Threads \cup {NoThread}
  PROVE  RowsInv'
<1>1. jobs' = <<>> /\ selectedJob' = 0
  BY DEF ClearJobs
<1>2. <<>> \in Seq(Job) /\ Len(<<>>) = 0
  BY EmptySeq
<1>3. IsInjective([i \in 1..Len(<<>>) |-> <<>>[i].id])
  BY <1>2 DEF IsInjective
<1> QED
  BY <1>1, <1>2, <1>3, MaxJobsAssumption DEF RowsInv, SelectionIsStable

\* A row that the table does not have joins its end.
LEMMA AppendedRow ==
  ASSUME RowsInv, NEW id \in Threads, NEW kind \in Kinds,
         FindJob(id) = 0, Len(jobs) < MaxJobs,
         jobs' = Append(jobs, NewJob(id, kind)),
         selectedJob' = (IF id = selectedId THEN Len(jobs) + 1 ELSE selectedJob),
         selectedId' = selectedId
  PROVE  RowsInv'
<1> DEFINE n == Len(jobs)
           new == NewJob(id, kind)
<1>1. n \in Nat /\ jobs \in Seq(Job) /\ new \in Job /\ new.id = id
  BY Distinct DEF RowsInv, NewJob, Job
<1>2. \A i \in 1..n : jobs[i].id # id
  BY <1>1, FindJobProperties
<1>3. /\ jobs' \in Seq(Job) /\ Len(jobs') = n + 1
      /\ \A i \in 1..n : jobs'[i] = jobs[i]
      /\ jobs'[n + 1] = new
  BY <1>1, AppendProperties
<1>4. \A i, k \in 1..(n + 1) : jobs'[i].id = jobs'[k].id => i = k
  <2> SUFFICES ASSUME NEW i \in 1..(n + 1), NEW k \in 1..(n + 1), jobs'[i].id = jobs'[k].id
               PROVE  i = k
    OBVIOUS
  <2>1. CASE i \in 1..n /\ k \in 1..n
    BY <2>1, <1>3, Distinct
  <2>2. CASE i = n + 1 \/ k = n + 1
    <3>1. i \in 1..n => jobs'[i].id # id
      BY <1>2, <1>3
    <3>2. k \in 1..n => jobs'[k].id # id
      BY <1>2, <1>3
    <3>3. jobs'[n + 1].id = id
      BY <1>1, <1>3
    <3> QED
      BY <2>2, <3>1, <3>2, <3>3, <1>1
  <2> QED
    BY <2>1, <2>2, <1>1
<1>5. IsInjective([i \in 1..Len(jobs') |-> jobs'[i].id])
  BY <1>3, <1>4 DEF IsInjective
<1>6. /\ selectedJob' \in 0..MaxJobs
      /\ selectedJob' # 0 => selectedJob' <= n + 1 /\ jobs'[selectedJob'].id = selectedId
  <2>1. CASE id = selectedId
    BY <2>1, <1>1, <1>3, MaxJobsAssumption
  <2>2. CASE id # selectedId
    BY <2>2, <1>1, <1>3 DEF RowsInv, SelectionIsStable
  <2> QED
    BY <2>1, <2>2
<1>7. Len(jobs') <= MaxJobs
  BY <1>1, <1>3, MaxJobsAssumption
<1> QED
  BY <1>3, <1>5, <1>6, <1>7 DEF RowsInv, SelectionIsStable

\* Whatever a row item finds, the table keeps its invariant.
LEMMA JobItemRows ==
  ASSUME RowsInv, NEW id \in Threads, NEW kind \in Kinds, NEW state, JobItem(id, kind, state)
  PROVE  RowsInv'
<1>1. selectedId' = selectedId
  BY DEF JobItem
<1>2. CASE FindJob(id) = 0 /\ UNCHANGED <<jobs, selectedJob>>
  BY <1>1, <1>2 DEF RowsInv, SelectionIsStable
<1>3. CASE FindJob(id) = 0 /\ ~UNCHANGED <<jobs, selectedJob>>
  BY <1>1, <1>3, AppendedRow DEF JobItem
<1>4. CASE FindJob(id) # 0
  <2> DEFINE i == FindJob(id)
             row == UpdatedJob(jobs[i], kind)
  <2>1. i \in 1..Len(jobs) /\ jobs[i].id = id
    BY <1>4, FindJobProperties
  <2> HIDE DEF i
  <2>2. jobs[i] \in Job /\ jobs \in Seq(Job) /\ Len(jobs) \in Nat
    BY <2>1, Distinct DEF RowsInv
  <2>3. row \in Job /\ row.id = jobs[i].id
    BY <2>2, Zenon DEF UpdatedJob, Job
  <2>4. jobs' = [jobs EXCEPT ![i] = row]
        /\ selectedJob' = IF id = selectedId THEN i ELSE selectedJob
    BY <1>4 DEF JobItem, i
  <2> HIDE DEF row
  <2>5. /\ jobs' \in Seq(Job) /\ Len(jobs') = Len(jobs)
        /\ \A k \in 1..Len(jobs) : jobs'[k] = IF k = i THEN row ELSE jobs[k]
    BY <2>1, <2>2, <2>3, <2>4, ExceptSeq
  <2>6. \A k \in 1..Len(jobs) : jobs'[k].id = jobs[k].id
    BY <2>3, <2>5
  <2>7. selectedJob' \in 0..MaxJobs
        /\ (selectedJob' # 0 => selectedJob' <= Len(jobs) /\ jobs[selectedJob'].id = selectedId)
    BY <2>1, <2>2, <2>4, MaxJobsAssumption DEF RowsInv, SelectionIsStable
  <2>8. selectedId \in Threads \cup {NoThread}
    BY DEF RowsInv
  <2> QED
    BY <1>1, <2>5, <2>6, <2>7, <2>8, SameThreads
<1> QED
  BY <1>2, <1>3, <1>4

\* A detail that arrives changes no row's thread.
LEMMA DetailUpdateRows ==
  ASSUME RowsInv, NEW id \in Threads, NEW state, DetailUpdate(id, state)
  PROVE  RowsInv'
<1>1. DOMAIN jobs = 1..Len(jobs) /\ Len(jobs) \in Nat
  BY LenProperties DEF RowsInv
<1>2. jobs' = [i \in 1..Len(jobs) |->
                IF i = FindJob(id) THEN [jobs[i] EXCEPT !.unread = FALSE] ELSE jobs[i]]
  BY <1>1 DEF DetailUpdate
<1>3. \A i \in 1..Len(jobs) : jobs'[i] \in Job /\ jobs'[i].id = jobs[i].id
  BY <1>2, Distinct, Zenon DEF Job
<1>4. jobs' \in Seq(Job) /\ Len(jobs') = Len(jobs)
  BY <1>1, <1>2, <1>3, IsASeq, LenProperties
<1>5. selectedJob' = selectedJob /\ selectedId' = selectedId
  BY DEF DetailUpdate
<1>6. /\ selectedJob \in 0..MaxJobs /\ selectedId \in Threads \cup {NoThread}
      /\ selectedJob # 0 => selectedJob <= Len(jobs) /\ jobs[selectedJob].id = selectedId
  BY DEF RowsInv, SelectionIsStable
<1> QED
  BY <1>3, <1>4, <1>5, <1>6, SameThreads

\* Opening a thread selects its row.
LEMMA SelectJobRows ==
  ASSUME RowsInv, NEW i \in 1..Len(jobs), SelectJob(i)
  PROVE  RowsInv'
<1> DEFINE row == [jobs[i] EXCEPT !.unread = FALSE]
<1>1. jobs[i] \in Job /\ jobs \in Seq(Job) /\ Len(jobs) \in Nat /\ Len(jobs) <= MaxJobs
  BY Distinct DEF RowsInv
<1>2. row \in Job /\ row.id = jobs[i].id /\ jobs[i].id \in Threads
  BY <1>1, Zenon DEF Job
<1>3. jobs' = [jobs EXCEPT ![i] = row] /\ selectedJob' = i /\ selectedId' = jobs[i].id
  BY DEF SelectJob
<1> HIDE DEF row
<1>4. /\ jobs' \in Seq(Job) /\ Len(jobs') = Len(jobs)
      /\ \A k \in 1..Len(jobs) : jobs'[k] = IF k = i THEN row ELSE jobs[k]
  BY <1>1, <1>2, <1>3, ExceptSeq
<1>5. \A k \in 1..Len(jobs) : jobs'[k].id = jobs[k].id
  BY <1>2, <1>4
<1>6. i \in 0..MaxJobs /\ i <= Len(jobs)
  BY <1>1, MaxJobsAssumption
<1> QED
  BY <1>2, <1>3, <1>4, <1>5, <1>6, SameThreads

-----------------------------------------------------------------------------
(* The reply and the outbox. *)

\* Offering a retry keeps the words of the reply.
LEMMA RetryMarkedKeeps ==
  ASSUME NEW r \in Reply, r.inFlight \/ r.retry => r.thread # NoThread /\ r.text # NoText,
         ~(r.inFlight /\ r.retry)
  PROVE  /\ RetryMarked(r) \in Reply
         /\ ~(RetryMarked(r).inFlight /\ RetryMarked(r).retry)
         /\ RetryMarked(r).inFlight \/ RetryMarked(r).retry =>
              RetryMarked(r).thread # NoThread /\ RetryMarked(r).text # NoText
  BY DEF RetryMarked, Reply

\* A reply that was cleared says nothing.
LEMMA ClearedReply == NoReply \in Reply /\ ~NoReply.inFlight /\ ~NoReply.retry
  BY DEF NoReply, Reply

\* A reply that is sent, or kept because the outbox is busy.
LEMMA SendReplyKeeps ==
  ASSUME NEW thread \in Threads, NEW text \in Texts, SendReply(thread, text), RestInv
  PROVE  ReplyInv' /\ (outbox' = NoMessage \/ outbox' \in AnyMessage)
<1> DEFINE r == [thread |-> thread, text |-> text, inFlight |-> TRUE, retry |-> FALSE]
<1>1. r \in Reply /\ r.thread # NoThread /\ r.text # NoText /\ ~(r.inFlight /\ r.retry)
  BY NoThreadAssumption, TextsAssumption DEF Reply, NoText
<1>2. reply' = IF outbox = NoMessage THEN r ELSE RetryMarked(r)
  BY DEF SendReply
<1> HIDE DEF r
<1>3. ReplyInv'
  BY <1>1, <1>2, RetryMarkedKeeps DEF ReplyInv, ReplyIsKept
<1>4. outbox' = NoMessage \/ outbox' \in AnyMessage
  BY DEF SendReply, Send, Msg, RestInv, AnyMessage, MessageTypes
<1> QED
  BY <1>3, <1>4

\* The reply that may be retried is one of a thread and has a text.
LEMMA RetriedReply ==
  ASSUME RowsInv, ReplyInv, CanRetry
  PROVE  reply.thread \in Threads /\ reply.text \in Texts /\ reply.thread = selectedId
<1>1. reply.retry /\ jobs[SelectedJob].id = reply.thread /\ SelectedJob # 0
  BY DEF CanRetry
<1>2. reply.thread = selectedId /\ selectedId \in Threads
  BY <1>1, SelectedJobProperties
<1> QED
  BY <1>1, <1>2 DEF ReplyInv, ReplyIsKept, Reply

\* A reply that was dictated is for the thread that is open.
LEMMA DictatedReply ==
  ASSUME RowsInv, ReplyThread # NoThread
  PROVE  ReplyThread \in Threads /\ ReplyThread = selectedId
  BY SelectedJobProperties DEF ReplyThread, RowsInv

-----------------------------------------------------------------------------
(***************************************************************************)
(* The invariant holds at first, and every handler keeps it.               *)
(***************************************************************************)
LEMMA InitIInv == Init => IInv
<1> SUFFICES ASSUME Init PROVE IInv
  OBVIOUS
<1>1. RowsInv
  <2>1. jobs = <<>> /\ selectedJob = 0 /\ selectedId = NoThread
    BY DEF Init
  <2>2. <<>> \in Seq(Job) /\ Len(<<>>) = 0
    BY EmptySeq
  <2>3. IsInjective([i \in 1..Len(<<>>) |-> <<>>[i].id])
    BY <2>2 DEF IsInjective
  <2> QED
    BY <2>1, <2>2, <2>3, MaxJobsAssumption DEF RowsInv, SelectionIsStable
<1>2. ReplyInv
  BY DEF Init, ReplyInv, ReplyIsKept, NoReply, Reply
<1>3. RestInv
  BY DEF Init, RestInv, SyncStates
<1> QED
  BY <1>1, <1>2, <1>3 DEF IInv

\* What is not touched keeps its part of the invariant.
LEMMA RowsStutter ==
  ASSUME RowsInv, UNCHANGED <<jobs, selectedJob, selectedId>> PROVE RowsInv'
  BY DEF RowsInv, SelectionIsStable

LEMMA ReplyStutter == ASSUME ReplyInv, UNCHANGED reply PROVE ReplyInv'
  BY DEF ReplyInv, ReplyIsKept

\* The messages of the phone.
LEMMA InboxIInv == ASSUME IInv, InboxReceived PROVE IInv'
<1> USE DEF IInv
<1>1. ASSUME NEW has \in BOOLEAN,
             SettingsState(has, IF has THEN "syncing" ELSE "desynced")
      PROVE  IInv'
  <2>1. RowsInv'
    <3>1. CASE has
      BY <1>1, <3>1, RowsStutter DEF SettingsState
    <3>2. CASE ~has
      BY <1>1, <3>2, ClearedRows DEF SettingsState
    <3> QED
      BY <3>1, <3>2
  <2>2. ReplyInv'
    BY <1>1, ReplyStutter DEF SettingsState
  <2>3. RestInv'
    BY <1>1 DEF SettingsState, RestInv, SyncStates, detailVars, ClearJobs
  <2> QED
    BY <2>1, <2>2, <2>3
<1>2. ASSUME NEW replySent \in BOOLEAN, NEW state \in SyncStates, SyncStatus(replySent, state)
      PROVE  IInv'
  <2>1. RowsInv'
    BY <1>2, RowsStutter DEF SyncStatus, listVars
  <2>2. ReplyInv'
    <3>1. CASE replySent
      <4>1. reply' = NoReply
        BY <1>2, <3>1 DEF SyncStatus, ClearReplyState
      <4> QED
        BY <4>1, ClearedReply DEF ReplyInv, ReplyIsKept
    <3>2. CASE ~replySent
      BY <1>2, <3>2, ReplyStutter DEF SyncStatus
    <3> QED
      BY <3>1, <3>2
  <2>3. RestInv'
    BY <1>2 DEF SyncStatus, RestInv, listVars, detailVars
  <2> QED
    BY <2>1, <2>2, <2>3
<1>3. ASSUME JobClear("syncing") PROVE IInv'
  <2>1. RowsInv'
    BY <1>3, ClearedRows DEF JobClear, RowsInv
  <2>2. ReplyInv'
    BY <1>3, ReplyStutter DEF JobClear
  <2>3. RestInv'
    BY <1>3 DEF JobClear, ClearJobs, RestInv, SyncStates, detailVars
  <2> QED
    BY <2>1, <2>2, <2>3
<1>4. ASSUME NEW id \in Threads, NEW kind \in Kinds, JobItem(id, kind, "syncing")
      PROVE  IInv'
  <2>1. RowsInv'
    BY <1>4, JobItemRows
  <2>2. ReplyInv'
    BY <1>4, ReplyStutter DEF JobItem
  <2>3. RestInv'
    BY <1>4 DEF JobItem, RestInv, SyncStates, detailVars
  <2> QED
    BY <2>1, <2>2, <2>3
<1>5. ASSUME NEW more \in BOOLEAN, JobComplete(more, "synced") PROVE IInv'
  <2>1. RowsInv'
    BY <1>5, RowsStutter DEF JobComplete
  <2>2. ReplyInv'
    BY <1>5, ReplyStutter DEF JobComplete
  <2>3. RestInv'
    BY <1>5 DEF JobComplete, RestInv, SyncStates, detailVars
  <2> QED
    BY <2>1, <2>2, <2>3
<1>6. ASSUME NEW id \in Threads, NEW state \in {"syncing", "synced"}, DetailUpdate(id, state)
      PROVE  IInv'
  <2>1. RowsInv'
    BY <1>6, DetailUpdateRows
  <2>2. ReplyInv'
    BY <1>6, ReplyStutter DEF DetailUpdate
  <2>3. RestInv'
    BY <1>6 DEF DetailUpdate, RestInv, SyncStates, detailVars
  <2> QED
    BY <2>1, <2>2, <2>3
<1>7. ASSUME ErrorReceived PROVE IInv'
  <2>1. RowsInv'
    BY <1>7, RowsStutter DEF ErrorReceived, listVars
  <2>2. ReplyInv'
    BY <1>7, RetryMarkedKeeps DEF ErrorReceived, ReplyInv, ReplyIsKept
  <2>3. RestInv'
    BY <1>7 DEF ErrorReceived, RestInv, SyncStates, listVars, detailVars
  <2> QED
    BY <2>1, <2>2, <2>3
<1>8. "syncing" \in SyncStates
  BY DEF SyncStates
<1> HIDE DEF IInv
<1> QED
  BY <1>1, <1>2, <1>3, <1>4, <1>5, <1>6, <1>7, <1>8 DEF InboxReceived

\* The outbox and the timer.
LEMMA OutboxIInv ==
  ASSUME IInv, InboxDropped \/ OutboxSent \/ OutboxFailed \/ ReadyTimerFires
  PROVE  IInv'
<1> USE DEF IInv
<1>1. RowsInv'
  BY RowsStutter DEF InboxDropped, OutboxSent, OutboxFailed, ReadyTimerFires, listVars
<1>2. ReplyInv'
  <2>1. CASE UNCHANGED reply
    BY <2>1, ReplyStutter
  <2>2. CASE reply' = RetryMarked(reply)
    BY <2>2, RetryMarkedKeeps DEF ReplyInv, ReplyIsKept
  <2> QED
    BY <2>1, <2>2 DEF InboxDropped, OutboxSent, OutboxFailed, ReadyTimerFires
<1>3. RestInv'
  <2>1. CASE InboxDropped
    BY <2>1 DEF InboxDropped, RestInv, SyncStates, listVars, detailVars
  <2>2. CASE OutboxSent
    BY <2>2 DEF OutboxSent, RestInv, listVars, detailVars
  <2>3. CASE OutboxFailed
    BY <2>3 DEF OutboxFailed, RestInv, SyncStates, listVars, detailVars
  <2>4. CASE ReadyTimerFires
    <3>1. Plain("app_ready") \in AnyMessage
      BY DEF Plain, Msg, AnyMessage, MessageTypes
    <3>2. readyTimer' \in BOOLEAN /\ outbox' \in {outbox, Plain("app_ready")}
      BY <2>4 DEF ReadyTimerFires, RestInv, Send
    <3> QED
      BY <2>4, <3>1, <3>2 DEF ReadyTimerFires, RestInv, listVars, detailVars
  <2> QED
    BY <2>1, <2>2, <2>3, <2>4
<1> QED
  BY <1>1, <1>2, <1>3

\* The user.
LEMMA UserIInv == ASSUME IInv, User PROVE IInv'
<1> USE DEF IInv
<1>1. ASSUME NEW type \in MessageTypes, NEW state \in SyncStates, SelectAsk(type, state)
      PROVE  IInv'
  <2>1. RowsInv' /\ ReplyInv'
    BY <1>1, RowsStutter, ReplyStutter DEF SelectAsk, listVars
  <2>2. RestInv'
    BY <1>1 DEF SelectAsk, RestInv, listVars, detailVars, Send, Plain, Msg, AnyMessage
  <2> QED
    BY <2>1, <2>2
<1>2. ASSUME SelectMenu PROVE IInv'
  <2>1. syncState \in SyncStates /\ "desynced" \in SyncStates /\ "syncing" \in SyncStates
    BY DEF RestInv, SyncStates
  <2>2. {"app_ready", "open_config", "refresh", "load_more"} \subseteq MessageTypes
    BY DEF MessageTypes
  <2> QED
    BY <1>1, <1>2, <2>1, <2>2 DEF SelectMenu
<1>3. ASSUME NEW i \in 1..Len(jobs), SelectJob(i) PROVE IInv'
  <2>1. RowsInv'
    BY <1>3, SelectJobRows
  <2>2. ReplyInv'
    BY <1>3, ReplyStutter DEF SelectJob
  <2>3. jobs[i].id \in Threads
    BY <1>3, Distinct DEF Job
  <2>4. RestInv'
    BY <1>3, <2>3 DEF SelectJob, RestInv, Send, Msg, AnyMessage, MessageTypes
  <2> QED
    BY <2>1, <2>2, <2>4
<1>4. ASSUME CloseDetail PROVE IInv'
  <2>1. RowsInv' /\ ReplyInv'
    BY <1>4, RowsStutter, ReplyStutter DEF CloseDetail, listVars
  <2>2. RestInv'
    BY <1>4 DEF CloseDetail, RestInv, listVars
  <2> QED
    BY <2>1, <2>2
<1>5. ASSUME DetailSelect PROVE IInv'
  <2>1. RowsInv'
    BY <1>5, RowsStutter DEF DetailSelect, listVars
  <2>2. ReplyInv' /\ (outbox' = NoMessage \/ outbox' \in AnyMessage)
    <3>1. CASE CanRetry /\ SendReply(reply.thread, reply.text)
      BY <3>1, RetriedReply, SendReplyKeeps
    <3>2. CASE UNCHANGED <<outbox, reply>>
      BY <3>2, ReplyStutter DEF RestInv
    <3> QED
      BY <1>5, <3>1, <3>2 DEF DetailSelect
  <2>3. RestInv'
    BY <1>5, <2>2 DEF DetailSelect, RestInv, listVars
  <2> QED
    BY <2>1, <2>2, <2>3
<1>6. ASSUME DictationEnds PROVE IInv'
  <2>1. RowsInv'
    BY <1>6, RowsStutter DEF DictationEnds, listVars
  <2>2. ReplyInv' /\ (outbox' = NoMessage \/ outbox' \in AnyMessage)
    <3>1. ASSUME ReplyThread # NoThread, NEW text \in Texts, SendReply(ReplyThread, text)
          PROVE  ReplyInv' /\ (outbox' = NoMessage \/ outbox' \in AnyMessage)
      BY <3>1, DictatedReply, SendReplyKeeps
    <3>2. CASE UNCHANGED <<outbox, reply>>
      BY <3>2, ReplyStutter DEF RestInv
    <3> QED
      BY <1>6, <3>1, <3>2 DEF DictationEnds
  <2>3. RestInv'
    BY <1>6, <2>2 DEF DictationEnds, RestInv, listVars
  <2> QED
    BY <2>1, <2>2, <2>3
<1> HIDE DEF IInv
<1> QED
  BY <1>2, <1>3, <1>4, <1>5, <1>6 DEF User, SelectClick

LEMMA NextIInv == IInv /\ [Next]_vars => IInv'
<1> SUFFICES ASSUME IInv, [Next]_vars PROVE IInv'
  OBVIOUS
<1>1. CASE InboxReceived
  BY <1>1, InboxIInv
<1>2. CASE InboxDropped \/ OutboxSent \/ OutboxFailed \/ ReadyTimerFires
  BY <1>2, OutboxIInv
<1>3. CASE User
  BY <1>3, UserIInv
<1>4. CASE UNCHANGED vars
  <2>1. RowsInv' /\ ReplyInv'
    BY <1>4, RowsStutter, ReplyStutter DEF IInv, vars, listVars
  <2>2. RestInv'
    BY <1>4 DEF IInv, RestInv, vars, listVars, detailVars
  <2> QED
    BY <2>1, <2>2 DEF IInv
<1> QED
  BY <1>1, <1>2, <1>3, <1>4 DEF Next

(***************************************************************************)
(* The strengthened invariant holds in every reachable state of the watch. *)
(***************************************************************************)
THEOREM Inductive == Spec => []IInv
  BY InitIInv, NextIInv, PTL DEF Spec

(***************************************************************************)
(* Every variable of the watch keeps its type (prv_inbox_received to       *)
(* prv_select_click).                                                      *)
(***************************************************************************)
THEOREM TypeCorrect == Spec => []TypeOK
<1>1. IInv => TypeOK
  BY DEF IInv, RowsInv, ReplyInv, RestInv, TypeOK, AnyMessage
<1> QED
  BY <1>1, Inductive, PTL

(***************************************************************************)
(* However rows are cleared, listed again and reordered, the selected      *)
(* index points at the thread the user opened (prv_clear_jobs,             *)
(* prv_handle_job_item).                                                   *)
(***************************************************************************)
THEOREM SelectionStable == Spec => []SelectionIsStable
<1>1. IInv => SelectionIsStable
  BY DEF IInv, RowsInv
<1> QED
  BY <1>1, Inductive, PTL

(***************************************************************************)
(* The dictated words are kept while they wait or may be retried           *)
(* (prv_mark_reply_retry_available).                                       *)
(***************************************************************************)
THEOREM ReplyKept == Spec => []ReplyIsKept
<1>1. IInv => ReplyIsKept
  BY DEF IInv, ReplyInv
<1> QED
  BY <1>1, Inductive, PTL

(***************************************************************************)
(* A reply leaves for the thread that is open, dictated or retried, on     *)
(* every table and after any messages (prv_send_reply_text,                *)
(* prv_retry_reply).                                                       *)
(***************************************************************************)
THEOREM RepliesReachOpenThread == Spec => RepliesToOpenThread
<1> DEFINE Step == outbox' # outbox /\ outbox' # NoMessage /\ outbox'.type = "reply"
                     => outbox'.thread = selectedId
<1>1. IInv /\ [Next]_vars => [Step]_vars
  <2> SUFFICES ASSUME IInv, [Next]_vars,
                      outbox' # outbox, outbox' # NoMessage, outbox'.type = "reply"
               PROVE  outbox'.thread = selectedId
    OBVIOUS
  <2>1. CASE InboxReceived
    BY <2>1 DEF InboxReceived, SettingsState, SyncStatus, JobClear, JobItem, JobComplete,
                DetailUpdate, ErrorReceived
  <2>2. CASE InboxDropped \/ OutboxSent \/ OutboxFailed
    BY <2>2 DEF InboxDropped, OutboxSent, OutboxFailed
  <2>3. ASSUME NEW type \in MessageTypes \ {"reply"}, NEW thread, Send(Msg(type, thread, NoText))
        PROVE  FALSE
    BY <2>3 DEF Send, Msg
  <2>4. CASE ReadyTimerFires
    BY <2>3, <2>4 DEF ReadyTimerFires, Plain, MessageTypes
  <2>5. ASSUME NEW thread, NEW text, SendReply(thread, text)
        PROVE  outbox'.thread = thread
    BY <2>5 DEF SendReply, Send, Msg
  <2>6. CASE SelectClick
    <3>1. ASSUME NEW type \in MessageTypes \ {"reply"}, NEW state, SelectAsk(type, state)
          PROVE  FALSE
      BY <2>3, <3>1 DEF SelectAsk, Plain
    <3>2. ~SelectMenu
      BY <3>1 DEF SelectMenu, MessageTypes
    <3>3. PICK i \in 1..Len(jobs) : SelectJob(i)
      BY <2>6, <3>2 DEF SelectClick
    <3> QED
      BY <2>3, <3>3 DEF SelectJob, MessageTypes
  <2>7. CASE CloseDetail
    BY <2>7 DEF CloseDetail
  <2>8. CASE DetailSelect
    <3>1. CanRetry /\ SendReply(reply.thread, reply.text)
      BY <2>8 DEF DetailSelect
    <3> QED
      BY <2>5, <3>1, RetriedReply DEF IInv
  <2>9. CASE DictationEnds
    <3>1. PICK text \in Texts : ReplyThread # NoThread /\ SendReply(ReplyThread, text)
      BY <2>9 DEF DictationEnds
    <3> QED
      BY <2>5, <3>1, DictatedReply DEF IInv
  <2>10. CASE UNCHANGED vars
    BY <2>10 DEF vars
  <2> QED
    BY <2>1, <2>2, <2>4, <2>6, <2>7, <2>8, <2>9, <2>10 DEF Next, User
<1> QED
  BY <1>1, Inductive, PTL DEF Spec, RepliesToOpenThread

=============================================================================
