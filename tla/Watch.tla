-------------------------------- MODULE Watch --------------------------------
(***************************************************************************)
(* The watch app (src/c/main.c): its rows, the open thread, the reply and  *)
(* its retry, and the one-message outbox.                                  *)
(*                                                                         *)
(* Pebble runs one callback at a time, so every handler is one action.     *)
(* The phone may send any message it knows at any time.  Texts, fonts,     *)
(* scroll offsets, the spinner and touch are left out, and so is what a    *)
(* row only displays (title, body, loading_detail).  The pages of a thread *)
(* and the requests for them are module DetailPages.                       *)
(***************************************************************************)
EXTENDS Naturals, Sequences, FiniteSets, SequencesExt

CONSTANTS
  Threads,    \* thread ids
  NoThread,   \* the empty thread id
  Texts,      \* replies the user dictates
  Kinds,      \* bound: the kinds of rows the phone lists
  MaxJobs     \* CODEX_MAX_JOBS

ASSUME MaxJobsAssumption == MaxJobs \in Nat \ {0}
ASSUME NoThreadAssumption == NoThread \notin Threads
ASSUME TextsAssumption == "" \notin Texts
ASSUME KindsAssumption == Kinds \subseteq {"working", "attention", "quiet"}

VARIABLES
  hasSettings,     \* s_has_settings
  receivedState,   \* s_received_state
  syncState,       \* s_sync_state
  jobs,            \* s_jobs up to s_job_count
  selectedJob,     \* s_selected_job, 0 for none
  selectedId,      \* s_selected_job_id
  hasMore,         \* s_has_more
  detailOpen,      \* the detail window is on the screen
  dictating,       \* a dictation session is running
  reply,           \* s_last_reply, s_reply_in_flight, s_reply_retry_available
  readyTimer,      \* s_ready_timer is armed
  outbox           \* the message AppMessage is sending, if any

listVars == <<hasSettings, receivedState, jobs, selectedJob, selectedId, hasMore>>
detailVars == <<detailOpen, dictating>>
vars == <<listVars, syncState, detailVars, reply, readyTimer, outbox>>

SyncStates == {"desynced", "syncing", "synced"}
NoText == ""
NoMessage == <<>>

Job == [id : Threads, kind : Kinds, unread : BOOLEAN]

Reply == [thread : Threads \cup {NoThread}, text : Texts \cup {NoText},
          inFlight : BOOLEAN, retry : BOOLEAN]

NoReply == [thread |-> NoThread, text |-> NoText, inFlight |-> FALSE, retry |-> FALSE]

MessageTypes == {"app_ready", "refresh", "load_more", "open_config",
                 "detail_request", "reply"}

Msg(type, thread, text) == [type |-> type, thread |-> thread, text |-> text]
Plain(type) == Msg(type, NoThread, NoText)

TypeOK ==
  /\ hasSettings \in BOOLEAN /\ receivedState \in BOOLEAN
  /\ syncState \in SyncStates
  /\ jobs \in Seq(Job) /\ Len(jobs) <= MaxJobs
  /\ selectedJob \in 0..MaxJobs
  /\ selectedId \in Threads \cup {NoThread}
  /\ hasMore \in BOOLEAN
  /\ detailOpen \in BOOLEAN /\ dictating \in BOOLEAN
  /\ reply \in Reply
  /\ readyTimer \in BOOLEAN
  /\ outbox = NoMessage \/ outbox \in [type : MessageTypes, thread : Threads \cup {NoThread},
                                       text : Texts \cup {NoText}]

\* prv_init
Init ==
  /\ hasSettings = FALSE /\ receivedState = FALSE
  /\ syncState = "desynced"
  /\ jobs = <<>>
  /\ selectedJob = 0 /\ selectedId = NoThread
  /\ hasMore = FALSE
  /\ detailOpen = FALSE /\ dictating = FALSE
  /\ reply = NoReply
  /\ readyTimer = TRUE
  /\ outbox = NoMessage

-----------------------------------------------------------------------------
(* Helpers. *)

\* prv_find_job_by_id: 0 when there is none.
FindJob(id) == IF \E i \in 1..Len(jobs) : jobs[i].id = id
               THEN CHOOSE i \in 1..Len(jobs) : jobs[i].id = id /\ \A j \in 1..(i-1) : jobs[j].id # id
               ELSE 0

\* prv_get_selected_job
SelectedJob == IF selectedJob \in 1..Len(jobs) THEN selectedJob ELSE FindJob(selectedId)

\* prv_send_message: a busy outbox takes nothing.
Send(message) == outbox' = IF outbox = NoMessage THEN message ELSE outbox

\* prv_clear_reply_state(NULL)
ClearReplyState == reply' = NoReply

\* Mutant: the reply stays in flight.
RetryOffered(r) ==
  IF r.inFlight /\ r.thread # NoThread THEN [r EXCEPT !.retry = TRUE] ELSE r

\* prv_mark_reply_retry_available
RetryMarked(r) ==
  IF r.inFlight /\ r.thread # NoThread THEN [r EXCEPT !.inFlight = FALSE, !.retry = TRUE] ELSE r

\* Mutant: the selected index survives the rows it points into.
ClearRowsOnly == jobs' = <<>> /\ hasMore' = FALSE /\ UNCHANGED selectedJob

\* prv_clear_jobs
ClearJobs ==
  /\ jobs' = <<>>
  /\ selectedJob' = 0
  /\ hasMore' = FALSE

-----------------------------------------------------------------------------
(* prv_inbox_received, one action per message type; state is the SyncState  *)
(* every message carries.                                                   *)

SettingsState(has, state) ==
  /\ hasSettings' = has
  /\ receivedState' = TRUE
  /\ syncState' = IF has THEN state ELSE "desynced"
  /\ IF has THEN UNCHANGED <<jobs, selectedJob, selectedId, hasMore>>
            ELSE ClearJobs /\ selectedId' = NoThread
  /\ UNCHANGED <<detailVars, reply, readyTimer, outbox>>

\* replySent: the text is "Reply sent".
SyncStatus(replySent, state) ==
  /\ syncState' = state
  /\ IF replySent THEN ClearReplyState ELSE UNCHANGED reply
  /\ UNCHANGED <<listVars, detailVars, readyTimer, outbox>>

JobClear(state) ==
  /\ syncState' = state
  /\ ClearJobs
  /\ UNCHANGED <<hasSettings, receivedState, selectedId, detailVars, reply,
                 readyTimer, outbox>>

NewJob(id, kind) == [id |-> id, kind |-> kind, unread |-> FALSE]

\* A thread that was working and now rests is marked until it is opened.
UpdatedJob(job, kind) ==
  [job EXCEPT !.kind = kind,
              !.unread = IF job.id = selectedId THEN FALSE
                         ELSE @ \/ (job.kind = "working" /\ kind = "quiet")]

\* prv_handle_job_item
JobItem(id, kind, state) ==
  /\ syncState' = state
  /\ LET i == FindJob(id) IN
     \/ /\ i = 0 /\ Len(jobs) >= MaxJobs
        /\ UNCHANGED <<jobs, selectedJob>>
     \/ /\ i = 0 /\ Len(jobs) < MaxJobs
        /\ jobs' = Append(jobs, NewJob(id, kind))
        /\ selectedJob' = IF id = selectedId THEN Len(jobs) + 1 ELSE selectedJob
     \/ /\ i # 0
        /\ jobs' = [jobs EXCEPT ![i] = UpdatedJob(jobs[i], kind)]
        /\ selectedJob' = IF id = selectedId THEN i ELSE selectedJob
  /\ UNCHANGED <<hasSettings, receivedState, selectedId, hasMore, detailVars, reply,
                 readyTimer, outbox>>

JobComplete(more, state) ==
  /\ syncState' = state
  /\ hasMore' = more
  /\ UNCHANGED <<hasSettings, receivedState, jobs, selectedJob, selectedId, detailVars,
                 reply, readyTimer, outbox>>

\* prv_handle_detail_update, what it does to a row.
DetailUpdate(id, state) ==
  /\ syncState' = state
  /\ jobs' = [i \in DOMAIN jobs |->
               IF i = FindJob(id) THEN [jobs[i] EXCEPT !.unread = FALSE] ELSE jobs[i]]
  /\ UNCHANGED <<hasSettings, receivedState, selectedJob, selectedId, hasMore, detailVars,
                 reply, readyTimer, outbox>>

ErrorReceived ==
  /\ syncState' = "desynced"
  /\ reply' = RetryMarked(reply)
  /\ UNCHANGED <<listVars, detailVars, readyTimer, outbox>>

\* What the phone sends, with the states it sends it with.
InboxReceived ==
  \/ \E has \in BOOLEAN : SettingsState(has, IF has THEN "syncing" ELSE "desynced")
  \/ SyncStatus(TRUE, "syncing") \/ \E state \in SyncStates : SyncStatus(FALSE, state)
  \/ JobClear("syncing")
  \/ \E id \in Threads, kind \in Kinds : JobItem(id, kind, "syncing")
  \/ \E more \in BOOLEAN : JobComplete(more, "synced")
  \/ \E id \in Threads, state \in {"syncing", "synced"} : DetailUpdate(id, state)
  \/ ErrorReceived

InboxDropped ==
  /\ syncState' = "desynced"
  /\ UNCHANGED <<listVars, detailVars, reply, readyTimer, outbox>>

-----------------------------------------------------------------------------
(* The outbox and the ready timer. *)

OutboxSent ==
  /\ outbox # NoMessage /\ outbox' = NoMessage
  /\ UNCHANGED <<listVars, syncState, detailVars, reply, readyTimer>>

\* prv_outbox_failed
OutboxFailed ==
  /\ outbox # NoMessage /\ outbox' = NoMessage
  /\ reply' = RetryMarked(reply)
  /\ syncState' = "desynced"
  /\ UNCHANGED <<listVars, detailVars, readyTimer>>

\* Mutant: the watch asks once.
ReadyTimerFiresOnce ==
  /\ readyTimer /\ readyTimer' = FALSE
  /\ IF receivedState THEN UNCHANGED outbox ELSE Send(Plain("app_ready"))
  /\ UNCHANGED <<listVars, syncState, detailVars, reply>>

\* prv_ready_timer_callback; the timer is armed again at once.
ReadyTimerFires ==
  /\ readyTimer
  /\ IF receivedState THEN readyTimer' = FALSE /\ UNCHANGED outbox
     ELSE Send(Plain("app_ready")) /\ UNCHANGED readyTimer
  /\ UNCHANGED <<listVars, syncState, detailVars, reply>>

-----------------------------------------------------------------------------
(* The menu: prv_select_click. *)

\* Rows that only send a message.
SelectAsk(type, state) ==
  /\ Send(Plain(type))
  /\ syncState' = state
  /\ UNCHANGED <<listVars, detailVars, reply, readyTimer>>

SelectMenu ==
  \/ ~hasSettings /\ ~receivedState /\ SelectAsk("app_ready", "desynced")
  \/ ~hasSettings /\ receivedState /\ SelectAsk("open_config", syncState)
  \/ hasSettings /\ jobs = <<>> /\ SelectAsk("refresh", syncState)
  \/ hasSettings /\ jobs # <<>> /\ hasMore /\ SelectAsk("load_more", "syncing")

\* Opening a thread: prv_prepare_detail_load, the window, the request.
SelectJob(i) ==
  /\ hasSettings
  /\ selectedJob' = i
  /\ selectedId' = jobs[i].id
  /\ jobs' = [jobs EXCEPT ![i].unread = FALSE]
  /\ detailOpen' = TRUE
  /\ Send(Msg("detail_request", jobs[i].id, NoText))
  /\ UNCHANGED <<hasSettings, receivedState, hasMore, syncState, dictating, reply, readyTimer>>

SelectClick ==
  /\ ~detailOpen
  /\ SelectMenu \/ \E i \in 1..Len(jobs) : SelectJob(i)

\* The back button, or a swipe.
CloseDetail ==
  /\ detailOpen /\ ~dictating
  /\ detailOpen' = FALSE
  /\ UNCHANGED <<listVars, syncState, dictating, reply, readyTimer, outbox>>

-----------------------------------------------------------------------------
(* The detail window. *)

\* Both ways of sending the reply end here; when the outbox is busy the reply
\* is kept for a retry.
SendReply(thread, text) ==
  LET r == [thread |-> thread, text |-> text, inFlight |-> TRUE, retry |-> FALSE] IN
  /\ Send(Msg("reply", thread, text))
  /\ reply' = IF outbox = NoMessage THEN r ELSE RetryMarked(r)

\* prv_retry_reply can only be reached for the thread that is open.
CanRetry ==
  SelectedJob # 0 /\ reply.retry /\ jobs[SelectedJob].id = reply.thread

\* prv_detail_select_handler
DetailSelect ==
  /\ detailOpen /\ ~dictating
  /\ \/ /\ CanRetry
        /\ SendReply(reply.thread, reply.text)
        /\ UNCHANGED dictating
     \/ /\ ~CanRetry
        /\ dictating' = TRUE
        /\ UNCHANGED <<outbox, reply>>
  /\ UNCHANGED <<listVars, syncState, detailOpen, readyTimer>>

\* Mutant: a reply goes to the row under the index, the first one by default.
RowUnderIndex == IF selectedJob # 0 THEN jobs[selectedJob].id
                 ELSE IF jobs # <<>> THEN jobs[1].id ELSE selectedId

\* The thread prv_send_reply_text sends to.
ReplyThread == IF SelectedJob # 0 THEN jobs[SelectedJob].id ELSE selectedId

\* prv_dictation_callback: nothing was understood, or prv_send_reply_text.
DictationEnds ==
  /\ dictating /\ dictating' = FALSE
  /\ \/ UNCHANGED <<outbox, reply>>
     \/ /\ ReplyThread # NoThread
        /\ \E text \in Texts : SendReply(ReplyThread, text)
  /\ UNCHANGED <<listVars, syncState, detailOpen, readyTimer>>

User ==
  \/ SelectClick \/ CloseDetail \/ DetailSelect \/ DictationEnds

Next ==
  \/ InboxReceived \/ InboxDropped
  \/ OutboxSent \/ OutboxFailed \/ ReadyTimerFires
  \/ User

Spec == Init /\ [][Next]_vars

\* AppMessage reports on every message it took, and the timer fires.
FairSpec ==
  Spec /\ WF_vars(OutboxSent \/ OutboxFailed) /\ WF_vars(ReadyTimerFires)

-----------------------------------------------------------------------------
(* Properties. *)

\* Rows are distinct, and the selected index, which survives clears, new rows
\* and saved settings, still points at the thread the user opened
\* (prv_clear_jobs, prv_handle_job_item).
SelectionIsStable ==
  /\ IsInjective([i \in 1..Len(jobs) |-> jobs[i].id])
  /\ selectedJob # 0 => selectedJob <= Len(jobs) /\ jobs[selectedJob].id = selectedId

\* A reply, dictated or retried, leaves for the thread the user has open, even
\* when the rows were cleared and listed in another order while the user was
\* speaking (prv_send_reply_text, prv_retry_reply).
RepliesToOpenThread ==
  [][outbox' # outbox /\ outbox' # NoMessage /\ outbox'.type = "reply"
       => outbox'.thread = selectedId]_vars

\* The user's words are kept as long as the watch offers to retry them or
\* waits for them to be sent, and the two never happen at once
\* (prv_mark_reply_retry_available, prv_clear_reply_state).
ReplyIsKept ==
  /\ ~(reply.inFlight /\ reply.retry)
  /\ reply.inFlight \/ reply.retry => reply.thread # NoThread /\ reply.text # NoText

\* Until the phone has answered, the watch keeps asking it, however often the
\* message is lost (prv_ready_timer_callback).
KeepsAskingReady ==
  ~receivedState ~> (receivedState \/ outbox = Plain("app_ready"))

=============================================================================
