------------------------------ MODULE DetailPages ------------------------------
(***************************************************************************)
(* Reading a long thread page by page: the phone keeps the thread as       *)
(* sections and sends the page it selects (sendDetailPage and              *)
(* selectDetailPage in src/pkjs/index.js); the watch merges the page it    *)
(* asked for into the body it shows and replaces the body by any other     *)
(* (prv_handle_detail_update and prv_apply_detail_text in src/c/main.c).   *)
(*                                                                         *)
(* One thread, the one that is open.  Sections are numbered as they were   *)
(* written and Size gives their bytes; a body is the sequence of sections  *)
(* it shows.  Rows, replies and connections have modules of their own:     *)
(* here the phone may read the thread or list the rows at any time, and    *)
(* another thread's detail may reach the watch.  The send queue is what    *)
(* module SendQueue shows: one message on the air, the latest waiting.     *)
(***************************************************************************)
EXTENDS Integers, Sequences, FiniteSets, FiniteSetsExt, SequencesExt

CONSTANTS
  Size,        \* section |-> its bytes
  Separator,   \* bytes between two sections
  PageLimit,   \* ProtocolByteLimit.body
  BodyLimit,   \* CODEX_THREAD_BODY_LENGTH
  LastTurn,    \* the first section of the turn that may complete
  MaxChanges   \* bound: reads, lists, losses and other threads' details

MaxItems == Len(Size)

\* The thread has sections of its last turn from the start.
ASSUME SizeAssumption == Size \in Seq(Nat \ {0}) /\ LastTurn \in 1..(MaxItems - 1)
ASSUME LimitAssumption ==
  Separator \in Nat /\ PageLimit \in Nat \ {0} /\ BodyLimit \in Nat /\ PageLimit <= BodyLimit
ASSUME ChangesAssumption == MaxChanges \in Nat

VARIABLES
  items,      \* sections the thread has
  sections,   \* cache.sections, <<>> for a thread that is not cached
  window,     \* cache.pageStart and pageEnd
  lastBody,   \* lastDetailBodyByThreadId
  link,       \* details under way to the watch, the last one still replaceable
  reading,    \* thread/read is in flight
  outbox,     \* the message the watch is sending
  watch,      \* the row of the thread and the detail window
  stale,      \* history: the window was kept for sections that had changed
  since,      \* history: what befell the body since it was last replaced
  changes     \* number of changes so far

vars == <<items, sections, window, lastBody, link, reading, outbox, watch, stale, since,
          changes>>

NoWindow == [start |-> 0, end |-> 0]
NoMessage == "none"

-----------------------------------------------------------------------------
(* Pages.  As in the code, a page [start, end] holds the sections from      *)
(* start + 1 to end.                                                        *)

\* The bytes of sections 1 to n with a separator after each.
UpTo[n \in 0..MaxItems] == IF n = 0 THEN 0 ELSE UpTo[n - 1] + Size[n] + Separator

BytesOf(first, last) == UpTo[last] - UpTo[first - 1] - Separator

Bytes(body) ==
  LET sum[n \in 0..Len(body)] == IF n = 0 THEN 0 ELSE sum[n - 1] + Size[body[n]] + Separator
  IN  IF body = <<>> THEN 0 ELSE sum[Len(body)] - Separator

Page(start, end) == [start |-> start, end |-> end]
Body(secs, page) == SubSeq(secs, page.start + 1, page.end)
Fits(secs, page) == BytesOf(secs[page.start + 1], secs[page.end]) <= PageLimit

\* detailPageStartingAt: what fits from start on, at least one section, cut.
DetailPageStartingAt(secs, start) ==
  LET from == Min({start, Len(secs) - 1})
  IN  Page(from, Max({from + 1} \cup {e \in from+1..Len(secs) : Fits(secs, Page(from, e))}))

\* detailPageEndingAt: what fits up to end, at least one section, cut.
DetailPageEndingAt(secs, end) ==
  IF end = 0 THEN DetailPageStartingAt(secs, 0)
  ELSE Page(Min({end - 1} \cup {s \in 0..end-1 : Fits(secs, Page(s, end))}), end)

\* selectDetailPage
SelectDetailPage(secs, win, which) ==
  IF win = NoWindow \/ which = "latest" THEN DetailPageEndingAt(secs, Len(secs))
  ELSE IF which = "older"
       THEN IF win.start > 0 THEN DetailPageEndingAt(secs, win.start)
                             ELSE DetailPageStartingAt(secs, 0)
       ELSE IF win.end < Len(secs) THEN DetailPageStartingAt(secs, win.end)
                                   ELSE DetailPageEndingAt(secs, Len(secs))

\* cacheThreadDetail keeps the window of the sections it replaces.
Clamped(win, secs) == Page(Min({win.start, Len(secs)}), Min({win.end, Len(secs)}))

-----------------------------------------------------------------------------
TypeOK ==
  /\ items \in 1..MaxItems
  /\ sections \in Seq(1..items)
  /\ window \in [start : 0..MaxItems, end : 0..MaxItems]
  /\ lastBody \in Seq(1..items)
  /\ Len(link) <= 2
  /\ reading \in BOOLEAN
  /\ outbox \in {NoMessage, "detail", "older", "newer"}
  /\ watch \in [open : BOOLEAN, listed : BOOLEAN, hasDetail : BOOLEAN, loaded : BOOLEAN,
                body : Seq(1..items), hasPrev : BOOLEAN, hasNext : BOOLEAN,
                pending : {NoMessage, "older", "newer"}]
  /\ stale \in BOOLEAN
  /\ since \subseteq {"older", "newer", "mistaken", "skipped", "ends"}
  /\ changes \in 0..MaxChanges

\* The thread has just been opened.
Init ==
  /\ items = MaxItems - 1
  /\ sections = <<>>
  /\ window = NoWindow
  /\ lastBody = <<>>
  /\ link = <<>>
  /\ reading = FALSE
  /\ outbox = "detail"
  /\ watch = [open |-> TRUE, listed |-> TRUE, hasDetail |-> FALSE, loaded |-> FALSE,
              body |-> <<>>, hasPrev |-> FALSE, hasNext |-> FALSE, pending |-> NoMessage]
  /\ stale = FALSE
  /\ since = {}
  /\ changes = 0

Change == changes < MaxChanges /\ changes' = changes + 1

phoneVars == <<items, sections, window, lastBody, link, reading, stale>>

-----------------------------------------------------------------------------
(* The phone. *)

\* sendEnvelope: a detail that still waits is replaced.
SendEnvelope(update) ==
  \/ Len(link) < 2 /\ link' = Append(link, update)
  \/ link # <<>> /\ link' = [link EXCEPT ![Len(link)] = [update EXCEPT !.skips = TRUE]]

\* Mutant: the page that is shown is not remembered.
SendPageKeepingWindow(secs, win, which) ==
  LET page == SelectDetailPage(secs, win, which) IN
  /\ window' = IF win = NoWindow THEN page ELSE win
  /\ lastBody' = Body(secs, page)
  /\ stale' = FALSE
  /\ SendEnvelope([body |-> Body(secs, page), hasPrev |-> page.start > 0,
                   hasNext |-> page.end < Len(secs), answers |-> which, skips |-> stale])

\* sendDetailPage and sendDetailBody.  History: answers is what the page was
\* selected for, skips that it need not follow on the last one delivered.
SendDetailPage(secs, win, which) ==
  LET page == SelectDetailPage(secs, win, which) IN
  /\ window' = page
  /\ lastBody' = Body(secs, page)
  /\ stale' = FALSE
  /\ SendEnvelope([body |-> Body(secs, page), hasPrev |-> page.start > 0,
                   hasNext |-> page.end < Len(secs), answers |-> which, skips |-> stale])

\* What a thread/read, a completed turn or a live item leaves in the cache: the
\* whole thread, perhaps longer, or the sections of the last turn only.
Sections(n) == {[i \in 1..n |-> i], [i \in 1..(n - LastTurn + 1) |-> LastTurn + i - 1]}

\* sendDetailUpdate, handleItemCompleted and sendLiveProgress.
SendDetailUpdate ==
  /\ items' \in {n \in {items, items + 1} : n <= MaxItems}
  /\ sections' \in Sections(items')
  /\ SendDetailPage(sections', Clamped(window, sections'), "latest")

\* sendDetailUpdateIfChanged: a page the watch was sent last is not sent again,
\* and the window stays where it was.
SendDetailUpdateIfChanged ==
  /\ items' \in {n \in {items, items + 1} : n <= MaxItems}
  /\ sections' = [i \in 1..items' |-> i]
  /\ LET page == DetailPageEndingAt(sections', items')
         win == Clamped(window, sections')
     IN  IF lastBody = Body(sections', page)
         THEN /\ window' = win
              /\ UNCHANGED <<lastBody, link>>
              /\ stale' = (stale \/ sections' # sections)
         ELSE SendDetailPage(sections', win, "latest")

\* A turn goes on or ends, or a poll finds something; or the cache gives the
\* thread up for others (pruneDetailThread).
Live ==
  /\ Change
  /\ sections # <<>>
  /\ SendDetailUpdate \/ SendDetailUpdateIfChanged
  /\ UNCHANGED <<reading, outbox, watch, since>>

Evicted ==
  /\ Change
  /\ sections' = <<>> /\ window' = NoWindow /\ lastBody' = <<>> /\ stale' = FALSE
  /\ UNCHANGED <<items, link, reading, outbox, watch, since>>

\* requestThreadDetail and requestDetailScroll.
RequestThreadDetail ==
  /\ reading' = TRUE
  /\ UNCHANGED <<items, sections, window, lastBody, link, stale>>

\* Mutant: nothing is done for a thread that is not cached.
ScrollCachedOnly(direction) ==
  IF sections = <<>> THEN UNCHANGED phoneVars
  ELSE /\ SendDetailPage(sections, window, direction)
       /\ UNCHANGED <<items, sections, reading>>

RequestDetailScroll(direction) ==
  IF sections = <<>> THEN RequestThreadDetail
  ELSE /\ SendDetailPage(sections, window, direction)
       /\ UNCHANGED <<items, sections, reading>>

\* The answer to requestThreadDetail, or its failure.
ThreadRead ==
  /\ reading /\ reading' = FALSE
  /\ \/ SendDetailUpdate /\ UNCHANGED <<since, changes>>
     \/ /\ Change
        /\ since' = since \cup {"skipped"}
        /\ UNCHANGED <<items, sections, window, lastBody, link, stale>>
  /\ UNCHANGED <<outbox, watch>>

-----------------------------------------------------------------------------
(* The watch: prv_handle_detail_update. *)

\* The sections that are whole in the first, or the last, BodyLimit bytes.
Holds(body) == Bytes(body) <= BodyLimit
CutEnd(body) == SubSeq(body, 1, Max({n \in 0..Len(body) : Holds(SubSeq(body, 1, n))}))
CutFront(body) ==
  SubSeq(body, Min({n \in 1..Len(body)+1 : Holds(SubSeq(body, n, Len(body)))}), Len(body))

\* prv_apply_detail_text can extend what it shows.
CanPreserve == watch.open /\ watch.hasDetail /\ watch.loaded

\* The page before, or after, what is shown.
Joined(page) == IF watch.pending = "older" THEN page \o watch.body ELSE watch.body \o page

\* prv_apply_detail_text, prv_prepend_thread_body, prv_append_thread_body
Merged(page) ==
  CASE ~CanPreserve \/ watch.pending = NoMessage -> page
    [] CanPreserve /\ watch.pending = "older" ->
         IF IsPrefix(page, watch.body) THEN watch.body ELSE CutEnd(Joined(page))
    [] CanPreserve /\ watch.pending = "newer" ->
         IF IsSuffix(page, watch.body) THEN watch.body ELSE CutFront(Joined(page))

\* What is known of the body after an update: history only.
SinceAfter(u) ==
  IF watch.pending = NoMessage THEN {}
  ELSE since \cup {watch.pending}
               \cup (IF u.answers # watch.pending THEN {"mistaken"} ELSE {})
               \cup (IF u.skips THEN {"skipped"} ELSE {})
               \cup (IF ~CanPreserve \/ ~Holds(Joined(u.body))
                     THEN {"ends"} ELSE {})

\* Mutant: both ends are taken from the page that was merged.
UpdateBothEnds(u) ==
  IF watch.listed
  THEN /\ watch' = [watch EXCEPT
             !.body = Merged(u.body), !.loaded = TRUE, !.hasDetail = TRUE,
             !.pending = NoMessage, !.hasPrev = u.hasPrev, !.hasNext = u.hasNext]
       /\ since' = SinceAfter(u)
  ELSE /\ since' = since \cup {"skipped"}
       /\ UNCHANGED watch

HandleDetailUpdate(u) ==
  IF watch.listed
  THEN /\ watch' = [watch EXCEPT
             !.body = Merged(u.body), !.loaded = TRUE, !.hasDetail = TRUE,
             !.pending = NoMessage,
             !.hasPrev = IF watch.pending = "newer" THEN @ ELSE u.hasPrev,
             !.hasNext = IF watch.pending = "older" THEN @ ELSE u.hasNext]
       /\ since' = SinceAfter(u)
  ELSE /\ since' = since \cup {"skipped"}
       /\ UNCHANGED watch

\* What follows when the first detail under way is taken, or not.
Rest(taken) ==
  IF taken \/ Len(link) = 1 THEN Tail(link) ELSE [Tail(link) EXCEPT ![1].skips = TRUE]

Deliver ==
  /\ link # <<>> /\ link' = Rest(watch.listed)
  /\ HandleDetailUpdate(Head(link))
  /\ UNCHANGED <<items, sections, window, lastBody, reading, outbox, stale, changes>>

\* The phone's queue gives the detail up, or its delivery fails.
DetailLost ==
  /\ Change
  /\ link # <<>> /\ link' = Rest(FALSE)
  /\ since' = since \cup {"skipped"}
  /\ UNCHANGED <<items, sections, window, lastBody, reading, outbox, watch, stale>>

-----------------------------------------------------------------------------
(* The watch: its outbox and its window. *)

\* prv_send_message: an outbox busy with this or another message takes nothing,
\* and nobody is told.
Send(message) ==
  \/ outbox = NoMessage /\ outbox' = message
  \/ UNCHANGED outbox

\* The message arrives, and the phone handles it.
OutboxSent ==
  /\ outbox # NoMessage /\ outbox' = NoMessage
  /\ \/ outbox = "detail" /\ RequestThreadDetail
     \/ outbox \in {"older", "newer"} /\ RequestDetailScroll(outbox)
  /\ UNCHANGED <<watch, since, changes>>

\* prv_outbox_failed: the message was lost, or only its acknowledgement.
OutboxFailed ==
  /\ Change
  /\ outbox # NoMessage /\ outbox' = NoMessage
  /\ \/ UNCHANGED phoneVars
     \/ outbox \in {"older", "newer"} /\ RequestDetailScroll(outbox)
  /\ watch' = [watch EXCEPT !.pending = NoMessage]
  /\ UNCHANGED since

\* prv_select_click: the thread is opened (again); prv_prepare_detail_load
SelectThread ==
  /\ Change
  /\ ~watch.open /\ watch.listed
  /\ Send("detail")
  /\ watch' = [watch EXCEPT !.open = TRUE, !.loaded = FALSE, !.body = <<>>,
                            !.pending = NoMessage]
  /\ UNCHANGED <<phoneVars, since>>

CloseDetail ==
  /\ watch.open
  /\ watch' = [watch EXCEPT !.open = FALSE]
  /\ UNCHANGED <<phoneVars, outbox, since, changes>>

\* prv_scroll_detail_by past an end: prv_request_detail_page
RequestDetailPage(direction) ==
  /\ watch.open /\ watch.listed /\ watch.pending = NoMessage
  /\ IF direction = "older" THEN watch.hasPrev ELSE watch.hasNext
  /\ watch' = [watch EXCEPT !.pending = direction]
  /\ Send(direction)
  /\ IF outbox' = outbox THEN Change /\ since' = since \cup {"skipped"}
                          ELSE UNCHANGED <<changes, since>>
  /\ UNCHANGED phoneVars

\* job_clear, then the row of the thread again: it is a new row.
JobClear ==
  /\ Change
  /\ watch.listed /\ watch' = [watch EXCEPT !.listed = FALSE]
  /\ UNCHANGED <<phoneVars, outbox, since>>

JobItem ==
  /\ ~watch.listed
  /\ watch' = [watch EXCEPT !.listed = TRUE, !.hasDetail = FALSE, !.hasPrev = FALSE,
                            !.hasNext = FALSE, !.pending = NoMessage]
  /\ since' = since \cup {"ends"}
  /\ UNCHANGED <<phoneVars, outbox, changes>>

\* The detail of another thread takes the body; the next page starts anew.
OtherDetail ==
  /\ Change
  /\ watch' = [watch EXCEPT !.body = <<>>, !.loaded = FALSE]
  /\ UNCHANGED <<phoneVars, outbox, since>>

-----------------------------------------------------------------------------
Next ==
  \/ Live \/ Evicted \/ ThreadRead
  \/ Deliver \/ DetailLost
  \/ OutboxSent \/ OutboxFailed
  \/ SelectThread \/ CloseDetail \/ JobClear \/ JobItem \/ OtherDetail
  \/ \E direction \in {"older", "newer"} : RequestDetailPage(direction)

Spec == Init /\ [][Next]_vars

-----------------------------------------------------------------------------
(* Properties. *)

InOneDirection == ~({"older", "newer"} \subseteq since)

\* The body the watch builds of pages shows sections in the order of the thread
\* and leaves none out between two it shows, whatever is asked, read, listed
\* and evicted meanwhile; unless an update that was not the page asked for was
\* merged as that page, one in between was lost, replaced in the queue or
\* suppressed with the window kept, or pages were merged at both ends, for the
\* phone knows the last page only (prv_apply_detail_text, sendDetailPage).
BodyHasNoGap ==
  InOneDirection /\ since \cap {"mistaken", "skipped"} = {} =>
    \A i \in 1..(Len(watch.body) - 1) : watch.body[i + 1] = watch.body[i] + 1

\* When nothing is under way, what the window offers to scroll to is what the
\* phone has beyond both ends of the body; unless the body was cut, its row was
\* listed again, or what the last property excludes befell it since it was last
\* replaced (prv_handle_detail_update).
EndsAgree ==
  (/\ InOneDirection /\ since \subseteq {"older", "newer"} /\ ~stale /\ link = <<>> /\ outbox = NoMessage /\ ~reading
   /\ watch.listed /\ watch.loaded /\ watch.pending = NoMessage /\ sections # <<>>) =>
    /\ watch.body # <<>>
    /\ watch.hasPrev <=> Head(watch.body) > Head(sections)
    /\ watch.hasNext <=> Last(watch.body) < Last(sections)

\* While the window waits for a page, the request or an update that will end
\* the wait is under way; unless the request or its answer was lost without a
\* word, and then the wait ends only by chance (prv_request_detail_page).
WaitIsServed ==
  watch.pending # NoMessage /\ watch.listed /\ "skipped" \notin since =>
    outbox = watch.pending \/ reading \/ link # <<>>

=============================================================================
