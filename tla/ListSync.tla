------------------------------ MODULE ListSync ------------------------------
(***************************************************************************)
(* Listing the threads (src/pkjs/index.js, syncJobs to sendJobItem): one   *)
(* sync at a time opens a client, asks for a page of threads, merges it    *)
(* into the phone's list cache and sends rows to the watch.  Saving the    *)
(* settings (webviewclosed) may happen at any moment, also in the middle   *)
(* of a sync.                                                              *)
(*                                                                         *)
(* The client is the one of module JsonRpc seen from outside: connecting   *)
(* and listing each end with a result or a failure.  Rows reach the watch  *)
(* in the order they were posted (module SendQueue), so their effect there *)
(* (src/c/main.c) is part of the step that posts them.                     *)
(***************************************************************************)
EXTENDS Naturals, Sequences, FiniteSets, SequencesExt

CONSTANTS
  Urls,      \* relay URLs the user can save
  NoUrl,     \* the empty wsUrl
  Threads,   \* thread ids
  Cursors,   \* page cursors of the server
  NoCursor,  \* null
  MaxRows,   \* MAX_WATCH_ROWS, CODEX_MAX_JOBS
  MaxLimit,  \* upper clamp of displayLimit
  MaxSaves   \* bound: how often the user saves the settings

ASSUME RowsAssumption == MaxRows \in Nat \ {0} /\ MaxLimit \in 1..MaxRows
ASSUME SavesAssumption == MaxSaves \in Nat
ASSUME NoValueAssumption == NoUrl \notin Urls /\ NoCursor \notin Cursors

VARIABLES
  settings,         \* what localStorage holds
  client,           \* currentClient: "none", "connecting" or "listing"
  syncInFlight,
  sync,             \* what the running sync's closures hold
  activeListLimit,
  listThreads,      \* the cache, newest first; listThreadIds is its range
  listNextCursor,
  watch,            \* rows, "Load more" row and sync state on the watch
  saves,            \* number of times the settings were saved
  listedFrom,       \* history: the server of the rows in the cache
  uncached          \* history: the cache was emptied by a save and not relisted

vars == <<settings, client, syncInFlight, sync, activeListLimit, listThreads,
          listNextCursor, watch, saves, listedFrom, uncached>>

Settings == [url : Urls \cup {NoUrl}, limit : 1..MaxLimit]
AnyCursor == Cursors \cup {NoCursor}
Rows == {s \in SeqOf(Threads, MaxRows) : IsInjective(s)}

\* A page of threads, newest first.
ThreadListResponse == [data : Rows, nextCursor : AnyCursor]

\* loadMore, reset: the options; url, limit: the settings read when it began.
Sync == [loadMore : BOOLEAN, reset : BOOLEAN, url : Urls, requestLimit : 0..MaxRows,
         cursor : AnyCursor]

TypeOK ==
  /\ settings \in Settings
  /\ client \in {"none", "connecting", "listing"}
  /\ syncInFlight \in BOOLEAN
  /\ sync \in Sync \cup {<<>>}
  /\ activeListLimit \in 0..MaxRows
  /\ listThreads \in Rows
  /\ listNextCursor \in AnyCursor
  /\ watch \in [rows : Rows, hasMore : BOOLEAN,
                state : {"desynced", "syncing", "synced"}]
  /\ saves \in 0..MaxSaves
  /\ listedFrom \in Urls \cup {NoUrl}
  /\ uncached \in BOOLEAN

Init ==
  /\ settings \in Settings
  /\ client = "none"
  /\ syncInFlight = FALSE
  /\ sync = <<>>
  /\ activeListLimit = 0
  /\ listThreads = <<>>
  /\ listNextCursor = NoCursor
  /\ watch = [rows |-> <<>>, hasMore |-> FALSE, state |-> "desynced"]
  /\ saves = 0
  /\ listedFrom = NoUrl
  /\ uncached = FALSE

-----------------------------------------------------------------------------
(* Messages to the watch. *)

\* sendSettingsState: without a URL the watch drops its rows.
WithSettingsState(w, url) ==
  IF url = NoUrl THEN [rows |-> <<>>, hasMore |-> FALSE, state |-> "desynced"]
                 ELSE [w EXCEPT !.state = "syncing"]

\* The watch adds a row it does not have, while it has room; so does the cache.
AddRow(rows, thread) ==
  IF Contains(rows, thread) \/ Len(rows) >= MaxRows THEN rows
                                                    ELSE Append(rows, thread)

AddRows(rows, threads) ==
  LET after[n \in 0..Len(threads)] ==
        IF n = 0 THEN rows ELSE AddRow(after[n - 1], threads[n])
  IN  after[Len(threads)]

\* Mutant: more rows are offered than the watch can hold.
SendJobsUncapped(w, threads, total, cursor, clear) ==
  [rows    |-> AddRows(IF clear THEN <<>> ELSE w.rows, threads),
   hasMore |-> cursor # NoCursor,
   state   |-> "synced"]

\* sendJobs: clear, rows, complete.
SendJobs(w, threads, total, cursor, clear) ==
  [rows    |-> AddRows(IF clear THEN <<>> ELSE w.rows, threads),
   hasMore |-> cursor # NoCursor /\ total < MaxRows,
   state   |-> "synced"]

-----------------------------------------------------------------------------
(* Starting a sync. *)

\* Mutant: a refresh asks for the display limit only.
LargerIsFirst(a, b) == a

Larger(a, b) == IF a > b THEN a ELSE b
Smaller(a, b) == IF a < b THEN a ELSE b

Begin(loadMore, reset, limit, w, url) ==
  /\ syncInFlight' = TRUE
  /\ client' = "connecting"
  /\ sync' = [loadMore |-> loadMore, reset |-> reset, url |-> url, requestLimit |-> limit,
              cursor |-> NoCursor]
  /\ watch' = [w EXCEPT !.state = "syncing"]

SyncUnchanged == UNCHANGED <<syncInFlight, client, sync>>

\* syncJobs({loadMore}) with nothing left to load only confirms the count.
NothingMore == listNextCursor = NoCursor \/ Len(listThreads) >= MaxRows

\* syncJobs, given the watch as earlier messages of the caller leave it, the
\* saved settings, the cache and the limit it finds.
SyncJobs(loadMore, reset, w, saved, threads, limit) ==
  \/ /\ saved.url = NoUrl
     /\ watch' = WithSettingsState(w, NoUrl)
     /\ activeListLimit' = limit
     /\ SyncUnchanged
  \/ /\ saved.url # NoUrl /\ syncInFlight
     /\ watch' = w
     /\ activeListLimit' = limit
     /\ SyncUnchanged
  \/ /\ saved.url # NoUrl /\ ~syncInFlight /\ loadMore /\ NothingMore
     /\ watch' = SendJobs(w, <<>>, Len(threads), NoCursor, FALSE)
     /\ activeListLimit' = limit
     /\ SyncUnchanged
  \/ /\ saved.url # NoUrl /\ ~syncInFlight /\ loadMore /\ ~NothingMore
     /\ Begin(TRUE, FALSE, Smaller(saved.limit, MaxRows - Len(threads)), w, saved.url)
     /\ activeListLimit' = limit
  \/ /\ saved.url # NoUrl /\ ~syncInFlight /\ ~loadMore
     /\ LET loaded == IF limit # 0 THEN limit ELSE Len(threads)
            request == IF reset THEN saved.limit
                       ELSE Smaller(MaxRows, Larger(saved.limit, loaded))
        IN  /\ Begin(FALSE, reset, request, w, saved.url)
            /\ activeListLimit' = request

\* app_ready from the watch, or PKJS ready.
AppReady ==
  /\ SyncJobs(FALSE, TRUE, WithSettingsState(watch, settings.url),
              settings, listThreads, activeListLimit)
  /\ UNCHANGED <<settings, listThreads, listNextCursor, saves, listedFrom, uncached>>

\* refresh from the watch, or the end of polling a thread.
Refresh ==
  /\ SyncJobs(FALSE, FALSE, watch, settings, listThreads, activeListLimit)
  /\ UNCHANGED <<settings, listThreads, listNextCursor, saves, listedFrom, uncached>>

\* The user selects "Load more": the watch shows it as syncing and asks.
LoadMore ==
  /\ watch.hasMore
  /\ SyncJobs(TRUE, FALSE, [watch EXCEPT !.state = "syncing"],
              settings, listThreads, activeListLimit)
  /\ UNCHANGED <<settings, listThreads, listNextCursor, saves, listedFrom, uncached>>

ResetListCache ==
  /\ listThreads' = <<>>
  /\ listNextCursor' = NoCursor

\* webviewclosed with valid settings: the cache is dropped and a sync asked for.
SaveSettings ==
  /\ saves < MaxSaves
  /\ saves' = saves + 1
  /\ \E new \in Settings :
       /\ settings' = new
       /\ SyncJobs(FALSE, TRUE, WithSettingsState(watch, new.url), new, <<>>, 0)
  /\ ResetListCache
  /\ uncached' = TRUE
  /\ UNCHANGED listedFrom

-----------------------------------------------------------------------------
(* The running sync. *)

\* connect() resolved: the page is requested.  The cursor is read only now.
Connected ==
  /\ client = "connecting"
  /\ client' = "listing"
  /\ sync' = [sync EXCEPT !.cursor = IF sync.loadMore THEN listNextCursor ELSE NoCursor]
  /\ UNCHANGED <<settings, syncInFlight, activeListLimit, listThreads,
                 listNextCursor, watch, saves, listedFrom, uncached>>

\* updateListCache: the cache takes the threads of the page that are new; these
\* are addedThreads.
NewThreads(page, cached) ==
  LET all == AddRows(cached, page) IN SubSeq(all, Len(cached) + 1, Len(all))

\* Mutant: a page that points to itself is asked for again.
NextCursorAsGiven(added, cursor) == cursor

\* A page that brought nothing and points to itself ends the list.
NextCursor(added, cursor) ==
  IF sync.loadMore /\ added = <<>> /\ cursor = sync.cursor THEN NoCursor ELSE cursor

EndSync ==
  /\ client' = "none"
  /\ syncInFlight' = FALSE
  /\ sync' = <<>>

\* The server answers with at most the requested number of threads.
Listed ==
  /\ client = "listing"
  /\ \E response \in ThreadListResponse :
       LET base  == IF sync.loadMore THEN listThreads ELSE <<>>
           added == NewThreads(response.data, base)
           next  == NextCursor(added, response.nextCursor)
       IN
       /\ Len(response.data) <= sync.requestLimit
       /\ listThreads' = base \o added
       /\ listNextCursor' = next
       /\ activeListLimit' = IF base \o added = <<>> THEN activeListLimit
                                                     ELSE Len(base \o added)
       /\ watch' = SendJobs(watch, IF sync.loadMore THEN added ELSE base \o added,
                            Len(base \o added), next, ~sync.loadMore)
  /\ listedFrom' = sync.url
  /\ uncached' = (uncached /\ sync.loadMore)
  /\ EndSync
  /\ UNCHANGED <<settings, saves>>

\* Mutant: the failure is not reported to the watch.
SyncFailedSilently ==
  /\ client # "none"
  /\ EndSync
  /\ UNCHANGED <<watch, settings, activeListLimit, listThreads, listNextCursor,
                 saves, listedFrom, uncached>>

\* connect() or the request failed: the cached rows stay, marked stale.
SyncFailed ==
  /\ client # "none"
  /\ watch' = [watch EXCEPT !.state = "desynced"]
  /\ EndSync
  /\ UNCHANGED <<settings, activeListLimit, listThreads, listNextCursor, saves,
                 listedFrom, uncached>>

Next ==
  \/ AppReady \/ Refresh \/ LoadMore \/ SaveSettings
  \/ Connected \/ Listed \/ SyncFailed

Spec == Init /\ [][Next]_vars

\* connect() and request() settle (JsonRpc!ConnectSettles, RequestsSettle).
FairSpec == Spec /\ WF_vars(Connected \/ Listed \/ SyncFailed)

-----------------------------------------------------------------------------
(* Properties. *)

\* There is a client exactly while a sync is in flight: no path through
\* success, failure and settings changes leaks a connection or leaves the
\* flag set with nothing to clear it (syncJobs).
ClientIffSyncing == syncInFlight <=> client # "none"

\* Unless a save has emptied the cache or the URL, the watch shows exactly the
\* cached rows, in order, and offers "Load more" exactly when the phone would
\* load more; failed, repeated and empty pages included (sendJobs,
\* updateListCache, prv_handle_job_item).
WatchShowsCache ==
  ~uncached /\ listedFrom # NoUrl /\ settings.url # NoUrl =>
    /\ watch.rows = listThreads
    /\ watch.hasMore <=> ~NothingMore

\* Loading more makes progress: a page that adds no row either moves the
\* cursor or ends the list, so "Load more" is never offered for the same empty
\* page twice (updateListCache).
LoadMoreProgresses ==
  [][client = "listing" /\ sync.loadMore /\ client' = "none" /\ watch'.state = "synced" =>
       \/ Len(listThreads') > Len(listThreads)
       \/ listNextCursor' # sync.cursor
       \/ ~watch'.hasMore]_vars

\* A refresh after a successful listing asks for every row the user has loaded
\* (activeListLimit), so it cannot fold a longer list; only app_ready and a
\* save go back to the display limit (syncJobs).
RefreshKeepsRows ==
  [][~syncInFlight /\ watch.state = "synced" /\ syncInFlight'
       /\ ~sync'.loadMore /\ ~sync'.reset
     => sync'.requestLimit >= Len(listThreads')]_vars

\* The watch never stays in the syncing state: whatever was asked, dropped
\* because a sync was running, or saved meanwhile, a sync state follows
\* (syncJobs).
WatchSettles == (watch.state = "syncing") ~> (watch.state # "syncing")

=============================================================================
