----------------------------- MODULE ListSyncProofs -----------------------------
(***************************************************************************)
(* Proofs about listing the threads, for every set of servers, threads,    *)
(* cursors and rows and every choice of pages by the server: the watch     *)
(* shows the phone's cache, loading more progresses, and a refresh keeps   *)
(* what is loaded.  Then about the settings, which say what server to ask  *)
(* and how many rows to show: the page and the phone agree on them.        *)
(***************************************************************************)
EXTENDS ListSync, Settings, SequenceTheorems, FiniteSetTheorems, WellFoundedInduction, TLAPS

-----------------------------------------------------------------------------
(***************************************************************************)
(* Numbers: the least, and induction.                                      *)
(***************************************************************************)
\* A set of numbers has a least one.  That there is one is taken from the
\* intervals up to each of them, ordered by inclusion.
LEMMA LeastNumber ==
  ASSUME NEW S \in SUBSET Nat, S # {}
  PROVE  \E x \in S : \A y \in S : x <= y
<1> DEFINE Below == {0..x : x \in S}
<1>1. Below \subseteq FiniteSubsetsOf(Nat) /\ Below # {}
  <2>1. \A x \in S : 0..x \subseteq Nat /\ IsFiniteSet(0..x)
    BY FS_Interval
  <2> QED
    BY <2>1, Zenon DEF FiniteSubsetsOf
<1>2. PICK B \in Below : \A C \in Below : <<C, B>> \notin StrictSubsetOrdering(Nat)
  BY <1>1, FS_StrictSubsetOrderingWellFounded, WFMin, Zenon
<1>3. PICK x \in S : B = 0..x
  BY <1>2
<1>4. ASSUME NEW y \in S, y < x PROVE FALSE
  <2>1. 0..y \subseteq 0..x /\ 0..y # 0..x /\ 0..y \in Below
    BY <1>4
  <2>2. <<0..y, B>> \in StrictSubsetOrdering(Nat)
    BY <2>1, <1>3, <1>4 DEF StrictSubsetOrdering
  <2> QED
    BY <2>1, <2>2, <1>2
<1>5. \A y \in S : x <= y
  BY <1>4
<1> QED
  BY <1>5

\* Induction: a set that has 0 and with each number the next has them all.
LEMMA EveryNumber ==
  ASSUME NEW S, 0 \in S, \A n \in Nat : n \in S => n + 1 \in S
  PROVE  Nat \subseteq S
<1> SUFFICES ASSUME Nat \ S # {} PROVE FALSE
  OBVIOUS
<1>1. PICK n \in Nat \ S : \A m \in Nat \ S : n <= m
  BY LeastNumber
<1>2. n # 0 /\ n - 1 \in Nat /\ n - 1 \in S /\ (n - 1) + 1 = n
  BY <1>1
<1> QED
  BY <1>2

-----------------------------------------------------------------------------
(***************************************************************************)
(* Rows, and what adding threads to them does.                             *)
(***************************************************************************)
\* The rows are the sequences of distinct threads the watch has room for.
LEMMA RowsAre ==
  ASSUME NEW s
  PROVE  s \in Rows <=> /\ s \in Seq(Threads) /\ Len(s) <= MaxRows
                        /\ \A i, j \in 1..Len(s) : s[i] = s[j] => i = j
<1>1. MaxRows \in Nat
  BY RowsAssumption
<1>2. ASSUME s \in Seq(Threads), Len(s) <= MaxRows PROVE s \in SeqOf(Threads, MaxRows)
  <2>1. Len(s) \in 0..MaxRows /\ s \in [1..Len(s) -> Threads]
    BY <1>1, <1>2, LenProperties
  <2> QED
    BY <2>1 DEF SeqOf
<1>3. ASSUME s \in SeqOf(Threads, MaxRows) PROVE s \in Seq(Threads) /\ Len(s) <= MaxRows
  <2>1. PICK n \in 0..MaxRows : s \in [1..n -> Threads]
    BY <1>3 DEF SeqOf
  <2>2. n \in Nat /\ s \in Seq(Threads)
    BY <1>1, <2>1, IsASeq
  <2>3. Len(s) = n
    BY <2>1, <2>2, LenProperties
  <2> QED
    BY <2>2, <2>3
<1>4. s \in Seq(Threads) => DOMAIN s = 1..Len(s)
  BY LenProperties
<1> QED
  BY <1>2, <1>3, <1>4, Zenon DEF Rows, IsInjective

\* all begins with rows.
Extends(all, rows) == Len(rows) <= Len(all) /\ \A i \in 1..Len(rows) : all[i] = rows[i]

\* Adding one thread.
LEMMA AddRowIsRows ==
  ASSUME NEW rows \in Rows, NEW thread \in Threads
  PROVE  AddRow(rows, thread) \in Rows /\ Extends(AddRow(rows, thread), rows)
<1>1. /\ rows \in Seq(Threads) /\ Len(rows) \in Nat /\ Len(rows) <= MaxRows /\ MaxRows \in Nat
      /\ \A i, j \in 1..Len(rows) : rows[i] = rows[j] => i = j
  BY RowsAre, RowsAssumption, LenProperties
<1>2. CASE Contains(rows, thread) \/ Len(rows) >= MaxRows
  BY <1>1, <1>2 DEF AddRow, Extends
<1>3. CASE ~(Contains(rows, thread) \/ Len(rows) >= MaxRows)
  <2> DEFINE more == Append(rows, thread)
  <2>1. /\ more \in Seq(Threads) /\ Len(more) = Len(rows) + 1 /\ more[Len(rows) + 1] = thread
        /\ \A i \in 1..Len(rows) : more[i] = rows[i]
    BY <1>1, AppendProperties
  <2>2. \A i \in 1..Len(rows) : rows[i] # thread
    BY <1>3 DEF Contains
  <2>3. AddRow(rows, thread) = more
    BY <1>3 DEF AddRow
  <2> HIDE DEF more
  <2>4. \A i, j \in 1..Len(more) : more[i] = more[j] => i = j
    BY <1>1, <2>1, <2>2
  <2>5. Len(more) <= MaxRows
    BY <1>1, <1>3, <2>1
  <2>6. more \in Rows
    BY <2>1, <2>4, <2>5, RowsAre
  <2> QED
    BY <1>1, <2>1, <2>3, <2>6 DEF Extends
<1> QED
  BY <1>2, <1>3

\* Adding threads is adding one after the other.
LEMMA AddRowsSteps ==
  ASSUME NEW rows, NEW threads, Len(threads) \in Nat
  PROVE  \E after : /\ AddRows(rows, threads) = after[Len(threads)]
                    /\ after[0] = rows
                    /\ \A n \in Nat : n + 1 \in 1..Len(threads) =>
                         after[n + 1] = AddRow(after[n], threads[n + 1])
<1> DEFINE N == Len(threads)
           Step(f, n) == IF n = 0 THEN rows ELSE AddRow(f[n - 1], threads[n])
           after == CHOOSE f : f = [n \in 0..N |-> Step(f, n)]
<1>1. N \in Nat
  OBVIOUS
<1>2. AddRows(rows, threads) = after[N]
  BY Zenon DEF AddRows
<1>3. \E f : f = [n \in 0..N |-> Step(f, n)]
  <2> DEFINE Defined == {m \in Nat : \E f : f = [n \in 0..m |-> Step(f, n)]}
  <2>1. 0 \in Defined
    <3> DEFINE f == [n \in 0..0 |-> rows]
    <3>1. f = [n \in 0..0 |-> Step(f, n)]
      OBVIOUS
    <3> QED
      BY <3>1
  <2>2. ASSUME NEW m \in Nat, m \in Defined PROVE m + 1 \in Defined
    <3>1. PICK f : f = [n \in 0..m |-> Step(f, n)]
      BY <2>2
    <3> DEFINE last == AddRow(f[m], threads[m + 1])
               g == [n \in 0..(m + 1) |-> IF n <= m THEN f[n] ELSE last]
    <3>2. \A n \in 0..m : f[n] = Step(f, n)
      <4> HIDE DEF Step
      <4> QED
        BY <3>1
    <3>3. \A n \in 0..(m + 1) : g[n] = Step(g, n)
      BY <3>2
    <3>4. g = [n \in 0..(m + 1) |-> Step(g, n)]
      <4>1. g = [n \in 0..(m + 1) |-> g[n]]
        OBVIOUS
      <4> HIDE DEF g, Step
      <4> QED
        BY <3>3, <4>1
    <3> HIDE DEF g, Step
    <3> QED
      BY <3>4
  <2> HIDE DEF Defined
  <2>3. N \in Defined
    BY <1>1, <2>1, <2>2, EveryNumber
  <2> QED
    BY <2>3 DEF Defined
<1>4. after = [n \in 0..N |-> Step(after, n)]
  <2> HIDE DEF Step
  <2> QED
    BY <1>3, Zenon
<1> HIDE DEF after
<1>5. \A n \in 0..N : after[n] = Step(after, n)
  <2> HIDE DEF Step
  <2> QED
    BY <1>4
<1>6. after[0] = rows
  BY <1>1, <1>5
<1>7. ASSUME NEW n \in Nat, n + 1 \in 1..N
      PROVE  after[n + 1] = AddRow(after[n], threads[n + 1])
  <2>1. n + 1 \in 0..N /\ n + 1 # 0 /\ (n + 1) - 1 = n
    BY <1>7
  <2> HIDE DEF N
  <2> QED
    BY <1>5, <2>1
<1> QED
  BY <1>2, <1>6, <1>7

\* What comes of it are rows that begin with the old ones.
LEMMA AddRowsIsRows ==
  ASSUME NEW rows \in Rows, NEW threads \in Seq(Threads)
  PROVE  AddRows(rows, threads) \in Rows /\ Extends(AddRows(rows, threads), rows)
<1> DEFINE N == Len(threads)
<1>1. N \in Nat /\ \A i \in 1..N : threads[i] \in Threads
  BY LenProperties, ElementOfSeq
<1>2. PICK after : /\ AddRows(rows, threads) = after[N]
                   /\ after[0] = rows
                   /\ \A n \in Nat : n + 1 \in 1..N =>
                        after[n + 1] = AddRow(after[n], threads[n + 1])
  BY <1>1, AddRowsSteps
<1> HIDE DEF N
<1> DEFINE Good == {n \in Nat : n <= N => after[n] \in Rows /\ Extends(after[n], rows)}
<1>3. 0 \in Good
  <2>1. Len(rows) \in Nat
    BY RowsAre, LenProperties
  <2> QED
    BY <1>2, <2>1 DEF Extends
<1>4. ASSUME NEW n \in Nat, n \in Good PROVE n + 1 \in Good
  <2> SUFFICES ASSUME n + 1 <= N PROVE after[n + 1] \in Rows /\ Extends(after[n + 1], rows)
    OBVIOUS
  <2>1. n + 1 \in 1..N /\ after[n] \in Rows /\ Extends(after[n], rows)
    BY <1>1, <1>4
  <2>2. after[n + 1] = AddRow(after[n], threads[n + 1]) /\ threads[n + 1] \in Threads
    BY <1>1, <1>2, <2>1
  <2>3. after[n + 1] \in Rows /\ Extends(after[n + 1], after[n])
    BY <2>1, <2>2, AddRowIsRows
  <2>4. Len(rows) \in Nat /\ Len(after[n]) \in Nat /\ Len(after[n + 1]) \in Nat
    BY <2>1, <2>3, RowsAre, LenProperties
  <2> QED
    BY <2>1, <2>3, <2>4 DEF Extends
<1> HIDE DEF Good
<1>5. N \in Good
  BY <1>1, <1>3, <1>4, EveryNumber
<1> QED
  BY <1>1, <1>2, <1>5 DEF Good

\* Rows that begin with rows are what adding the others to them makes.
LEMMA Rebuilt ==
  ASSUME NEW rows \in Rows, NEW all \in Rows, Extends(all, rows),
         NEW threads \in Seq(Threads), Len(threads) = Len(all) - Len(rows),
         \A i \in 1..Len(threads) : threads[i] = all[Len(rows) + i]
  PROVE  AddRows(rows, threads) = all
<1> DEFINE N == Len(threads)
           L == Len(rows)
<1>1. /\ N \in Nat /\ L \in Nat /\ Len(all) \in Nat /\ Len(all) = L + N /\ Len(all) <= MaxRows
      /\ all \in Seq(Threads) /\ \A i, j \in 1..Len(all) : all[i] = all[j] => i = j
      /\ MaxRows \in Nat
  BY LenProperties, RowsAre, RowsAssumption
<1>2. Len(threads) \in Nat
  BY LenProperties
<1>3. PICK after : /\ AddRows(rows, threads) = after[N]
                   /\ after[0] = rows
                   /\ \A n \in Nat : n + 1 \in 1..N =>
                        after[n + 1] = AddRow(after[n], threads[n + 1])
  BY <1>2, AddRowsSteps
<1>4. \A i \in 1..N : threads[i] = all[L + i]
  OBVIOUS
<1>5. \A i \in 1..L : all[i] = rows[i]
  BY DEF Extends
<1>6. rows \in Seq(Threads)
  BY RowsAre
<1> DEFINE Good == {n \in Nat : n <= N => /\ after[n] \in Seq(Threads) /\ Len(after[n]) = L + n
                                          /\ \A i \in 1..(L + n) : after[n][i] = all[i]}
<1>7. 0 \in Good
  BY <1>1, <1>3, <1>5, <1>6
<1> HIDE DEF N, L
<1>8. ASSUME NEW n \in Nat, n \in Good PROVE n + 1 \in Good
  <2> SUFFICES ASSUME n + 1 <= N
               PROVE  /\ after[n + 1] \in Seq(Threads) /\ Len(after[n + 1]) = L + (n + 1)
                      /\ \A i \in 1..(L + (n + 1)) : after[n + 1][i] = all[i]
    OBVIOUS
  <2>1. /\ n + 1 \in 1..N
        /\ after[n] \in Seq(Threads) /\ Len(after[n]) = L + n
        /\ \A i \in 1..(L + n) : after[n][i] = all[i]
    BY <1>1, <1>8
  <2> DEFINE thread == all[L + (n + 1)]
  <2>2. after[n + 1] = AddRow(after[n], thread)
    BY <1>3, <1>4, <2>1
  <2>3. thread \in Threads /\ L + (n + 1) \in 1..Len(all)
    BY <1>1, ElementOfSeq
  <2>4. ~Contains(after[n], thread)
    <3> SUFFICES ASSUME NEW i \in 1..(L + n), after[n][i] = thread PROVE FALSE
      BY <2>1 DEF Contains
    <3>1. i \in 1..Len(all) /\ all[i] = thread
      BY <1>1, <2>1
    <3>2. i = L + (n + 1)
      BY <1>1, <2>3, <3>1
    <3> QED
      BY <1>1, <3>2
  <2>5. ~(Len(after[n]) >= MaxRows)
    BY <1>1, <2>1
  <2>6. after[n + 1] = Append(after[n], thread)
    BY <2>2, <2>4, <2>5 DEF AddRow
  <2>7. L + (n + 1) = (L + n) + 1
    BY <1>1
  <2>8. thread = all[(L + n) + 1]
    BY <2>7
  <2> HIDE DEF thread
  <2>9. /\ after[n + 1] \in Seq(Threads) /\ Len(after[n + 1]) = (L + n) + 1
        /\ after[n + 1][(L + n) + 1] = thread
        /\ \A i \in 1..(L + n) : after[n + 1][i] = after[n][i]
    BY <2>1, <2>3, <2>6, AppendProperties
  <2>10. ASSUME NEW i \in 1..(L + (n + 1)) PROVE after[n + 1][i] = all[i]
    <3>1. i \in 1..(L + n) \/ i = (L + n) + 1
      BY <1>1
    <3> QED
      BY <2>1, <2>8, <2>9, <3>1
  <2> QED
    BY <2>7, <2>9, <2>10
<1> HIDE DEF Good
<1>9. N \in Good
  BY <1>1, <1>7, <1>8, EveryNumber
<1>10. /\ after[N] \in Seq(Threads) /\ Len(after[N]) = Len(all)
      /\ \A i \in 1..Len(all) : after[N][i] = all[i]
  BY <1>1, <1>9 DEF Good
<1>11. after[N] = all
  BY <1>1, <1>10, SeqEqual
<1> QED
  BY <1>3, <1>11

\* Adding nothing.
LEMMA AddedNothing ==
  ASSUME NEW rows
  PROVE  AddRows(rows, <<>>) = rows
<1>1. Len(<<>>) = 0
  OBVIOUS
<1> DEFINE none == <<>>
<1>2. Len(none) \in Nat /\ Len(none) = 0
  BY <1>1
<1> HIDE DEF none
<1>3. AddRows(rows, none) = rows
  BY <1>2, AddRowsSteps
<1> QED
  BY <1>3 DEF none

\* updateListCache: the new threads follow the cached ones, and sending them to
\* a watch that shows the cached ones makes it show all.
LEMMA NewThreadsFollow ==
  ASSUME NEW cached \in Rows, NEW listed \in Rows
  PROVE  /\ NewThreads(listed, cached) \in Seq(Threads)
         /\ cached \o NewThreads(listed, cached) \in Rows
         /\ AddRows(cached, NewThreads(listed, cached)) = cached \o NewThreads(listed, cached)
         /\ Len(cached \o NewThreads(listed, cached)) = Len(cached) + Len(NewThreads(listed, cached))
<1> DEFINE all == AddRows(cached, listed)
           new == NewThreads(listed, cached)
<1>1. listed \in Seq(Threads) /\ cached \in Seq(Threads) /\ Len(cached) \in Nat
  BY RowsAre, LenProperties
<1>2. all \in Rows /\ Extends(all, cached)
  BY <1>1, AddRowsIsRows
<1>3. new = SubSeq(all, Len(cached) + 1, Len(all))
  BY Zenon DEF NewThreads
<1> HIDE DEF all, new
<1>4. all \in Seq(Threads) /\ Len(all) \in Nat /\ Len(cached) <= Len(all)
  BY <1>2, RowsAre, LenProperties DEF Extends
<1>5. /\ new \in Seq(Threads) /\ Len(new) = Len(all) - Len(cached)
      /\ \A i \in 1..Len(new) : new[i] = all[Len(cached) + i]
  BY <1>1, <1>3, <1>4, SubSeqProperties
<1>6. AddRows(cached, new) = all
  BY <1>2, <1>5, Rebuilt
<1> DEFINE both == cached \o new
<1>7. /\ both \in Seq(Threads) /\ Len(both) = Len(cached) + Len(new)
      /\ \A i \in 1..Len(both) :
           both[i] = IF i <= Len(cached) THEN cached[i] ELSE new[i - Len(cached)]
  BY <1>1, <1>5, ConcatProperties
<1> HIDE DEF both
<1>8. \A i \in 1..Len(all) : both[i] = all[i]
  <2> SUFFICES ASSUME NEW i \in 1..Len(all) PROVE both[i] = all[i]
    OBVIOUS
  <2>1. CASE i <= Len(cached)
    BY <1>1, <1>2, <1>4, <1>5, <1>7, <2>1 DEF Extends
  <2>2. CASE ~(i <= Len(cached))
    <3>1. i - Len(cached) \in 1..Len(new) /\ Len(cached) + (i - Len(cached)) = i /\ i \in 1..Len(both)
      BY <1>1, <1>4, <1>5, <1>7, <2>2
    <3> QED
      BY <1>5, <1>7, <2>2, <3>1
  <2> QED
    BY <2>1, <2>2
<1>9. Len(both) = Len(all)
  BY <1>1, <1>4, <1>5, <1>7
<1>10. both = all
  BY <1>4, <1>7, <1>8, <1>9, SeqEqual
<1> QED
  BY <1>2, <1>5, <1>6, <1>7, <1>10 DEF both, new

-----------------------------------------------------------------------------
(***************************************************************************)
(* The invariant.                                                          *)
(***************************************************************************)
\* What was listed is known, a page is only loaded after a list, "Load more" is
\* offered for more or for a cache that a save has emptied, and a watch that is
\* synced has no more rows than the limit in force.
Listings ==
  /\ listedFrom = NoUrl => listThreads = <<>> /\ listNextCursor = NoCursor
  /\ client # "none" /\ sync.loadMore /\ ~uncached => listedFrom # NoUrl
  /\ watch.hasMore /\ NothingMore => listThreads = <<>>
  /\ watch.state = "synced" => activeListLimit = 0 \/ activeListLimit >= Len(listThreads)

IInv ==
  /\ TypeOK
  /\ ClientIffSyncing
  /\ client # "none" => sync \in Sync
  /\ Listings
  /\ WatchShowsCache

\* What the watch can show.
Shown == [rows : Rows, hasMore : BOOLEAN, state : {"desynced", "syncing", "synced"}]

\* The empty table.
LEMMA NoRows == <<>> \in Rows /\ Len(<<>>) = 0
<1> DEFINE none == <<>>
<1>1. none \in Seq(Threads) /\ Len(none) = 0
  OBVIOUS
<1>2. none \in Rows
  <2>1. Len(none) <= MaxRows /\ \A i, j \in 1..Len(none) : none[i] = none[j] => i = j
    BY <1>1, RowsAssumption
  <2> HIDE DEF none
  <2> QED
    BY <1>1, <2>1, RowsAre
<1> HIDE DEF none
<1> QED
  BY <1>1, <1>2 DEF none

\* What the parts of a watch's state are after the messages of a sync.
LEMMA SettingsStateShown ==
  ASSUME NEW w \in Shown, NEW url
  PROVE  /\ WithSettingsState(w, url) \in Shown
         /\ WithSettingsState(w, url).state # "synced"
         /\ url = NoUrl => ~WithSettingsState(w, url).hasMore
         /\ url # NoUrl => /\ WithSettingsState(w, url).rows = w.rows
                           /\ WithSettingsState(w, url).hasMore = w.hasMore
         /\ WithSettingsState(w, url).hasMore => w.hasMore
<1>1. CASE url = NoUrl
  BY <1>1, NoRows DEF WithSettingsState, Shown
<1>2. CASE url # NoUrl
  BY <1>2 DEF WithSettingsState, Shown
<1> QED
  BY <1>1, <1>2

\* A sync state, and errors and settings, leave the rows alone.
LEMMA StateShown ==
  ASSUME NEW w \in Shown, NEW state \in {"desynced", "syncing", "synced"}
  PROVE  /\ [w EXCEPT !.state = state] \in Shown
         /\ [w EXCEPT !.state = state].rows = w.rows
         /\ [w EXCEPT !.state = state].hasMore = w.hasMore
         /\ [w EXCEPT !.state = state].state = state
  BY DEF Shown

\* sendJobs makes the watch show the jobs it is given.
LEMMA SentJobsShown ==
  ASSUME NEW w \in Shown, NEW threads \in Seq(Threads), NEW total, NEW cursor,
         NEW clear \in BOOLEAN
  PROVE  /\ SendJobs(w, threads, total, cursor, clear) \in Shown
         /\ SendJobs(w, threads, total, cursor, clear).rows =
              AddRows(IF clear THEN <<>> ELSE w.rows, threads)
         /\ SendJobs(w, threads, total, cursor, clear).hasMore =
              (cursor # NoCursor /\ total < MaxRows)
         /\ SendJobs(w, threads, total, cursor, clear).state = "synced"
<1>1. (IF clear THEN <<>> ELSE w.rows) \in Rows
  BY NoRows DEF Shown
<1> DEFINE rows == AddRows(IF clear THEN <<>> ELSE w.rows, threads)
<1>2. rows \in Rows
  BY <1>1, AddRowsIsRows
<1>3. SendJobs(w, threads, total, cursor, clear) =
        [rows |-> rows, hasMore |-> cursor # NoCursor /\ total < MaxRows, state |-> "synced"]
  BY Zenon DEF SendJobs
<1> HIDE DEF rows
<1>4. (cursor # NoCursor /\ total < MaxRows) \in BOOLEAN
  OBVIOUS
<1> QED
  BY <1>2, <1>3, <1>4 DEF Shown, rows

\* The limits stay within the table.
LEMMA Limits ==
  ASSUME NEW saved \in Settings, NEW n \in 0..MaxRows, NEW m \in 0..MaxRows
  PROVE  /\ saved.limit \in 0..MaxRows
         /\ Smaller(saved.limit, MaxRows - n) \in 0..MaxRows
         /\ Smaller(MaxRows, Larger(saved.limit, m)) \in 0..MaxRows
         /\ Smaller(MaxRows, Larger(saved.limit, m)) >= m
<1>1. MaxRows \in Nat /\ saved.limit \in Nat /\ saved.limit <= MaxRows
  BY RowsAssumption DEF Settings
<1> QED
  BY <1>1 DEF Smaller, Larger

\* The whole of syncJobs.
LEMMA SyncJobsDoes ==
  ASSUME IInv, NEW loadMore \in BOOLEAN, NEW reset \in BOOLEAN, NEW w \in Shown,
         NEW saved \in Settings, NEW threads \in Rows, NEW limit \in 0..MaxRows,
         SyncJobs(loadMore, reset, w, saved, threads, limit)
  PROVE  /\ watch' \in Shown /\ activeListLimit' \in 0..MaxRows
         /\ client' \in {"none", "connecting", "listing"} /\ syncInFlight' \in BOOLEAN
         /\ sync' \in Sync \cup {<<>>}
         /\ syncInFlight' <=> client' # "none"
         /\ client' # "none" => sync' \in Sync
         /\ client' # "none" /\ sync'.loadMore =>
              (loadMore /\ ~NothingMore) \/ (client # "none" /\ sync' = sync)
         /\ saved.url # NoUrl =>
              /\ watch'.rows = w.rows
              /\ watch'.hasMore = w.hasMore \/ (NothingMore /\ watch'.hasMore = FALSE)
         /\ watch'.hasMore => w.hasMore
         /\ watch'.state = "synced" =>
              activeListLimit' = limit /\ (w.state = "synced" \/ (loadMore /\ NothingMore))
<1>1. /\ client \in {"none", "connecting", "listing"} /\ syncInFlight \in BOOLEAN
      /\ sync \in Sync \cup {<<>>}
      /\ syncInFlight <=> client # "none"
      /\ client # "none" => sync \in Sync
  BY DEF IInv, TypeOK, ClientIffSyncing
<1>2. Len(threads) \in 0..MaxRows
  BY RowsAre, LenProperties, RowsAssumption
<1>3. saved.url \in Urls \cup {NoUrl} /\ NoCursor \in AnyCursor
  BY DEF Settings, AnyCursor
<1>4. ASSUME saved.url # NoUrl, NEW more \in BOOLEAN, NEW anew \in BOOLEAN,
             NEW request \in 0..MaxRows, Begin(more, anew, request, w, saved.url)
      PROVE  /\ watch' \in Shown /\ client' = "connecting" /\ syncInFlight' = TRUE
             /\ sync' \in Sync /\ sync'.loadMore = more
             /\ watch'.rows = w.rows /\ watch'.hasMore = w.hasMore /\ watch'.state = "syncing"
  <2>1. sync' = [loadMore |-> more, reset |-> anew, url |-> saved.url,
                 requestLimit |-> request, cursor |-> NoCursor]
    BY <1>4 DEF Begin
  <2>2. sync' \in Sync /\ sync'.loadMore = more
    BY <1>3, <1>4, <2>1 DEF Sync
  <2> QED
    BY <1>4, <2>2, StateShown DEF Begin
<1>5. CASE /\ saved.url = NoUrl
           /\ watch' = WithSettingsState(w, NoUrl)
           /\ activeListLimit' = limit
           /\ SyncUnchanged
  BY <1>1, <1>5, SettingsStateShown DEF SyncUnchanged
<1>6. CASE /\ saved.url # NoUrl /\ syncInFlight
           /\ watch' = w
           /\ activeListLimit' = limit
           /\ SyncUnchanged
  BY <1>1, <1>6 DEF SyncUnchanged
<1>7. CASE /\ saved.url # NoUrl /\ ~syncInFlight /\ loadMore /\ NothingMore
           /\ watch' = SendJobs(w, <<>>, Len(threads), NoCursor, FALSE)
           /\ activeListLimit' = limit
           /\ SyncUnchanged
  <2>1. <<>> \in Seq(Threads)
    OBVIOUS
  <2> DEFINE sent == SendJobs(w, <<>>, Len(threads), NoCursor, FALSE)
  <2>2. sent \in Shown /\ sent.rows = AddRows(w.rows, <<>>) /\ sent.hasMore = FALSE
    <3>1. /\ sent \in Shown /\ sent.rows = AddRows(IF FALSE THEN <<>> ELSE w.rows, <<>>)
          /\ sent.hasMore = (NoCursor # NoCursor /\ Len(threads) < MaxRows)
      BY <2>1, SentJobsShown, ZenonT(60)
    <3> HIDE DEF sent
    <3> QED
      BY <3>1
  <2> HIDE DEF sent
  <2>3. AddRows(w.rows, <<>>) = w.rows
    BY AddedNothing
  <2>4. watch' = sent
    BY <1>7 DEF sent
  <2>5. watch' \in Shown /\ watch'.rows = w.rows /\ watch'.hasMore = FALSE
    BY <2>2, <2>3, <2>4
  <2> QED
    BY <1>1, <1>7, <2>5 DEF SyncUnchanged
<1>8. CASE /\ saved.url # NoUrl /\ ~syncInFlight /\ loadMore /\ ~NothingMore
           /\ Begin(TRUE, FALSE, Smaller(saved.limit, MaxRows - Len(threads)), w, saved.url)
           /\ activeListLimit' = limit
  <2>1. Smaller(saved.limit, MaxRows - Len(threads)) \in 0..MaxRows
    BY <1>2, Limits
  <2> QED
    BY <1>4, <1>8, <2>1
<1>9. CASE /\ saved.url # NoUrl /\ ~syncInFlight /\ ~loadMore
           /\ LET loaded == IF limit # 0 THEN limit ELSE Len(threads)
                  request == IF reset THEN saved.limit
                             ELSE Smaller(MaxRows, Larger(saved.limit, loaded))
              IN  /\ Begin(FALSE, reset, request, w, saved.url)
                  /\ activeListLimit' = request
  <2> DEFINE loaded == IF limit # 0 THEN limit ELSE Len(threads)
             request == IF reset THEN saved.limit
                        ELSE Smaller(MaxRows, Larger(saved.limit, loaded))
  <2>1. loaded \in 0..MaxRows
    BY <1>2
  <2> HIDE DEF loaded
  <2>2. request \in 0..MaxRows
    BY <2>1, Limits
  <2>3. Begin(FALSE, reset, request, w, saved.url) /\ activeListLimit' = request
    BY <1>9 DEF loaded
  <2> HIDE DEF request
  <2> QED
    BY <1>4, <1>9, <2>2, <2>3
<1> QED
  BY <1>5, <1>6, <1>7, <1>8, <1>9, Zenon DEF SyncJobs

-----------------------------------------------------------------------------
(***************************************************************************)
(* The actions.                                                            *)
(***************************************************************************)
\* Every message of the watch, and ready, ask for a sync.
LEMMA AskedIInv ==
  ASSUME IInv, NEW loadMore \in BOOLEAN, NEW reset \in BOOLEAN, NEW w \in Shown,
         settings.url # NoUrl => w.rows = watch.rows /\ w.hasMore = watch.hasMore,
         w.hasMore => watch.hasMore,
         w.state = "synced" => watch.state = "synced",
         loadMore => watch.hasMore,
         SyncJobs(loadMore, reset, w, settings, listThreads, activeListLimit),
         UNCHANGED <<settings, listThreads, listNextCursor, saves, listedFrom, uncached>>
  PROVE  IInv'
<1>1. /\ settings \in Settings /\ listThreads \in Rows /\ activeListLimit \in 0..MaxRows
      /\ listNextCursor \in AnyCursor /\ saves \in 0..MaxSaves
      /\ listedFrom \in Urls \cup {NoUrl} /\ uncached \in BOOLEAN
  BY DEF IInv, TypeOK
<1>2. /\ watch' \in Shown /\ activeListLimit' \in 0..MaxRows
      /\ client' \in {"none", "connecting", "listing"} /\ syncInFlight' \in BOOLEAN
      /\ sync' \in Sync \cup {<<>>}
      /\ syncInFlight' <=> client' # "none"
      /\ client' # "none" => sync' \in Sync
      /\ client' # "none" /\ sync'.loadMore =>
           (loadMore /\ ~NothingMore) \/ (client # "none" /\ sync' = sync)
      /\ settings.url # NoUrl =>
           /\ watch'.rows = w.rows
           /\ watch'.hasMore = w.hasMore \/ (NothingMore /\ watch'.hasMore = FALSE)
      /\ watch'.hasMore => w.hasMore
      /\ watch'.state = "synced" =>
           activeListLimit' = activeListLimit /\ (w.state = "synced" \/ (loadMore /\ NothingMore))
  BY <1>1, SyncJobsDoes
<1>3. NothingMore' = NothingMore
  BY DEF NothingMore
<1>4. TypeOK'
  BY <1>1, <1>2 DEF TypeOK, Shown
<1>5. ClientIffSyncing' /\ (client' # "none" => sync' \in Sync)
  BY <1>2 DEF ClientIffSyncing
<1>6. Listings'
  <2>1. listedFrom' = NoUrl => listThreads' = <<>> /\ listNextCursor' = NoCursor
    BY DEF IInv, Listings
  <2>2. client' # "none" /\ sync'.loadMore /\ ~uncached' => listedFrom' # NoUrl
    BY <1>2 DEF IInv, Listings, NothingMore
  <2>3. watch'.hasMore /\ NothingMore' => listThreads' = <<>>
    BY <1>2, <1>3 DEF IInv, Listings
  <2>4. watch'.state = "synced" => activeListLimit' = 0 \/ activeListLimit' >= Len(listThreads')
    <3>1. watch.hasMore /\ NothingMore => activeListLimit >= Len(listThreads)
      BY <1>1, NoRows DEF IInv, Listings
    <3> QED
      BY <1>2, <3>1 DEF IInv, Listings
  <2> QED
    BY <2>1, <2>2, <2>3, <2>4 DEF Listings
<1>7. WatchShowsCache'
  BY <1>2, <1>3 DEF IInv, WatchShowsCache
<1> QED
  BY <1>4, <1>5, <1>6, <1>7 DEF IInv

\* app_ready may be answered from the cache, then begins a sync.
LEMMA AppReadyIInv ==
  ASSUME IInv, AppReady
  PROVE  IInv'
<1>1. watch \in Shown
  BY DEF IInv, TypeOK, Shown
<1> DEFINE w == WithSettingsState(watch, settings.url)
<1>2. /\ w \in Shown /\ w.state # "synced"
      /\ settings.url # NoUrl => w.rows = watch.rows /\ w.hasMore = watch.hasMore
      /\ w.hasMore => watch.hasMore
  BY <1>1, SettingsStateShown
<1>3. /\ SyncJobs(FALSE, TRUE, w, settings, listThreads, activeListLimit)
      /\ UNCHANGED <<settings, listThreads, listNextCursor, saves, listedFrom, uncached>>
  BY Zenon DEF AppReady
<1> HIDE DEF w
<1> QED
  BY <1>2, <1>3, AskedIInv

\* A refresh begins a sync with the limit in force.
LEMMA RefreshIInv ==
  ASSUME IInv, Refresh
  PROVE  IInv'
<1>1. watch \in Shown
  BY DEF IInv, TypeOK, Shown
<1> QED
  BY <1>1, AskedIInv DEF Refresh

\* load_more raises the limit and begins a sync, or begins none.
LEMMA LoadMoreIInv ==
  ASSUME IInv, LoadMore
  PROVE  IInv'
<1>1. watch \in Shown
  BY DEF IInv, TypeOK, Shown
<1> DEFINE w == [watch EXCEPT !.state = "syncing"]
<1>2. w \in Shown /\ w.state # "synced" /\ w.rows = watch.rows /\ w.hasMore = watch.hasMore
  BY <1>1, StateShown
<1>3. /\ SyncJobs(TRUE, FALSE, w, settings, listThreads, activeListLimit)
      /\ UNCHANGED <<settings, listThreads, listNextCursor, saves, listedFrom, uncached>>
      /\ watch.hasMore
  BY Zenon DEF LoadMore
<1> HIDE DEF w
<1> QED
  BY <1>2, <1>3, AskedIInv

\* Saved settings forget the cursor and the limit and begin a sync.
LEMMA SaveSettingsIInv ==
  ASSUME IInv, SaveSettings
  PROVE  IInv'
<1>1. watch \in Shown /\ saves \in 0..MaxSaves /\ listedFrom \in Urls \cup {NoUrl}
  BY DEF IInv, TypeOK, Shown
<1>2. PICK new \in Settings :
        /\ settings' = new
        /\ SyncJobs(FALSE, TRUE, WithSettingsState(watch, new.url), new, <<>>, 0)
  BY DEF SaveSettings
<1> DEFINE w == WithSettingsState(watch, new.url)
           none == <<>>
<1>3. w \in Shown /\ w.state # "synced"
  BY <1>1, SettingsStateShown
<1>4. SyncJobs(FALSE, TRUE, w, new, none, 0)
  BY <1>2
<1>5. none \in Rows /\ 0 \in 0..MaxRows /\ listThreads' = none
  BY NoRows, RowsAssumption DEF SaveSettings, ResetListCache
<1> HIDE DEF w, none
<1>6. /\ watch' \in Shown /\ activeListLimit' \in 0..MaxRows
      /\ client' \in {"none", "connecting", "listing"} /\ syncInFlight' \in BOOLEAN
      /\ sync' \in Sync \cup {<<>>}
      /\ syncInFlight' <=> client' # "none"
      /\ client' # "none" => sync' \in Sync
      /\ watch'.state # "synced"
  BY <1>3, <1>4, <1>5, SyncJobsDoes
<1>7. /\ saves' \in 0..MaxSaves /\ listNextCursor' = NoCursor /\ uncached' = TRUE
      /\ listedFrom' = listedFrom
  BY <1>1, SavesAssumption DEF SaveSettings, ResetListCache
<1>8. TypeOK'
  BY <1>1, <1>2, <1>5, <1>6, <1>7 DEF TypeOK, Shown, AnyCursor
<1>9. Listings' /\ WatchShowsCache'
  BY <1>5, <1>6, <1>7 DEF Listings, WatchShowsCache, none
<1> QED
  BY <1>6, <1>8, <1>9 DEF IInv, ClientIffSyncing

\* An open socket only moves the sync on.
LEMMA ConnectedIInv ==
  ASSUME IInv, Connected
  PROVE  IInv'
<1>1. sync \in Sync /\ client = "connecting" /\ listNextCursor \in AnyCursor
  BY DEF IInv, Connected, TypeOK
<1> DEFINE cursor == IF sync.loadMore THEN listNextCursor ELSE NoCursor
<1>2. cursor \in AnyCursor /\ sync' = [sync EXCEPT !.cursor = cursor]
  BY <1>1 DEF AnyCursor, Connected
<1> HIDE DEF cursor
<1>3. sync' \in Sync /\ sync'.loadMore = sync.loadMore
  BY <1>1, <1>2 DEF Sync
<1>4. client' = "listing" /\ UNCHANGED <<settings, syncInFlight, activeListLimit, listThreads,
                                        listNextCursor, watch, saves, listedFrom, uncached>>
  BY DEF Connected
<1>5. TypeOK'
  BY <1>3, <1>4 DEF IInv, TypeOK
<1>6. ClientIffSyncing' /\ WatchShowsCache'
  BY <1>1, <1>4 DEF IInv, ClientIffSyncing, WatchShowsCache, NothingMore
<1>7. Listings'
  BY <1>1, <1>3, <1>4 DEF IInv, Listings, NothingMore
<1> QED
  BY <1>3, <1>5, <1>6, <1>7 DEF IInv

\* A sync that fails leaves the cache alone.
LEMMA SyncFailedIInv ==
  ASSUME IInv, SyncFailed
  PROVE  IInv'
<1>1. watch \in Shown
  BY DEF IInv, TypeOK, Shown
<1>2. /\ watch' \in Shown /\ watch'.rows = watch.rows /\ watch'.hasMore = watch.hasMore
      /\ watch'.state = "desynced"
  BY <1>1, StateShown DEF SyncFailed
<1>3. client' = "none" /\ syncInFlight' = FALSE /\ sync' = <<>>
      /\ UNCHANGED <<settings, activeListLimit, listThreads, listNextCursor, saves,
                     listedFrom, uncached>>
  BY DEF SyncFailed, EndSync
<1>4. TypeOK'
  BY <1>2, <1>3 DEF IInv, TypeOK, Shown
<1>5. ClientIffSyncing' /\ WatchShowsCache' /\ Listings'
  BY <1>2, <1>3 DEF IInv, ClientIffSyncing, WatchShowsCache, Listings, NothingMore
<1> QED
  BY <1>3, <1>4, <1>5 DEF IInv

\* What updateListCache and sendJobs make of a page.
LEMMA ListedDoes ==
  ASSUME IInv, Listed
  PROVE  \E response \in ThreadListResponse, base \in Rows, added \in Seq(Threads), all \in Rows :
           /\ base = IF sync.loadMore THEN listThreads ELSE <<>>
           /\ all = base \o added /\ Len(all) = Len(base) + Len(added)
           /\ listThreads' = all
           /\ listNextCursor' = NextCursor(added, response.nextCursor)
           /\ listNextCursor' \in AnyCursor
           /\ activeListLimit' = IF all = <<>> THEN activeListLimit ELSE Len(all)
           /\ watch' \in Shown
           /\ ~sync.loadMore => watch'.rows = all
           /\ sync.loadMore /\ watch.rows = base => watch'.rows = all
           /\ watch'.hasMore = (listNextCursor' # NoCursor /\ Len(all) < MaxRows)
           /\ watch'.state = "synced"
<1>1. sync \in Sync /\ listThreads \in Rows /\ watch \in Shown
  BY DEF IInv, TypeOK, Listed, Shown
<1> DEFINE base == IF sync.loadMore THEN listThreads ELSE <<>>
<1>2. base \in Rows /\ sync.loadMore \in BOOLEAN
  BY <1>1, NoRows DEF Sync
<1>3. PICK response \in ThreadListResponse :
        LET added == NewThreads(response.data, base)
            next  == NextCursor(added, response.nextCursor)
        IN  /\ listThreads' = base \o added
            /\ listNextCursor' = next
            /\ activeListLimit' = IF base \o added = <<>> THEN activeListLimit
                                                          ELSE Len(base \o added)
            /\ watch' = SendJobs(watch, IF sync.loadMore THEN added ELSE base \o added,
                                 Len(base \o added), next, ~sync.loadMore)
  BY Zenon DEF Listed
<1> DEFINE added == NewThreads(response.data, base)
           all == base \o added
           next == NextCursor(added, response.nextCursor)
           sent == IF sync.loadMore THEN added ELSE all
<1>4. response.data \in Rows /\ response.nextCursor \in AnyCursor /\ NoCursor \in AnyCursor
  BY DEF ThreadListResponse, AnyCursor
<1>5. /\ added \in Seq(Threads) /\ all \in Rows /\ AddRows(base, added) = all
      /\ Len(all) = Len(base) + Len(added)
  BY <1>2, <1>4, NewThreadsFollow
<1>6. ~sync.loadMore => AddRows(<<>>, all) = all
  <2> SUFFICES ASSUME ~sync.loadMore PROVE AddRows(<<>>, all) = all
    OBVIOUS
  <2> DEFINE none == <<>>
  <2>1. none \in Rows /\ Len(none) = 0
    BY NoRows
  <2>2. all \in Seq(Threads) /\ Len(all) \in Nat
    BY <1>5, RowsAre, LenProperties
  <2> HIDE DEF none, all
  <2>3. Extends(all, none) /\ Len(all) = Len(all) - Len(none)
        /\ \A i \in 1..Len(all) : all[i] = all[Len(none) + i]
    BY <2>1, <2>2 DEF Extends
  <2>4. AddRows(none, all) = all
    BY <1>5, <2>1, <2>2, <2>3, Rebuilt
  <2> QED
    BY <2>4 DEF none
<1>7. next \in AnyCursor
  BY <1>4 DEF NextCursor
<1>8. /\ listThreads' = all /\ listNextCursor' = next
      /\ activeListLimit' = IF all = <<>> THEN activeListLimit ELSE Len(all)
      /\ watch' = SendJobs(watch, sent, Len(all), next, ~sync.loadMore)
  BY <1>3, Zenon
<1>9. sent \in Seq(Threads)
  BY <1>5, RowsAre
<1> HIDE DEF base, added, all, next
<1>10. /\ watch' \in Shown
       /\ watch'.rows = AddRows(IF ~sync.loadMore THEN <<>> ELSE watch.rows, sent)
       /\ watch'.hasMore = (next # NoCursor /\ Len(all) < MaxRows)
       /\ watch'.state = "synced"
  <2> DEFINE clear == ~sync.loadMore
  <2>1. clear \in BOOLEAN /\ watch' = SendJobs(watch, sent, Len(all), next, clear)
    BY <1>8
  <2> HIDE DEF sent, clear
  <2>2. /\ watch' \in Shown
        /\ watch'.rows = AddRows(IF clear THEN <<>> ELSE watch.rows, sent)
        /\ watch'.hasMore = (next # NoCursor /\ Len(all) < MaxRows)
        /\ watch'.state = "synced"
    BY <1>1, <1>9, <2>1, SentJobsShown
  <2> QED
    BY <2>2 DEF clear
<1>11. /\ ~sync.loadMore => watch'.rows = all
       /\ sync.loadMore /\ watch.rows = base => watch'.rows = all
  BY <1>5, <1>6, <1>10
<1>12. base = (IF sync.loadMore THEN listThreads ELSE <<>>) /\ all = base \o added
       /\ next = NextCursor(added, response.nextCursor)
  BY DEF base, all, next
<1> QED
  BY <1>2, <1>5, <1>7, <1>8, <1>10, <1>11, <1>12

\* A page that arrives keeps watch and cache together.
LEMMA ListedIInv ==
  ASSUME IInv, Listed
  PROVE  IInv'
<1>1. PICK response \in ThreadListResponse, base \in Rows, added \in Seq(Threads), all \in Rows :
        /\ base = IF sync.loadMore THEN listThreads ELSE <<>>
        /\ all = base \o added /\ Len(all) = Len(base) + Len(added)
        /\ listThreads' = all
        /\ listNextCursor' = NextCursor(added, response.nextCursor)
        /\ listNextCursor' \in AnyCursor
        /\ activeListLimit' = IF all = <<>> THEN activeListLimit ELSE Len(all)
        /\ watch' \in Shown
        /\ ~sync.loadMore => watch'.rows = all
        /\ sync.loadMore /\ watch.rows = base => watch'.rows = all
        /\ watch'.hasMore = (listNextCursor' # NoCursor /\ Len(all) < MaxRows)
        /\ watch'.state = "synced"
  BY ListedDoes
<1>2. /\ client # "none" /\ client' = "none" /\ syncInFlight' = FALSE /\ sync' = <<>>
      /\ listedFrom' = sync.url /\ uncached' = (uncached /\ sync.loadMore)
      /\ settings' = settings /\ saves' = saves
  BY DEF Listed, EndSync
<1>3. sync \in Sync /\ sync.url \in Urls /\ sync.loadMore \in BOOLEAN
  BY <1>2 DEF IInv, Sync
<1>4. Len(all) \in 0..MaxRows /\ MaxRows \in Nat
  BY RowsAre, LenProperties, RowsAssumption
<1>5. TypeOK'
  <2>1. activeListLimit' \in 0..MaxRows
    BY <1>1, <1>4 DEF IInv, TypeOK
  <2>2. /\ settings' \in Settings /\ saves' \in 0..MaxSaves /\ uncached' \in BOOLEAN
        /\ listedFrom' \in Urls \cup {NoUrl}
    BY <1>2, <1>3 DEF IInv, TypeOK
  <2> QED
    BY <1>1, <1>2, <2>1, <2>2 DEF TypeOK, Shown
<1>6. watch'.hasMore <=> ~NothingMore'
  <2>1. Len(all) < MaxRows <=> ~(Len(all) >= MaxRows)
    BY <1>4
  <2> DEFINE more == listNextCursor' # NoCursor /\ Len(all) < MaxRows
  <2>2. more <=> ~NothingMore'
    BY <1>1, <2>1 DEF NothingMore
  <2>3. watch'.hasMore = more
    BY <1>1
  <2> HIDE DEF more
  <2> QED
    BY <2>2, <2>3, Zenon
<1>7. Listings'
  <2>1. listedFrom' # NoUrl
    BY <1>2, <1>3, NoValueAssumption
  <2>2. activeListLimit' = 0 \/ activeListLimit' >= Len(all)
    <3>1. CASE all = <<>>
      BY <1>1, <3>1, NoRows DEF IInv, TypeOK
    <3>2. CASE all # <<>>
      BY <1>1, <1>4, <3>2
    <3> QED
      BY <3>1, <3>2
  <2> QED
    BY <1>1, <1>2, <1>6, <2>1, <2>2 DEF Listings
<1>8. WatchShowsCache'
  <2> SUFFICES ASSUME ~uncached', settings'.url # NoUrl PROVE watch'.rows = all
    BY <1>1, <1>6 DEF WatchShowsCache
  <2>1. CASE sync.loadMore
    <3>1. ~uncached /\ settings.url # NoUrl /\ listedFrom # NoUrl
      BY <1>2, <2>1 DEF IInv, Listings
    <3>2. watch.rows = listThreads
      BY <3>1 DEF IInv, WatchShowsCache
    <3> QED
      BY <1>1, <2>1, <3>2
  <2>2. CASE ~sync.loadMore
    BY <1>1, <2>2
  <2> QED
    BY <2>1, <2>2
<1> QED
  BY <1>2, <1>5, <1>7, <1>8 DEF IInv, ClientIffSyncing

\* The phone starts with nothing cached and nothing shown.
LEMMA InitIInv == Init => IInv
<1> SUFFICES ASSUME Init PROVE IInv
  OBVIOUS
<1>1. <<>> \in Rows /\ Len(<<>>) = 0
  BY NoRows
<1>2. TypeOK
  <2>1. listThreads \in Rows /\ watch.rows \in Rows
    BY <1>1 DEF Init
  <2>2. watch \in Shown
    BY <2>1 DEF Init, Shown
  <2>3. activeListLimit \in 0..MaxRows /\ saves \in 0..MaxSaves
    BY RowsAssumption, SavesAssumption DEF Init
  <2> QED
    BY <2>1, <2>2, <2>3 DEF Init, TypeOK, Shown, AnyCursor
<1>3. ClientIffSyncing /\ Listings /\ WatchShowsCache
  BY <1>1 DEF Init, ClientIffSyncing, Listings, WatchShowsCache
<1> QED
  BY <1>2, <1>3 DEF IInv, Init

\* The invariant is inductive.
LEMMA NextIInv == IInv /\ [Next]_vars => IInv'
<1> SUFFICES ASSUME IInv, [Next]_vars PROVE IInv'
  OBVIOUS
<1>1. CASE UNCHANGED vars
  BY <1>1 DEF vars, IInv, TypeOK, ClientIffSyncing, Listings, WatchShowsCache, NothingMore
<1> QED
  BY <1>1, AppReadyIInv, RefreshIInv, LoadMoreIInv, SaveSettingsIInv, ConnectedIInv, ListedIInv,
     SyncFailedIInv DEF Next

-----------------------------------------------------------------------------
(* The theorems. *)

(***************************************************************************)
(* The strengthened invariant holds in every reachable state.              *)
(***************************************************************************)
THEOREM Inductive == Spec => []IInv
  BY InitIInv, NextIInv, PTL DEF Spec

(***************************************************************************)
(* Every variable of the list sync keeps its type; in particular neither   *)
(* the cache nor the watch ever has a thread twice or more threads than    *)
(* the watch has room for (updateListCache, prv_handle_job_item).          *)
(***************************************************************************)
THEOREM TypeCorrect == Spec => []TypeOK
<1>1. IInv => TypeOK
  BY DEF IInv
<1> QED
  BY <1>1, Inductive, PTL

(***************************************************************************)
(* A client exists exactly while a sync is in flight (syncJobs).           *)
(***************************************************************************)
THEOREM ClientWhileSyncing == Spec => []ClientIffSyncing
<1>1. IInv => ClientIffSyncing
  BY DEF IInv
<1> QED
  BY <1>1, Inductive, PTL

(***************************************************************************)
(* Whatever pages the server answers, and however syncs, page loads,       *)
(* failures and saved settings follow each other, the watch shows the rows *)
(* of the cache, in order, and offers "Load more" when there is more       *)
(* (updateListCache, sendJobs, prv_handle_job_item).                       *)
(***************************************************************************)
THEOREM CacheShown == Spec => []WatchShowsCache
<1>1. IInv => WatchShowsCache
  BY DEF IInv
<1> QED
  BY <1>1, Inductive, PTL

\* What a page that was asked for by "Load more" brings.
Progress ==
  client = "listing" /\ sync.loadMore /\ client' = "none" /\ watch'.state = "synced" =>
    \/ Len(listThreads') > Len(listThreads)
    \/ listNextCursor' # sync.cursor
    \/ ~watch'.hasMore

\* A page that load_more asked for adds rows, moves the cursor or ends the list.
LEMMA ListedProgresses ==
  ASSUME IInv, Listed
  PROVE  Progress
<1> SUFFICES ASSUME sync.loadMore
             PROVE  \/ Len(listThreads') > Len(listThreads)
                    \/ listNextCursor' # sync.cursor
                    \/ ~watch'.hasMore
  BY DEF Progress
<1>1. PICK response \in ThreadListResponse, base \in Rows, added \in Seq(Threads), all \in Rows :
        /\ base = IF sync.loadMore THEN listThreads ELSE <<>>
        /\ Len(all) = Len(base) + Len(added)
        /\ listThreads' = all
        /\ listNextCursor' = NextCursor(added, response.nextCursor)
        /\ watch'.hasMore = (listNextCursor' # NoCursor /\ Len(all) < MaxRows)
  BY ListedDoes
<1>2. Len(added) \in Nat /\ Len(base) \in Nat /\ base = listThreads
  BY <1>1, RowsAre, LenProperties
<1>3. CASE Len(added) = 0
  <2>1. added = <<>>
    BY <1>3, EmptySeq
  <2>2. CASE response.nextCursor = sync.cursor
    BY <1>1, <2>1, <2>2 DEF NextCursor
  <2>3. CASE response.nextCursor # sync.cursor
    BY <1>1, <2>3 DEF NextCursor
  <2> QED
    BY <2>2, <2>3
<1>4. CASE Len(added) > 0
  BY <1>1, <1>2, <1>4
<1> QED
  BY <1>2, <1>3, <1>4

\* No other step takes a page.
LEMMA NextProgresses == IInv /\ [Next]_vars => [Progress]_vars
<1> SUFFICES ASSUME IInv, Next PROVE Progress
  BY DEF vars
<1>1. ASSUME NEW loadMore, NEW reset, NEW w, NEW saved, NEW threads, NEW limit,
             SyncJobs(loadMore, reset, w, saved, threads, limit)
      PROVE  Progress
  <2>1. client' = client \/ client' = "connecting"
    BY <1>1, Zenon DEF SyncJobs, SyncUnchanged, Begin
  <2> QED
    BY <2>1 DEF Progress
<1>2. CASE AppReady \/ Refresh \/ LoadMore \/ SaveSettings
  BY <1>1, <1>2, Zenon DEF AppReady, Refresh, LoadMore, SaveSettings
<1>3. CASE Connected
  BY <1>3 DEF Connected, Progress
<1>4. CASE SyncFailed
  <2>1. watch \in Shown
    BY DEF IInv, TypeOK, Shown
  <2>2. watch'.state = "desynced"
    BY <1>4, <2>1, StateShown DEF SyncFailed
  <2> QED
    BY <2>2 DEF Progress
<1> QED
  BY <1>2, <1>3, <1>4, ListedProgresses DEF Next

(***************************************************************************)
(* A page loaded on request adds a row, moves the cursor or ends the list, *)
(* whatever the server answers (updateListCache).                          *)
(***************************************************************************)
THEOREM LoadingProgresses == Spec => LoadMoreProgresses
<1>1. IInv /\ [Next]_vars =>
        [client = "listing" /\ sync.loadMore /\ client' = "none" /\ watch'.state = "synced" =>
           \/ Len(listThreads') > Len(listThreads)
           \/ listNextCursor' # sync.cursor
           \/ ~watch'.hasMore]_vars
  BY NextProgresses DEF Progress
<1> QED
  BY <1>1, Inductive, PTL DEF Spec, LoadMoreProgresses

\* What the closures of a new sync hold.
LEMMA BegunAs ==
  ASSUME NEW loadMore, NEW reset, NEW limit, NEW w, NEW url,
         Begin(loadMore, reset, limit, w, url)
  PROVE  sync'.loadMore = loadMore /\ sync'.reset = reset /\ sync'.requestLimit = limit
  BY DEF Begin

\* What a refresh asks for.
AsksForAll ==
  ~syncInFlight /\ watch.state = "synced" /\ syncInFlight' /\ ~sync'.loadMore /\ ~sync'.reset
    => sync'.requestLimit >= Len(listThreads')

\* A refresh asks for as many rows as are cached.
LEMMA RefreshAsksForAll ==
  ASSUME IInv, Refresh
  PROVE  AsksForAll
<1> SUFFICES ASSUME ~syncInFlight, watch.state = "synced", syncInFlight'
             PROVE  sync'.requestLimit >= Len(listThreads')
  BY DEF AsksForAll
<1>1. /\ listThreads \in Rows /\ activeListLimit \in 0..MaxRows /\ settings \in Settings
      /\ activeListLimit = 0 \/ activeListLimit >= Len(listThreads)
  BY DEF IInv, TypeOK, Listings
<1>2. Len(listThreads) \in 0..MaxRows /\ MaxRows \in Nat
  BY <1>1, RowsAre, LenProperties, RowsAssumption
<1> DEFINE loaded == IF activeListLimit # 0 THEN activeListLimit ELSE Len(listThreads)
           request == Smaller(MaxRows, Larger(settings.limit, loaded))
<1>3. sync'.requestLimit = request
  <2>1. Begin(FALSE, FALSE, request, watch, settings.url)
    BY DEF Refresh, SyncJobs, SyncUnchanged
  <2> HIDE DEF request
  <2> QED
    BY <2>1, BegunAs
<1>4. loaded \in 0..MaxRows /\ loaded >= Len(listThreads)
  BY <1>1, <1>2
<1> HIDE DEF loaded
<1>5. request >= loaded /\ request \in 0..MaxRows
  BY <1>1, <1>4, Limits
<1>6. listThreads' = listThreads
  BY DEF Refresh
<1> QED
  BY <1>2, <1>3, <1>4, <1>5, <1>6

\* Nor does any other step begin a refresh that asks for less.
LEMMA NextAsksForAll == IInv /\ [Next]_vars => [AsksForAll]_vars
<1> SUFFICES ASSUME IInv, Next PROVE AsksForAll
  BY DEF vars
<1>1. ASSUME NEW loadMore, NEW reset, loadMore = TRUE \/ reset = TRUE,
             NEW w, NEW saved, NEW threads, NEW limit,
             SyncJobs(loadMore, reset, w, saved, threads, limit)
      PROVE  AsksForAll
  <2>1. \/ SyncUnchanged
        \/ \E request, url : Begin(TRUE, FALSE, request, w, url)
        \/ ~loadMore /\ \E request, url : Begin(FALSE, reset, request, w, url)
    BY <1>1, Zenon DEF SyncJobs
  <2>2. SyncUnchanged \/ sync'.loadMore = TRUE \/ sync'.reset = TRUE
    BY <1>1, <2>1, BegunAs
  <2> QED
    BY <2>2 DEF AsksForAll, SyncUnchanged
<1>2. CASE AppReady \/ LoadMore \/ SaveSettings
  BY <1>1, <1>2, Zenon DEF AppReady, LoadMore, SaveSettings
<1>3. CASE Connected \/ Listed \/ SyncFailed
  BY <1>3 DEF Connected, Listed, SyncFailed, EndSync, AsksForAll
<1> QED
  BY <1>2, <1>3, RefreshAsksForAll DEF Next

(***************************************************************************)
(* A refresh of a watch that is in sync asks for at least the rows that    *)
(* are loaded: it never folds the list (syncJobs, activeListLimit).        *)
(***************************************************************************)
THEOREM RefreshKeeps == Spec => RefreshKeepsRows
<1>1. IInv /\ [Next]_vars =>
        [~syncInFlight /\ watch.state = "synced" /\ syncInFlight'
           /\ ~sync'.loadMore /\ ~sync'.reset
         => sync'.requestLimit >= Len(listThreads')]_vars
  BY NextAsksForAll DEF AsksForAll
<1> QED
  BY <1>1, Inductive, PTL DEF Spec, RefreshKeepsRows

-----------------------------------------------------------------------------
(***************************************************************************)
(* The settings on their way between the phone and the configuration page. *)
(***************************************************************************)

\* What the form makes of what is typed.
Sanitized == {SanitizeSettings(url, number) : url \in Addresses, number \in Int}

\* The page that was opened from the watch shows the phone's settings as long as it
\* is open, and an answer under way is what the page stored last.
AgreeInv ==
  /\ opened # Nothing /\ page # Nothing => page = PhoneSettings
  /\ answer # Nothing => answer = stored /\ stored \in Sanitized

\* What is stored once is stored the same again.
LEMMA SanitizeTwice ==
  ASSUME NEW s \in Sanitized
  PROVE  SanitizeSettings(s.wsUrl, s.displayLimit) = s
<1>1. PICK url \in Addresses, number \in Int : s = SanitizeSettings(url, number)
  BY DEF Sanitized
<1> DEFINE limit == Clamp(number, 1, UpperLimit)
<1>2. UpperLimit \in Nat \ {0}
  BY VisitsAssumption
<1>3. limit \in 1..UpperLimit
  BY <1>2 DEF Clamp
<1>4. Clamp(limit, 1, UpperLimit) = limit
  <2> HIDE DEF limit
  <2> QED
    BY <1>2, <1>3 DEF Clamp
<1>5. Trimmed(Trimmed(url)) = Trimmed(url)
  BY DEF Trimmed
<1>6. s = [wsUrl |-> Trimmed(url), displayLimit |-> limit]
  BY <1>1 DEF SanitizeSettings
<1> HIDE DEF limit
<1>7. s.wsUrl = Trimmed(url) /\ s.displayLimit = limit
  BY <1>6
<1> QED
  BY <1>4, <1>5, <1>6, <1>7 DEF SanitizeSettings

\* The page that is opened from the watch shows the phone's settings, whatever it
\* had kept of visits whose answers were lost, and what the phone stores is what
\* the page stored last (openConfiguration, loadSettings and saveSettings of both
\* programs); but an answer that arrives decoded loses the escapes of its URL.
THEOREM PageAgrees == SettingsInit /\ [][SettingsNext]_settingsVars => PageAndPhoneAgree
<1> DEFINE Agreed == /\ opened' # Nothing /\ page' # Nothing => page' = PhoneSettings
                     /\ phone' # phone => phone' = stored \/ stored.wsUrl # Decoded(stored.wsUrl)
<1>1. SettingsInit => AgreeInv
  BY DEF SettingsInit, AgreeInv
<1>2. AgreeInv /\ [SettingsNext]_settingsVars => AgreeInv' /\ Agreed
  <2> SUFFICES ASSUME AgreeInv, [SettingsNext]_settingsVars PROVE AgreeInv' /\ Agreed
    OBVIOUS
  <2>1. ASSUME NEW embedded \in {PhoneSettings, Nothing}, Open(embedded) PROVE AgreeInv' /\ Agreed
    <3>1. page' = PageSettings(embedded) /\ opened' = embedded /\ phone' = phone /\ answer' = answer
          /\ answer = Nothing
      BY <2>1 DEF Open
    <3>2. opened' # Nothing => page' = PhoneSettings
      BY <3>1 DEF PageSettings
    <3>3. PhoneSettings' = PhoneSettings
      BY <3>1 DEF PhoneSettings
    <3> QED
      BY <3>1, <3>2, <3>3 DEF AgreeInv
  <2>2. ASSUME NEW typed \in Typed, Submit(typed) PROVE AgreeInv' /\ Agreed
    <3> DEFINE digits == typed.displayLimit
               number == IF digits = Blank THEN 0 ELSE digits.number
               next == SanitizeSettings(typed.wsUrl, number)
    <3>1. /\ stored' = next /\ answer' \in {next, Nothing}
          /\ phone' = phone /\ page' = page /\ opened' = opened
      BY <2>2 DEF Submit
    <3>2. next \in Sanitized
      <4>1. typed.wsUrl \in Addresses /\ (digits = Blank \/ digits \in Number)
        BY DEF Typed
      <4>2. \A d \in Number : d.number \in Int
        BY VisitsAssumption DEF Number
      <4>3. number \in Int
        BY <4>1, <4>2
      <4> HIDE DEF number
      <4>4. \E url \in Addresses, n \in Int : next = SanitizeSettings(url, n)
        BY <4>1, <4>3
      <4> HIDE DEF next
      <4> QED
        BY <4>4 DEF Sanitized
    <3>3. PhoneSettings' = PhoneSettings
      BY <3>1 DEF PhoneSettings
    <3> HIDE DEF next
    <3> QED
      BY <3>1, <3>2, <3>3 DEF AgreeInv
  <2>3. CASE Close
    <3>1. page' = Nothing /\ answer' = Nothing /\ stored' = stored
      BY <2>3 DEF Close
    <3>2. ASSUME phone' # phone PROVE phone' = stored \/ stored.wsUrl # Decoded(stored.wsUrl)
      <4>1. PICK url \in {answer.wsUrl, Decoded(answer.wsUrl)} :
              answer # Nothing /\ phone' = SanitizeSettings(url, answer.displayLimit)
        BY <2>3, <3>2 DEF Close
      <4>2. answer = stored /\ stored \in Sanitized
        BY <4>1 DEF AgreeInv
      <4>3. CASE url = stored.wsUrl
        BY <4>1, <4>2, <4>3, SanitizeTwice
      <4>4. CASE url # stored.wsUrl
        BY <4>1, <4>2, <4>4
      <4> QED
        BY <4>3, <4>4
    <3> QED
      BY <3>1, <3>2 DEF AgreeInv
  <2>4. CASE LoseAnswer
    BY <2>4 DEF LoseAnswer, AgreeInv
  <2>5. CASE UNCHANGED settingsVars
    <3>1. phone' = phone /\ page' = page /\ answer' = answer /\ opened' = opened /\ stored' = stored
      BY <2>5 DEF settingsVars
    <3>2. PhoneSettings' = PhoneSettings
      BY <3>1 DEF PhoneSettings
    <3> QED
      BY <3>1, <3>2 DEF AgreeInv
  <2> QED
    BY <2>1, <2>2, <2>3, <2>4, <2>5 DEF SettingsNext
<1> QED
  BY <1>1, <1>2, PTL DEF PageAndPhoneAgree

=============================================================================
