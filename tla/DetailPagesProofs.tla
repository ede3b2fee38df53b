---------------------------- MODULE DetailPagesProofs ----------------------------
(***************************************************************************)
(* Proofs about reading a thread page by page, for every number of         *)
(* sections, their sizes and limits, and any number of changes: the body   *)
(* the watch builds has no gap, what it offers beyond its ends is what     *)
(* the phone has, and a page it waits for is under way.                    *)
(***************************************************************************)
EXTENDS DetailPages, SequenceTheorems, FiniteSetTheorems, WellFoundedInduction, TLAPS

-----------------------------------------------------------------------------
(***************************************************************************)
(* The invariant.                                                          *)
(***************************************************************************)
\* Consecutive sections.
Run(seq) == \A i \in 1..(Len(seq) - 1) : seq[i + 1] = seq[i] + 1

\* Updates of a thread of n sections.
Update(n) == [body : Seq(1..n), hasPrev : BOOLEAN, hasNext : BOOLEAN,
              answers : {"latest", "older", "newer"}, skips : BOOLEAN]

\* What is cached is the whole thread or its last turn; the window is a page of it.
Cached ==
  /\ items \in (MaxItems - 1)..MaxItems
  /\ sections = <<>> => window = NoWindow
  /\ sections # <<>> => /\ sections \in Sections(items)
                        /\ window.start < window.end /\ window.end <= Len(sections)

\* An update shows consecutive sections, at least one.
Updates ==
  /\ link \in Seq(Update(items))
  /\ \A k \in 1..Len(link) : link[k].body # <<>> /\ Run(link[k].body)

\* What is said to be beyond both ends of a body is what secs have there.
Matches(secs, body, hasPrev, hasNext) ==
  /\ body # <<>>
  /\ hasPrev <=> Head(body) > Head(secs)
  /\ hasNext <=> Last(body) < Last(secs)

\* The sections are those they were when the k-th update was selected.
SameSections(k) ==
  /\ sections # <<>> /\ ~stale
  /\ \A j \in (k + 1)..Len(link) : link[j].answers # "latest" /\ ~link[j].skips

UpdatesMatch ==
  \A k \in 1..Len(link) :
    SameSections(k) => Matches(sections, link[k].body, link[k].hasPrev, link[k].hasNext)

LastIsWindow ==
  link # <<>> /\ sections # <<>> /\ ~stale => Last(link).body = Body(sections, window)

\* A page that was asked for beyond an end of a body continues it there.
Precedes(u, body, hasPrev) ==
  u.answers = "older" /\ hasPrev /\ body # <<>> => Last(u.body) + 1 = Head(body)
Succeeds(u, body, hasNext) ==
  u.answers = "newer" /\ hasNext /\ body # <<>> => Head(u.body) = Last(body) + 1

SecondFollows ==
  Len(link) = 2 /\ ~link[2].skips =>
    /\ Precedes(link[2], link[1].body, link[1].hasPrev)
    /\ Succeeds(link[2], link[1].body, link[1].hasNext)

\* Nothing that BodyHasNoGap excludes befell the body.
Clean == InOneDirection /\ since \cap {"mistaken", "skipped"} = {}

FirstFollows ==
  link # <<>> /\ Clean /\ ~link[1].skips =>
    /\ "newer" \notin since => Precedes(link[1], watch.body, watch.hasPrev)
    /\ "older" \notin since => Succeeds(link[1], watch.body, watch.hasNext)

\* With nothing under way, the end of the body in the direction of reading is
\* the window's.
WindowShown ==
  link = <<>> /\ Clean /\ ~stale /\ sections # <<>> /\ watch.body # <<>> =>
    /\ "newer" \notin since =>
         Head(watch.body) = sections[window.start + 1] /\ (watch.hasPrev => window.start > 0)
    /\ "older" \notin since =>
         Last(watch.body) = sections[window.end] /\ (watch.hasNext => window.end < Len(sections))

EndsShown ==
  Clean /\ "ends" \notin since /\ watch.loaded /\ SameSections(0) =>
    Matches(sections, watch.body, watch.hasPrev, watch.hasNext)

PendingOffered ==
  /\ watch.pending = "older" => watch.hasPrev
  /\ watch.pending = "newer" => watch.hasNext

\* The phone and the updates under way.
PhoneInv == Cached /\ Updates /\ UpdatesMatch /\ LastIsWindow /\ SecondFollows

\* What the watch shows of them.
ShownInv == FirstFollows /\ WindowShown /\ EndsShown

IInv == /\ TypeOK /\ PhoneInv /\ ShownInv /\ PendingOffered
        /\ BodyHasNoGap /\ WaitIsServed

-----------------------------------------------------------------------------
(***************************************************************************)
(* Numbers: the least and the greatest.                                    *)
(***************************************************************************)
\* A set of numbers has a least one.  That there is one is taken from the
\* intervals up to each of them, ordered by inclusion.
LEMMA LeastNumber ==
  ASSUME NEW S \in SUBSET Nat, S # {}
  PROVE  Min(S) \in S /\ \A y \in S : Min(S) <= y
<1> DEFINE Below == {0..x : x \in S}
<1>1. Below \subseteq FiniteSubsetsOf(Nat) /\ Below # {}
  <2>1. \A x \in S : 0..x \subseteq Nat /\ IsFiniteSet(0..x)
    BY FS_Interval
  <2> QED
    BY <2>1, Zenon DEF FiniteSubsetsOf
<1>2. PICK B \in Below : \A C \in Below : <<C, B>> \notin StrictSubsetOrdering(Nat)
  BY <1>1, FS_StrictSubsetOrderingWellFounded, WFMin, Zenon
<1>3. PICK x \in S : B = 0..x
  BY <1>2
<1>4. ASSUME NEW y \in S, y < x PROVE FALSE
  <2>1. 0..y \subseteq 0..x /\ 0..y # 0..x /\ 0..y \in Below
    BY <1>4
  <2>2. <<0..y, B>> \in StrictSubsetOrdering(Nat)
    BY <2>1, <1>3, <1>4 DEF StrictSubsetOrdering
  <2> QED
    BY <2>1, <2>2, <1>2
<1>5. \A y \in S : x <= y
  BY <1>4
<1> QED
  BY <1>5 DEF Min

\* A set of numbers up to n has a greatest one: the least of its bounds.
LEMMA GreatestNumber ==
  ASSUME NEW n \in Nat, NEW S \in SUBSET (0..n), S # {}
  PROVE  Max(S) \in S /\ \A y \in S : Max(S) >= y
<1> DEFINE Bounds == {m \in Nat : \A y \in S : y <= m}
           least == Min(Bounds)
<1>1. Bounds \in SUBSET Nat /\ n \in Bounds
  OBVIOUS
<1>2. least \in Bounds /\ \A m \in Bounds : least <= m
  BY <1>1, LeastNumber
<1> HIDE DEF least
<1>3. least \in S
  <2> SUFFICES ASSUME least \notin S PROVE FALSE
    OBVIOUS
  <2>1. \A y \in S : y \in Nat /\ y <= least - 1
    BY <1>2
  <2>2. PICK y \in S : TRUE
    OBVIOUS
  <2>3. least - 1 \in Nat
    BY <1>2, <2>1, <2>2
  <2>4. least - 1 \in Bounds
    BY <2>1, <2>3
  <2> QED
    BY <1>2, <2>3, <2>4
<1>4. \E x \in S : \A y \in S : x >= y
  BY <1>2, <1>3
<1> QED
  BY <1>4 DEF Max

-----------------------------------------------------------------------------
(***************************************************************************)
(* Sections and their pages.                                               *)
(***************************************************************************)
\* What the assumptions say of the constants.
LEMMA Constants == MaxItems \in Nat /\ MaxItems >= 2 /\ LastTurn \in 1..(MaxItems - 1)
<1>1. Len(Size) \in Nat
  BY SizeAssumption, LenProperties
<1> QED
  BY <1>1, SizeAssumption DEF MaxItems

\* What may be cached is consecutive sections, at least one.
LEMMA SectionsAre ==
  ASSUME NEW n \in (MaxItems - 1)..MaxItems, NEW secs \in Sections(n)
  PROVE  /\ secs \in Seq(1..n) /\ secs # <<>>
         /\ Len(secs) \in 1..MaxItems /\ Len(secs) <= n
         /\ \A i \in 1..Len(secs) : secs[i] = secs[1] + i - 1 /\ secs[i] \in 1..n
<1>1. n \in Nat /\ n >= 1 /\ LastTurn \in 1..n
  BY Constants
<1>2. CASE secs = [i \in 1..n |-> i]
  BY <1>1, <1>2
<1>3. CASE secs = [i \in 1..(n - LastTurn + 1) |-> LastTurn + i - 1]
  <2> DEFINE m == n - LastTurn + 1
  <2>1. m \in 1..n /\ \A i \in 1..m : LastTurn + i - 1 \in 1..n
    BY <1>1
  <2>2. secs = [i \in 1..m |-> LastTurn + i - 1]
    BY <1>3
  <2> HIDE DEF m
  <2>3. secs \in Seq(1..n) /\ Len(secs) = m
    BY <2>1, <2>2
  <2>4. \A i \in 1..m : secs[i] = LastTurn + i - 1 /\ secs[i] \in 1..n
    BY <2>1, <2>2
  <2>5. secs[1] = LastTurn /\ m \in 1..MaxItems /\ m <= n /\ secs # <<>>
    BY <1>1, <2>1, <2>3, <2>4, Constants
  <2>6. \A i \in 1..m : secs[i] = secs[1] + i - 1 /\ secs[i] \in 1..n
    BY <2>4, <2>5
  <2> QED
    BY <2>3, <2>5, <2>6
<1> QED
  BY <1>2, <1>3 DEF Sections

\* A page selected from start on begins there.
LEMMA PageStartingAt ==
  ASSUME NEW secs, Len(secs) \in Nat \ {0}, NEW start \in 0..(Len(secs) - 1)
  PROVE  \E end \in (start + 1)..Len(secs) :
           DetailPageStartingAt(secs, start) = Page(start, end)
<1> DEFINE n == Len(secs)
           S == {start, n - 1}
           E == {start + 1} \cup {e \in start+1..n : Fits(secs, Page(start, e))}
<1>1. Min(S) = start
  <2>1. S \in SUBSET Nat /\ S # {}
    OBVIOUS
  <2>2. Min(S) \in S /\ Min(S) <= start
    BY <2>1, LeastNumber
  <2> QED
    BY <2>2
<1>2. DetailPageStartingAt(secs, start) = Page(start, Max(E))
  BY <1>1, Zenon DEF DetailPageStartingAt
<1>3. E \in SUBSET (0..n) /\ E # {} /\ E \subseteq start+1..n
  OBVIOUS
<1>4. Max(E) \in E
  BY <1>3, GreatestNumber
<1> QED
  BY <1>2, <1>3, <1>4

\* A page selected up to end ends there.
LEMMA PageEndingAt ==
  ASSUME NEW secs, Len(secs) \in Nat \ {0}, NEW end \in 1..Len(secs)
  PROVE  \E start \in 0..(end - 1) : DetailPageEndingAt(secs, end) = Page(start, end)
<1> DEFINE S == {end - 1} \cup {s \in 0..end-1 : Fits(secs, Page(s, end))}
<1>1. DetailPageEndingAt(secs, end) = Page(Min(S), end)
  <2>1. end # 0
    OBVIOUS
  <2> QED
    BY <2>1, Zenon DEF DetailPageEndingAt
<1>2. S \in SUBSET Nat /\ S # {} /\ S \subseteq 0..end-1
  OBVIOUS
<1>3. Min(S) \in S
  BY <1>2, LeastNumber
<1> QED
  BY <1>1, <1>2, <1>3

\* A page is one of the sections; an older one ends where the window starts,
\* a newer one starts where it ends.
LEMMA PageSelected ==
  ASSUME NEW secs, Len(secs) \in Nat \ {0},
         NEW win, NEW which \in {"latest", "older", "newer"},
         which # "latest" => /\ win \in [start : Nat, end : Nat]
                             /\ win.start < win.end /\ win.end <= Len(secs)
  PROVE  \E start \in 0..(Len(secs) - 1) : \E end \in (start + 1)..Len(secs) :
           /\ SelectDetailPage(secs, win, which) = Page(start, end)
           /\ which = "older" /\ win.start > 0 => end = win.start
           /\ which = "newer" /\ win.end < Len(secs) => start = win.end
<1>1. \E start \in 0..(Len(secs) - 1) : \E end \in (start + 1)..Len(secs) :
        DetailPageEndingAt(secs, Len(secs)) = Page(start, end)
  BY PageEndingAt
<1>2. CASE which = "latest"
  <2>1. SelectDetailPage(secs, win, which) = DetailPageEndingAt(secs, Len(secs))
    BY <1>2, Zenon DEF SelectDetailPage
  <2> QED
    BY <1>1, <1>2, <2>1
<1>3. ASSUME which # "latest"
      PROVE  /\ win.start \in Nat /\ win.end \in Nat /\ win # NoWindow
             /\ win.start < win.end /\ win.end <= Len(secs)
  <2>1. NoWindow.start = 0 /\ NoWindow.end = 0
    BY DEF NoWindow
  <2> QED
    BY <1>3, <2>1
<1>4. CASE which = "older"
  <2>1. CASE win.start > 0
    <3>1. SelectDetailPage(secs, win, which) = DetailPageEndingAt(secs, win.start)
      BY <1>3, <1>4, <2>1, Zenon DEF SelectDetailPage
    <3>2. win.start \in 1..Len(secs)
      BY <1>3, <1>4, <2>1
    <3>3. PICK start \in 0..(win.start - 1) :
            SelectDetailPage(secs, win, which) = Page(start, win.start)
      BY <3>1, <3>2, PageEndingAt
    <3>4. start \in 0..(Len(secs) - 1) /\ win.start \in (start + 1)..Len(secs)
      BY <3>2
    <3> QED
      BY <1>4, <3>3, <3>4
  <2>2. CASE ~(win.start > 0)
    <3>1. SelectDetailPage(secs, win, which) = DetailPageStartingAt(secs, 0)
      BY <1>3, <1>4, <2>2, Zenon DEF SelectDetailPage
    <3> QED
      BY <1>4, <2>2, <3>1, PageStartingAt
  <2> QED
    BY <2>1, <2>2
<1>5. CASE which = "newer"
  <2>1. CASE win.end < Len(secs)
    <3>1. SelectDetailPage(secs, win, which) = DetailPageStartingAt(secs, win.end)
      BY <1>3, <1>5, <2>1, Zenon DEF SelectDetailPage
    <3>2. win.end \in 0..(Len(secs) - 1)
      BY <1>3, <1>5, <2>1
    <3> QED
      BY <1>5, <3>1, <3>2, PageStartingAt
  <2>2. CASE ~(win.end < Len(secs))
    <3>1. SelectDetailPage(secs, win, which) = DetailPageEndingAt(secs, Len(secs))
      BY <1>3, <1>5, <2>2, Zenon DEF SelectDetailPage
    <3> QED
      BY <1>1, <1>5, <2>2, <3>1
  <2> QED
    BY <2>1, <2>2
<1> QED
  BY <1>2, <1>4, <1>5

\* A page of consecutive sections.
LEMMA BodyIs ==
  ASSUME NEW n \in (MaxItems - 1)..MaxItems, NEW secs \in Sections(n),
         NEW start \in 0..(Len(secs) - 1), NEW end \in (start + 1)..Len(secs)
  PROVE  LET body == Body(secs, Page(start, end))
         IN  /\ body \in Seq(1..n) /\ body # <<>> /\ Run(body)
             /\ Head(body) = secs[1] + start /\ Last(body) = secs[1] + end - 1
             /\ Matches(secs, body, start > 0, end < Len(secs))
<1> DEFINE body == Body(secs, Page(start, end))
<1>1. /\ secs \in Seq(1..n) /\ secs # <<>> /\ Len(secs) \in 1..MaxItems
      /\ \A i \in 1..Len(secs) : secs[i] = secs[1] + i - 1 /\ secs[i] \in 1..n
  BY SectionsAre
<1>2. body = SubSeq(secs, start + 1, end)
  BY DEF Body, Page
<1>3. /\ body \in Seq(1..n) /\ Len(body) = end - start
      /\ \A i \in 1..(end - start) : body[i] = secs[start + i]
  BY <1>1, <1>2, SubSeqProperties
<1>10. start \in Nat /\ end \in Nat /\ start < end /\ end <= Len(secs) /\ secs[1] \in Nat
  BY <1>1, Constants
<1>4. \A i \in 1..(end - start) : body[i] = secs[1] + start + i - 1
  <2> TAKE i \in 1..(end - start)
  <2>1. start + i \in 1..Len(secs)
    BY <1>10
  <2>2. body[i] = secs[1] + (start + i) - 1
    BY <1>1, <1>3, <2>1
  <2> QED
    BY <1>10, <2>2
<1> HIDE DEF body
<1>5. body # <<>> /\ Head(body) = body[1] /\ Last(body) = body[Len(body)]
  BY <1>3 DEF Last
<1>6. Head(body) = secs[1] + start /\ Last(body) = secs[1] + end - 1
  <2>1. 1 \in 1..(end - start) /\ end - start \in 1..(end - start)
    BY <1>10
  <2>2. body[1] = secs[1] + start + 1 - 1 /\ body[end - start] = secs[1] + start + (end - start) - 1
    BY <1>4, <2>1
  <2> QED
    BY <1>10, <1>3, <1>5, <2>2, SMTT(40)
<1>7. Run(body)
  <2> SUFFICES ASSUME NEW i \in 1..(end - start - 1) PROVE body[i + 1] = body[i] + 1
    BY <1>3, Zenon DEF Run
  <2>1. i \in 1..(end - start) /\ i + 1 \in 1..(end - start)
    BY <1>10
  <2>2. body[i] = secs[1] + start + i - 1 /\ body[i + 1] = secs[1] + start + (i + 1) - 1
    BY <1>4, <2>1
  <2> QED
    BY <1>10, <2>1, <2>2
<1>8. Head(secs) = secs[1] /\ Last(secs) = secs[1] + Len(secs) - 1
  BY <1>1 DEF Last
<1>9. Matches(secs, body, start > 0, end < Len(secs))
  <2>1. start > 0 <=> secs[1] + start > secs[1]
    BY <1>10
  <2>2. end < Len(secs) <=> secs[1] + end - 1 < secs[1] + Len(secs) - 1
    <3>1. Len(secs) \in Nat
      BY <1>1, Constants
    <3> QED
      BY <1>10, <3>1
  <2> QED
    BY <2>1, <2>2, <1>5, <1>6, <1>8, Zenon DEF Matches
<1> QED
  BY <1>3, <1>5, <1>6, <1>7, <1>9 DEF body

-----------------------------------------------------------------------------
(***************************************************************************)
(* Merging pages.                                                          *)
(***************************************************************************)
\* Two runs make one if the second continues the first.
LEMMA RunsJoin ==
  ASSUME NEW S \in SUBSET Int, NEW a \in Seq(S), NEW b \in Seq(S), Run(a), Run(b),
         a # <<>>, b # <<>> => Last(a) + 1 = Head(b)
  PROVE  Run(a \o b)
<1> DEFINE n == Len(a)
           m == Len(b)
           ab == a \o b
<1>1. n \in Nat /\ n >= 1 /\ m \in Nat /\ Last(a) = a[n] /\ (b # <<>> => Head(b) = b[1])
      /\ (m >= 1 => b # <<>>)
  BY LenProperties, EmptySeq DEF Last
<1>2. /\ Len(ab) = n + m
      /\ \A i \in 1..(n + m) : ab[i] = IF i <= n THEN a[i] ELSE b[i - n]
  BY ConcatProperties
<1>3. /\ \A i \in 1..(n - 1) : a[i + 1] = a[i] + 1
      /\ \A i \in 1..(m - 1) : b[i + 1] = b[i] + 1
  BY DEF Run
<1>4. m >= 1 => a[n] + 1 = b[1]
  BY <1>1
<1>6. Len(ab) - 1 = n + m - 1
  BY <1>2
<1> HIDE DEF n, m, ab
<1>5. ASSUME NEW i \in 1..(n + m - 1) PROVE ab[i + 1] = ab[i] + 1
  <2>1. i \in 1..(n + m) /\ i + 1 \in 1..(n + m)
    BY <1>1
  <2>2. CASE i < n
    <3>1. ab[i] = a[i] /\ ab[i + 1] = a[i + 1] /\ i \in 1..(n - 1)
      BY <1>1, <1>2, <2>1, <2>2
    <3> QED
      BY <1>3, <3>1
  <2>3. CASE i = n
    <3>1. ab[i] = a[n] /\ ab[i + 1] = b[n + 1 - n] /\ n + 1 - n = 1 /\ m >= 1
      BY <1>1, <1>2, <2>1, <2>3
    <3> QED
      BY <1>4, <3>1
  <2>4. CASE i > n
    <3>1. /\ ab[i] = b[i - n] /\ ab[i + 1] = b[i + 1 - n]
          /\ i - n \in 1..(m - 1) /\ i + 1 - n = (i - n) + 1
      BY <1>1, <1>2, <2>1, <2>4
    <3> QED
      BY <1>3, <3>1
  <2> QED
    BY <1>1, <2>2, <2>3, <2>4
<1>7. Run(ab)
  BY <1>5, <1>6, Zenon DEF Run
<1> QED
  BY <1>7 DEF ab

\* A part of a run is one.
LEMMA RunCut ==
  ASSUME NEW S \in SUBSET Int, NEW s \in Seq(S),
         NEW first \in 1..(Len(s) + 1), NEW last \in 0..Len(s)
  PROVE  LET part == SubSeq(s, first, last)
         IN  /\ part \in Seq(S) /\ (Run(s) => Run(part))
             /\ part # <<>> => Head(part) = s[first] /\ Last(part) = s[last]
<1> DEFINE part == SubSeq(s, first, last)
<1>1. Len(s) \in Nat /\ \A i \in first..last : s[i] \in S
  BY LenProperties, ElementOfSeq
<1>2. /\ part \in Seq(S)
      /\ Len(part) = IF first <= last THEN last - first + 1 ELSE 0
      /\ \A i \in 1..(last - first + 1) : part[i] = s[first + i - 1]
  BY <1>1, SubSeqProperties
<1> HIDE DEF part
<1>3. ASSUME Run(s) PROVE Run(part)
  <2> SUFFICES ASSUME NEW i \in 1..(Len(part) - 1) PROVE part[i + 1] = part[i] + 1
    BY Zenon DEF Run
  <2>1. /\ first <= last /\ i \in 1..(last - first + 1) /\ i + 1 \in 1..(last - first + 1)
        /\ first + i - 1 \in 1..(Len(s) - 1) /\ first + (i + 1) - 1 = (first + i - 1) + 1
    BY <1>1, <1>2
  <2>2. part[i] = s[first + i - 1] /\ part[i + 1] = s[(first + i - 1) + 1]
    BY <1>2, <2>1
  <2> QED
    BY <1>3, <2>1, <2>2 DEF Run
<1>4. ASSUME part # <<>> PROVE Head(part) = s[first] /\ Last(part) = s[last]
  <2>1. first <= last /\ Len(part) = last - first + 1
    BY <1>2, <1>4, EmptySeq
  <2>2. /\ 1 \in 1..(last - first + 1) /\ Len(part) \in 1..(last - first + 1)
        /\ first + 1 - 1 = first /\ first + Len(part) - 1 = last
    BY <1>1, <2>1
  <2>3. part[1] = s[first] /\ part[Len(part)] = s[last]
    BY <1>2, <2>2
  <2>4. Head(part) = part[1]
    BY <1>2, <1>4
  <2> QED
    BY <2>3, <2>4 DEF Last
<1> QED
  BY <1>2, <1>3, <1>4 DEF part

\* Nothing needs no room.
LEMMA NothingHolds == Holds(<<>>)
<1>1. Bytes(<<>>) = 0
  BY Zenon DEF Bytes
<1> QED
  BY <1>1, LimitAssumption DEF Holds

\* Cutting the end of a body.
LEMMA CutEndIs ==
  ASSUME NEW S \in SUBSET Int, NEW s \in Seq(S), s # <<>>
  PROVE  /\ CutEnd(s) \in Seq(S) /\ (Run(s) => Run(CutEnd(s)))
         /\ CutEnd(s) # <<>> => Head(CutEnd(s)) = Head(s)
         /\ Holds(s) => CutEnd(s) = s
<1> DEFINE Short == {n \in 0..Len(s) : Holds(SubSeq(s, 1, n))}
           last == Max(Short)
<1>1. Len(s) \in Nat /\ Len(s) >= 1 /\ Head(s) = s[1]
  BY LenProperties, EmptySeq
<1>2. 0 \in Short
  <2>1. SubSeq(s, 1, 0) = <<>>
    BY SubSeqEmpty
  <2>2. Holds(SubSeq(s, 1, 0))
    BY <2>1, NothingHolds, Zenon
  <2>3. 0 \in 0..Len(s)
    BY <1>1
  <2> QED
    BY <2>2, <2>3, Zenon
<1>3. last \in Short /\ \A n \in Short : last >= n
  BY <1>1, <1>2, GreatestNumber
<1>4. CutEnd(s) = SubSeq(s, 1, last)
  BY Zenon DEF CutEnd
<1>5. Holds(s) => last = Len(s)
  <2>1. SubSeq(s, 1, Len(s)) = s
    BY SubSeqFull
  <2>2. Len(s) \in 0..Len(s)
    BY <1>1
  <2>3. Holds(s) => Len(s) \in Short
    BY <2>1, <2>2, Zenon
  <2> QED
    BY <1>1, <1>3, <2>3
<1>6. last \in 0..Len(s)
  BY <1>3
<1> HIDE DEF last
<1>7. /\ CutEnd(s) \in Seq(S) /\ (Run(s) => Run(CutEnd(s)))
      /\ CutEnd(s) # <<>> => Head(CutEnd(s)) = s[1]
  BY <1>1, <1>4, <1>6, RunCut
<1> QED
  BY <1>1, <1>4, <1>5, <1>7, SubSeqFull

\* Cutting its front.
LEMMA CutFrontIs ==
  ASSUME NEW S \in SUBSET Int, NEW s \in Seq(S), s # <<>>
  PROVE  /\ CutFront(s) \in Seq(S) /\ (Run(s) => Run(CutFront(s)))
         /\ CutFront(s) # <<>> => Last(CutFront(s)) = Last(s)
         /\ Holds(s) => CutFront(s) = s
<1> DEFINE Short == {n \in 1..Len(s)+1 : Holds(SubSeq(s, n, Len(s)))}
           first == Min(Short)
<1>1. Len(s) \in Nat /\ Len(s) >= 1 /\ Last(s) = s[Len(s)]
  BY LenProperties, EmptySeq DEF Last
<1>2. Len(s) + 1 \in Short
  <2>1. SubSeq(s, Len(s) + 1, Len(s)) = <<>>
    BY <1>1, SubSeqEmpty
  <2>2. Holds(SubSeq(s, Len(s) + 1, Len(s)))
    BY <2>1, NothingHolds, Zenon
  <2>3. Len(s) + 1 \in 1..Len(s)+1
    BY <1>1
  <2> QED
    BY <2>2, <2>3, Zenon
<1>3. first \in Short /\ \A n \in Short : first <= n
  <2>1. Short \in SUBSET Nat /\ Short # {}
    BY <1>2
  <2> HIDE DEF Short
  <2> QED
    BY <2>1, LeastNumber
<1>4. CutFront(s) = SubSeq(s, first, Len(s))
  BY Zenon DEF CutFront
<1>5. Holds(s) => first = 1
  <2>1. SubSeq(s, 1, Len(s)) = s
    BY SubSeqFull
  <2>2. 1 \in 1..Len(s)+1
    BY <1>1
  <2>3. Holds(s) => 1 \in Short
    BY <2>1, <2>2, Zenon
  <2> QED
    BY <1>1, <1>3, <2>3
<1>6. first \in 1..(Len(s) + 1) /\ Len(s) \in 0..Len(s)
  BY <1>1, <1>3
<1> HIDE DEF first
<1>7. /\ CutFront(s) \in Seq(S) /\ (Run(s) => Run(CutFront(s)))
      /\ CutFront(s) # <<>> => Last(CutFront(s)) = s[Len(s)]
  BY <1>1, <1>4, <1>6, RunCut
<1> QED
  BY <1>1, <1>4, <1>5, <1>7, SubSeqFull

\* The ends of two sequences put together.
LEMMA EndsJoin ==
  ASSUME NEW S, NEW a \in Seq(S), NEW b \in Seq(S)
  PROVE  /\ a \o b \in Seq(S)
         /\ a # <<>> => a \o b # <<>> /\ Head(a \o b) = Head(a)
         /\ b # <<>> => a \o b # <<>> /\ Last(a \o b) = Last(b)
<1>1. /\ a \o b \in Seq(S) /\ Len(a \o b) = Len(a) + Len(b)
      /\ \A i \in 1..(Len(a) + Len(b)) :
           (a \o b)[i] = IF i <= Len(a) THEN a[i] ELSE b[i - Len(a)]
      /\ Len(a) \in Nat /\ Len(b) \in Nat
  BY ConcatProperties, LenProperties
<1>2. ASSUME a # <<>> PROVE a \o b # <<>> /\ Head(a \o b) = Head(a)
  <2>1. Len(a) >= 1
    BY <1>2, EmptySeq
  <2>2. (a \o b)[1] = a[1] /\ Len(a \o b) >= 1
    BY <1>1, <2>1
  <2>3. a \o b # <<>>
    BY <1>1, <2>2
  <2> QED
    BY <1>1, <1>2, <2>2, <2>3
<1>3. ASSUME b # <<>> PROVE a \o b # <<>> /\ Last(a \o b) = Last(b)
  <2>1. Len(b) >= 1
    BY <1>3, EmptySeq
  <2>2. (a \o b)[Len(a) + Len(b)] = b[Len(a) + Len(b) - Len(a)] /\ Len(a \o b) >= 1
        /\ Len(a) + Len(b) - Len(a) = Len(b)
    BY <1>1, <2>1
  <2> QED
    BY <1>1, <2>2 DEF Last
<1> QED
  BY <1>1, <1>2, <1>3

\* A prefix begins, and a suffix ends, like the whole.
LEMMA SameEnds ==
  ASSUME NEW S, NEW s \in Seq(S), NEW t \in Seq(S), s # <<>>
  PROVE  /\ IsPrefix(s, t) => t # <<>> /\ Head(t) = Head(s)
         /\ IsSuffix(s, t) => t # <<>> /\ Last(t) = Last(s)
<1>1. Len(s) \in Nat /\ Len(s) >= 1 /\ Len(t) \in Nat /\ Head(s) = s[1]
      /\ (Len(t) >= 1 => t # <<>> /\ Head(t) = t[1])
  BY LenProperties, EmptySeq
<1>2. ASSUME NEW p, NEW q, p \in Seq(S), q \in Seq(S), Len(p) >= 1, IsPrefix(p, q)
      PROVE  Len(q) >= 1 /\ p[1] = q[1]
  <2>1. Len(p) <= Len(q) /\ SubSeq(p, 1, Len(p)) = SubSeq(q, 1, Len(p))
    BY <1>2 DEF IsPrefix
  <2>2. Len(p) \in Nat /\ Len(q) \in Nat /\ 1 \in 1..Len(p)
    BY <1>2, LenProperties
  <2>3. Head(SubSeq(p, 1, Len(p))) = p[1] /\ Head(SubSeq(q, 1, Len(p))) = q[1]
    BY <1>2, <2>1, <2>2, HeadTailOfSubSeq
  <2> QED
    BY <1>2, <2>1, <2>2, <2>3
<1>3. ASSUME NEW p \in Seq(S)
      PROVE  /\ Reverse(p) \in Seq(S) /\ Len(Reverse(p)) = Len(p)
             /\ Len(p) >= 1 => Reverse(p)[1] = p[Len(p)]
  <2>1. Len(p) \in Nat /\ \A i \in 1..Len(p) : p[i] \in S
    BY LenProperties, ElementOfSeq
  <2>2. \A i \in 1..Len(p) : (Len(p) - i) + 1 \in 1..Len(p)
    BY <2>1
  <2>3. Reverse(p) = [i \in 1..Len(p) |-> p[(Len(p) - i) + 1]]
    BY Zenon DEF Reverse
  <2>4. (Len(p) - 1) + 1 = Len(p)
    BY <2>1
  <2> QED
    BY <2>1, <2>2, <2>3, <2>4
<1>4. IsPrefix(s, t) => t # <<>> /\ Head(t) = Head(s)
  BY <1>1, <1>2
<1>5. ASSUME IsSuffix(s, t) PROVE t # <<>> /\ Last(t) = Last(s)
  <2>1. IsPrefix(Reverse(s), Reverse(t))
    BY <1>5, Zenon DEF IsSuffix
  <2>2. Len(Reverse(t)) >= 1 /\ Reverse(s)[1] = Reverse(t)[1]
    BY <1>1, <1>2, <1>3, <2>1
  <2>3. Len(t) >= 1 /\ s[Len(s)] = t[Len(t)]
    BY <1>1, <1>3, <2>2
  <2> QED
    BY <1>1, <2>3 DEF Last
<1> QED
  BY <1>4, <1>5

\* The page continues the body where it is merged.
Continues(page) ==
  /\ Run(page) /\ Run(watch.body)
  /\ watch.pending = "older" /\ watch.body # <<>> => Last(page) + 1 = Head(watch.body)
  /\ watch.pending = "newer" /\ watch.body # <<>> => Head(page) = Last(watch.body) + 1

\* What the watch shows after an update.
LEMMA MergedIs ==
  ASSUME NEW S \in SUBSET Int, NEW page \in Seq(S), page # <<>>,
         watch.body \in Seq(S), watch.pending \in {NoMessage, "older", "newer"}
  PROVE  LET body == Merged(page)
             whole == CanPreserve /\ Holds(Joined(page))
         IN  /\ body \in Seq(S) /\ (Continues(page) => Run(body))
             /\ watch.pending = NoMessage => body = page
             /\ watch.pending = "older" =>
                  /\ body # <<>> => Head(body) = Head(page)
                  /\ whole => body # <<>> /\ (watch.body # <<>> => Last(body) = Last(watch.body))
             /\ watch.pending = "newer" =>
                  /\ body # <<>> => Last(body) = Last(page)
                  /\ whole => body # <<>> /\ (watch.body # <<>> => Head(body) = Head(watch.body))
<1>0. /\ NoMessage # "older" /\ NoMessage # "newer"
  BY DEF NoMessage
<1>1. CASE ~CanPreserve \/ watch.pending = NoMessage
  <2>1. Merged(page) = page
    BY <1>0, <1>1 DEF Merged
  <2> QED
    BY <1>0, <1>1, <2>1 DEF Continues
<1>2. CASE CanPreserve /\ watch.pending = "older"
  <2> DEFINE all == page \o watch.body
  <2>1. Merged(page) = IF IsPrefix(page, watch.body) THEN watch.body ELSE CutEnd(all)
    BY <1>0, <1>2 DEF Merged, Joined
  <2>2. /\ all \in Seq(S) /\ all # <<>> /\ Head(all) = Head(page)
        /\ Continues(page) => Run(all)
        /\ watch.body # <<>> => Last(all) = Last(watch.body)
    <3>1. ASSUME Continues(page) PROVE Run(all)
      <4>1. CASE watch.body = <<>>
        BY <3>1, <4>1, ConcatEmptySeq DEF Continues
      <4>2. CASE watch.body # <<>>
        BY <1>2, <3>1, <4>2, RunsJoin DEF Continues
      <4> QED
        BY <4>1, <4>2
    <3> QED
      BY <3>1, EndsJoin
  <2>3. Joined(page) = all
    BY <1>2, Zenon DEF Joined
  <2> HIDE DEF all
  <2>4. CASE IsPrefix(page, watch.body)
    <3>1. watch.body # <<>> /\ Head(watch.body) = Head(page)
      BY <2>4, SameEnds
    <3>2. Merged(page) = watch.body
      BY <2>1, <2>4
    <3> QED
      BY <1>0, <1>2, <3>1, <3>2 DEF Continues
  <2>5. CASE ~IsPrefix(page, watch.body)
    <3>1. /\ CutEnd(all) \in Seq(S) /\ (Run(all) => Run(CutEnd(all)))
          /\ CutEnd(all) # <<>> => Head(CutEnd(all)) = Head(all)
          /\ Holds(all) => CutEnd(all) = all
      BY <2>2, CutEndIs
    <3>2. Merged(page) = CutEnd(all)
      BY <2>1, <2>5
    <3>3. Holds(Joined(page)) => Merged(page) = all
      BY <2>3, <3>1, <3>2
    <3> QED
      BY <1>0, <1>2, <2>2, <3>1, <3>2, <3>3
  <2> QED
    BY <2>4, <2>5
<1>3. CASE CanPreserve /\ watch.pending = "newer"
  <2> DEFINE all == watch.body \o page
  <2>1. Merged(page) = IF IsSuffix(page, watch.body) THEN watch.body ELSE CutFront(all)
    BY <1>0, <1>3 DEF Merged, Joined
  <2>2. /\ all \in Seq(S) /\ all # <<>> /\ Last(all) = Last(page)
        /\ Continues(page) => Run(all)
        /\ watch.body # <<>> => Head(all) = Head(watch.body)
    <3>1. ASSUME Continues(page) PROVE Run(all)
      <4>1. CASE watch.body = <<>>
        BY <3>1, <4>1, ConcatEmptySeq DEF Continues
      <4>2. CASE watch.body # <<>>
        BY <1>3, <3>1, <4>2, RunsJoin DEF Continues
      <4> QED
        BY <4>1, <4>2
    <3> QED
      BY <3>1, EndsJoin
  <2>3. Joined(page) = all
    BY <1>3, Zenon DEF Joined
  <2> HIDE DEF all
  <2>4. CASE IsSuffix(page, watch.body)
    <3>1. watch.body # <<>> /\ Last(watch.body) = Last(page)
      BY <2>4, SameEnds
    <3>2. Merged(page) = watch.body
      BY <2>1, <2>4
    <3> QED
      BY <1>0, <1>3, <3>1, <3>2 DEF Continues
  <2>5. CASE ~IsSuffix(page, watch.body)
    <3>1. /\ CutFront(all) \in Seq(S) /\ (Run(all) => Run(CutFront(all)))
          /\ CutFront(all) # <<>> => Last(CutFront(all)) = Last(all)
          /\ Holds(all) => CutFront(all) = all
      BY <2>2, CutFrontIs
    <3>2. Merged(page) = CutFront(all)
      BY <2>1, <2>5
    <3>3. Holds(Joined(page)) => Merged(page) = all
      BY <2>3, <3>1, <3>2
    <3> QED
      BY <1>0, <1>3, <2>2, <3>1, <3>2, <3>3
  <2> QED
    BY <2>4, <2>5
<1> QED
  BY <1>1, <1>2, <1>3

-----------------------------------------------------------------------------
(***************************************************************************)
(* Updates under way.                                                      *)
(***************************************************************************)
\* An update stays one when the thread grows.
LEMMA UpdatesGrow ==
  ASSUME NEW n \in Nat, NEW k \in Nat, n <= k
  PROVE  Seq(Update(n)) \subseteq Seq(Update(k)) /\ Seq(1..n) \subseteq Seq(1..k)
<1>1. 1..n \subseteq 1..k
  OBVIOUS
<1>2. Seq(1..n) \subseteq Seq(1..k)
  BY <1>1, SeqMonotonic
<1>3. Update(n) \subseteq Update(k)
  BY <1>2 DEF Update
<1> QED
  BY <1>2, <1>3, SeqMonotonic

\* sendEnvelope: the update is the last one, new or in place of the last.
LEMMA SendEnvelopeDoes ==
  ASSUME NEW T, link \in Seq(T), Len(link) <= 2,
         NEW u \in T, [u EXCEPT !.skips = TRUE] \in T, SendEnvelope(u)
  PROVE  /\ link' \in Seq(T)
         /\ \E m \in 1..2, v \in {u, [u EXCEPT !.skips = TRUE]} :
              /\ Len(link') = m /\ link'[m] = v
              /\ m = Len(link) + 1 \/ (m = Len(link) /\ v = [u EXCEPT !.skips = TRUE])
              /\ \A k \in 1..(m - 1) : link'[k] = link[k]
<1>1. Len(link) \in Nat /\ (link # <<>> => Len(link) >= 1)
  BY LenProperties, EmptySeq
<1>2. CASE Len(link) < 2 /\ link' = Append(link, u)
  <2>1. /\ link' \in Seq(T) /\ Len(link') = Len(link) + 1 /\ link'[Len(link) + 1] = u
        /\ \A k \in 1..Len(link) : link'[k] = link[k]
    BY <1>2, AppendProperties
  <2>2. Len(link) + 1 \in 1..2 /\ (Len(link) + 1) - 1 = Len(link)
    BY <1>1, <1>2
  <2> QED
    BY <2>1, <2>2
<1>3. CASE link # <<>> /\ link' = [link EXCEPT ![Len(link)] = [u EXCEPT !.skips = TRUE]]
  <2> DEFINE v == [u EXCEPT !.skips = TRUE]
             m == Len(link)
  <2>1. m \in 1..Len(link) /\ m \in 1..2
    <3>1. m \in Nat /\ m >= 1 /\ m <= 2
      BY <1>1, <1>3
    <3> HIDE DEF m
    <3>2. m \in 1..m /\ m \in 1..2
      BY <3>1
    <3> QED
      BY <3>2 DEF m
  <2>2. v \in T /\ link' = [link EXCEPT ![m] = v]
    BY <1>3
  <2> HIDE DEF v
  <2>3. /\ link' \in Seq(T) /\ Len(link') = m
        /\ \A j \in 1..m : link'[j] = IF j = m THEN v ELSE link[j]
    BY <2>1, <2>2, ExceptSeq
  <2>4. link'[m] = v /\ \A k \in 1..(m - 1) : link'[k] = link[k]
    BY <2>1, <2>3
  <2> QED
    BY <2>1, <2>3, <2>4 DEF v
<1> QED
  BY <1>2, <1>3 DEF SendEnvelope

\* What is left when the first update is taken: it begins with the second one,
\* which need not follow on what the watch shows if the first one was lost.
LEMMA RestIs ==
  ASSUME NEW n, link \in Seq(Update(n)), Len(link) <= 2, link # <<>>,
         NEW taken \in BOOLEAN, link' = Rest(taken)
  PROVE  /\ link' \in Seq(Update(n)) /\ Len(link') = Len(link) - 1
         /\ Len(link) = 2 =>
              /\ link'[1].body = link[2].body /\ link'[1].answers = link[2].answers
              /\ link'[1].hasPrev = link[2].hasPrev /\ link'[1].hasNext = link[2].hasNext
              /\ link[2].skips => link'[1].skips
              /\ taken => link'[1].skips = link[2].skips
<1> DEFINE t == Tail(link)
<1>1. Len(link) \in 1..2
  <2> DEFINE m == Len(link)
  <2>1. m \in Nat
    BY LenProperties
  <2>2. m # 0
    BY EmptySeq
  <2>3. m <= 2
    OBVIOUS
  <2> HIDE DEF m
  <2>4. m \in 1..2
    BY <2>1, <2>2, <2>3
  <2> QED
    BY <2>4 DEF m
<1>2. t \in Seq(Update(n)) /\ Len(t) = Len(link) - 1 /\ \A i \in 1..Len(t) : t[i] = link[i + 1]
  BY HeadTailProperties
<1>3. link' = IF taken \/ Len(link) = 1 THEN t ELSE [t EXCEPT ![1].skips = TRUE]
  BY DEF Rest
<1> HIDE DEF t
<1>4. CASE taken \/ Len(link) = 1
  <2>1. Len(link) = 2 => t[1] = link[2]
    BY <1>2
  <2> QED
    BY <1>2, <1>3, <1>4, <2>1
<1>5. CASE ~taken /\ Len(link) = 2
  <2> DEFINE e == [t[1] EXCEPT !.skips = TRUE]
  <2>1. 1 \in 1..Len(t) /\ t[1] = link[2]
    BY <1>2, <1>5
  <2>2. t[1] \in Update(n)
    BY <1>2, <2>1, ElementOfSeq
  <2>3. /\ e \in Update(n) /\ e.skips = TRUE /\ e.body = t[1].body /\ e.answers = t[1].answers
        /\ e.hasPrev = t[1].hasPrev /\ e.hasNext = t[1].hasNext
    BY <2>2 DEF Update
  <2>4. link' = [t EXCEPT ![1] = e]
    BY <1>3, <1>5
  <2> HIDE DEF e
  <2>5. link' \in Seq(Update(n)) /\ Len(link') = Len(t) /\ link'[1] = e
    BY <1>2, <2>1, <2>3, <2>4, ExceptSeq
  <2> QED
    BY <1>2, <1>5, <2>1, <2>3, <2>5
<1> QED
  BY <1>1, <1>4, <1>5

\* The window is a page of the sections.
LEMMA WindowIs ==
  ASSUME IInv, sections # <<>>
  PROVE  LET body == Body(sections, window)
         IN  /\ window.start \in Nat /\ window.end \in Nat /\ Len(sections) \in Nat
             /\ sections[1] \in Nat
             /\ window.start < window.end /\ window.end <= Len(sections)
             /\ Head(body) = sections[1] + window.start
             /\ Last(body) = sections[1] + window.end - 1
             /\ sections[window.start + 1] = sections[1] + window.start
             /\ sections[window.end] = sections[1] + window.end - 1
             /\ Matches(sections, body, window.start > 0, window.end < Len(sections))
<1>1. /\ items \in (MaxItems - 1)..MaxItems /\ sections \in Sections(items)
      /\ window.start < window.end /\ window.end <= Len(sections)
      /\ window \in [start : Nat, end : Nat]
  BY Constants DEF IInv, TypeOK, PhoneInv, Cached
<1>2. /\ Len(sections) \in Nat
      /\ \A i \in 1..Len(sections) : sections[i] = sections[1] + i - 1 /\ sections[i] \in 1..items
  BY <1>1, SectionsAre, Constants
<1> DEFINE start == window.start
           end == window.end
           n == Len(sections)
<1>3. /\ start \in Nat /\ end \in Nat /\ n \in Nat /\ start < end /\ end <= n
      /\ window = Page(start, end)
  BY <1>1, <1>2 DEF Page
<1> HIDE DEF start, end, n
<1>4. start \in 0..(n - 1) /\ end \in (start + 1)..n /\ start + 1 \in 1..n /\ end \in 1..n
      /\ 1 \in 1..n
  BY <1>3
<1>5. /\ Head(Body(sections, window)) = sections[1] + start
      /\ Last(Body(sections, window)) = sections[1] + end - 1
      /\ Matches(sections, Body(sections, window), start > 0, end < n)
  BY <1>1, <1>3, <1>4, BodyIs DEF n
<1>6. /\ sections[1] \in 1..items /\ sections[start + 1] = sections[1] + (start + 1) - 1
      /\ sections[end] = sections[1] + end - 1
  BY <1>2, <1>4 DEF n
<1>7. sections[1] \in Nat
  BY <1>1, <1>6, Constants
<1>8. sections[start + 1] = sections[1] + start
  BY <1>3, <1>6, <1>7
<1> QED
  BY <1>3, <1>5, <1>6, <1>7, <1>8 DEF start, end, n

\* What sending a page does: the last update under way, v, shows the sections
\* from start + 1 to end, beyond the window in the direction they were asked for.
Sent(secs, which, start, end, m, v) ==
  /\ window' = Page(start, end) /\ stale' = FALSE
  /\ lastBody' = Body(secs, Page(start, end))
  /\ link' \in Seq(Update(items')) /\ Len(link') = m /\ link'[m] = v
  /\ \A k \in 1..(m - 1) : link'[k] = link[k]
  /\ m = Len(link) + 1 \/ m = Len(link)
  /\ v.skips \/ (m = Len(link) + 1 /\ ~stale)
  /\ v.body = Body(secs, Page(start, end)) /\ v.answers = which
  /\ v.hasPrev = (start > 0) /\ v.hasNext = (end < Len(secs))
  /\ which = "older" /\ window.start > 0 => end = window.start
  /\ which = "newer" /\ window.end < Len(secs) => start = window.end

\* A page that is sent is one of the sections, in the direction asked for.
LEMMA PageSentIs ==
  ASSUME IInv, NEW secs, NEW win, NEW which \in {"latest", "older", "newer"},
         items' \in (MaxItems - 1)..MaxItems, items <= items', secs \in Sections(items'),
         which = "latest" \/ (secs = sections /\ win = window),
         SendDetailPage(secs, win, which)
  PROVE  \E start \in 0..(Len(secs) - 1) : \E end \in (start + 1)..Len(secs) :
         \E m \in 1..2, v \in Update(items') : Sent(secs, which, start, end, m, v)
<1>1. /\ items \in Nat /\ items' \in Nat /\ stale \in BOOLEAN /\ Len(link) <= 2
      /\ link \in Seq(Update(items))
  BY Constants DEF IInv, TypeOK, PhoneInv, Updates
<1>2. Len(secs) \in 1..MaxItems /\ Len(secs) \in Nat \ {0} /\ secs # <<>>
  BY SectionsAre, Constants
<1>3. which # "latest" => /\ win \in [start : Nat, end : Nat] /\ win = window
                          /\ win.start < win.end /\ win.end <= Len(secs)
  BY <1>2 DEF IInv, TypeOK, PhoneInv, Cached
<1>4. PICK start \in 0..(Len(secs) - 1) : \E end \in (start + 1)..Len(secs) :
        /\ SelectDetailPage(secs, win, which) = Page(start, end)
        /\ which = "older" /\ win.start > 0 => end = win.start
        /\ which = "newer" /\ win.end < Len(secs) => start = win.end
  BY <1>2, <1>3, PageSelected
<1>5. PICK end \in (start + 1)..Len(secs) :
        /\ SelectDetailPage(secs, win, which) = Page(start, end)
        /\ which = "older" /\ win.start > 0 => end = win.start
        /\ which = "newer" /\ win.end < Len(secs) => start = win.end
  BY <1>4
<1> DEFINE page == Page(start, end)
           u == [body |-> Body(secs, page), hasPrev |-> page.start > 0,
                 hasNext |-> page.end < Len(secs), answers |-> which, skips |-> stale]
           w == [u EXCEPT !.skips = TRUE]
<1>6. /\ window' = page /\ lastBody' = Body(secs, page) /\ stale' = FALSE
      /\ SendEnvelope(u)
  BY <1>5, Zenon DEF SendDetailPage
<1>7. page.start = start /\ page.end = end
  BY DEF Page
<1>8. Body(secs, page) \in Seq(1..items')
  BY BodyIs
<1>9. (start > 0) \in BOOLEAN /\ (end < Len(secs)) \in BOOLEAN
  OBVIOUS
<1> HIDE DEF page
<1>10. /\ u \in Update(items') /\ w \in Update(items')
       /\ u.body = Body(secs, page) /\ w.body = u.body
       /\ u.answers = which /\ w.answers = which
       /\ u.hasPrev = (start > 0) /\ w.hasPrev = u.hasPrev
       /\ u.hasNext = (end < Len(secs)) /\ w.hasNext = u.hasNext
       /\ u.skips = stale /\ w.skips = TRUE
  BY <1>1, <1>7, <1>8, <1>9 DEF Update
<1>11. link \in Seq(Update(items'))
  BY <1>1, UpdatesGrow
<1> HIDE DEF u
<1>12. /\ link' \in Seq(Update(items'))
       /\ \E m \in 1..2, v \in {u, w} :
            /\ Len(link') = m /\ link'[m] = v
            /\ m = Len(link) + 1 \/ (m = Len(link) /\ v = w)
            /\ \A k \in 1..(m - 1) : link'[k] = link[k]
  BY <1>1, <1>6, <1>10, <1>11, SendEnvelopeDoes
<1> HIDE DEF w
<1>13. PICK m \in 1..2, v \in {u, w} :
            /\ Len(link') = m /\ link'[m] = v
            /\ m = Len(link) + 1 \/ (m = Len(link) /\ v = w)
            /\ \A k \in 1..(m - 1) : link'[k] = link[k]
  BY <1>12
<1>14. /\ v \in Update(items') /\ v.body = Body(secs, page) /\ v.answers = which
       /\ v.hasPrev = (start > 0) /\ v.hasNext = (end < Len(secs))
       /\ v.skips \/ (m = Len(link) + 1 /\ ~stale)
  BY <1>10, <1>13
<1>15. /\ which = "older" /\ window.start > 0 => end = window.start
       /\ which = "newer" /\ window.end < Len(secs) => start = window.end
  BY <1>3, <1>5
<1>16. Sent(secs, which, start, end, m, v)
  BY <1>6, <1>12, <1>13, <1>14, <1>15 DEF Sent, page
<1> QED
  BY <1>14, <1>16

\* A page that neither is the latest nor skips follows the window, which is the
\* last update under way.
LEMMA PageFollows ==
  ASSUME IInv, NEW secs \in Sections(items'), items' \in (MaxItems - 1)..MaxItems,
         NEW which \in {"older", "newer"},
         NEW start \in 0..(Len(secs) - 1), NEW end \in (start + 1)..Len(secs),
         NEW m \in 1..2, NEW v \in Update(items'), Sent(secs, which, start, end, m, v),
         secs = sections, ~v.skips
  PROVE  /\ sections # <<>> /\ ~stale /\ m = Len(link) + 1
         /\ which = "older" /\ window.start > 0 =>
              Last(v.body) + 1 = sections[window.start + 1]
         /\ which = "newer" /\ window.end < Len(sections) =>
              Head(v.body) = sections[window.end] + 1
         /\ link # <<>> =>
              /\ Len(link) = 1
              /\ Matches(sections, link[1].body, link[1].hasPrev, link[1].hasNext)
              /\ link[1].body = Body(sections, window)
<1>1. /\ sections # <<>> /\ ~stale /\ m = Len(link) + 1 /\ v.body = Body(secs, Page(start, end))
      /\ which = "older" /\ window.start > 0 => end = window.start
      /\ which = "newer" /\ window.end < Len(sections) => start = window.end
  BY SectionsAre DEF Sent
<1>2. Head(v.body) = secs[1] + start /\ Last(v.body) = secs[1] + end - 1
  <2>1. LET body == Body(secs, Page(start, end))
        IN  Head(body) = secs[1] + start /\ Last(body) = secs[1] + end - 1
    BY BodyIs, Zenon
  <2> QED
    BY <1>1, <2>1, Zenon
<1>3. /\ window.start \in Nat /\ window.end \in Nat /\ sections[1] \in Nat
      /\ sections[window.start + 1] = sections[1] + window.start
      /\ sections[window.end] = sections[1] + window.end - 1
  BY <1>1, WindowIs
<1>4. ASSUME which = "older" /\ window.start > 0
      PROVE  Last(v.body) + 1 = sections[window.start + 1]
  BY <1>1, <1>2, <1>3, <1>4, SMTT(40)
<1>5. ASSUME which = "newer" /\ window.end < Len(sections)
      PROVE  Head(v.body) = sections[window.end] + 1
  <2>1. \A a, b \in Nat : (a + b - 1) + 1 = a + b
    OBVIOUS
  <2>2. (sections[1] + window.end - 1) + 1 = sections[1] + window.end
    BY <1>3, <2>1, Zenon
  <2> QED
    BY <1>1, <1>2, <1>3, <1>5, <2>2, Zenon
<1>6. ASSUME link # <<>>
      PROVE  /\ Len(link) = 1
             /\ Matches(sections, link[1].body, link[1].hasPrev, link[1].hasNext)
             /\ link[1].body = Body(sections, window)
  <2>1. Len(link) \in Nat \ {0}
    BY <1>6, EmptySeq DEF IInv, PhoneInv, Updates
  <2> DEFINE n == Len(link)
  <2>7. n \in Nat \ {0} /\ m = n + 1
    BY <1>1, <2>1
  <2> HIDE DEF n
  <2>8. n = 1
    BY <2>7
  <2>2. Len(link) = 1 /\ 1 \in 1..Len(link) /\ (1 + 1)..Len(link) = {}
    BY <2>8 DEF n
  <2>3. SameSections(1)
    BY <1>1, <2>2 DEF SameSections
  <2>4. UpdatesMatch /\ LastIsWindow /\ Last(link) = link[1]
    BY <2>2 DEF IInv, PhoneInv, Last
  <2>5. Matches(sections, link[1].body, link[1].hasPrev, link[1].hasNext)
    BY <2>2, <2>3, <2>4 DEF UpdatesMatch
  <2>6. link[1].body = Body(sections, window)
    BY <1>1, <1>6, <2>4 DEF LastIsWindow
  <2> QED
    BY <2>2, <2>5, <2>6
<1> QED
  BY <1>1, <1>4, <1>5, <1>6

\* The phone's side is kept when a page is sent.
LEMMA PageSent ==
  ASSUME IInv, NEW secs \in Sections(items'), items' \in (MaxItems - 1)..MaxItems,
         items <= items', NEW which \in {"latest", "older", "newer"},
         NEW start \in 0..(Len(secs) - 1), NEW end \in (start + 1)..Len(secs),
         NEW m \in 1..2, NEW v \in Update(items'), Sent(secs, which, start, end, m, v),
         sections' = secs, which # "latest" => secs = sections
  PROVE  /\ PhoneInv' /\ link' # <<>> /\ Len(link') <= 2
         /\ window' \in [start : 0..MaxItems, end : 0..MaxItems]
         /\ sections' \in Seq(1..items') /\ lastBody' \in Seq(1..items') /\ stale' = FALSE
<1>1. /\ window' = Page(start, end) /\ stale' = FALSE
      /\ lastBody' = Body(secs, Page(start, end))
      /\ link' \in Seq(Update(items')) /\ Len(link') = m /\ link'[m] = v
      /\ \A k \in 1..(m - 1) : link'[k] = link[k]
      /\ m = Len(link) + 1 \/ m = Len(link)
      /\ v.skips \/ (m = Len(link) + 1 /\ ~stale)
      /\ v.body = Body(secs, Page(start, end)) /\ v.answers = which
      /\ v.hasPrev = (start > 0) /\ v.hasNext = (end < Len(secs))
  BY DEF Sent
<1>2. /\ v.body \in Seq(1..items') /\ v.body # <<>> /\ Run(v.body)
      /\ Matches(secs, v.body, v.hasPrev, v.hasNext)
  BY <1>1, BodyIs
<1>3. /\ secs \in Seq(1..items') /\ secs # <<>> /\ Len(secs) \in 1..MaxItems
      /\ start \in Nat /\ end \in Nat /\ start < end /\ end <= Len(secs)
  BY SectionsAre, Constants
<1>4. window'.start = start /\ window'.end = end
  BY <1>1 DEF Page
<1>5. Cached'
  BY <1>1, <1>3, <1>4 DEF Cached
<1>6. Len(link) \in Nat /\ \A k \in 1..Len(link) : link[k].body # <<>> /\ Run(link[k].body)
  BY LenProperties DEF IInv, PhoneInv, Updates
<1>7. \A k \in 1..(m - 1) : k \in 1..Len(link)
  BY <1>1, <1>6
<1>8. Updates'
  <2>1. ASSUME NEW k \in 1..m PROVE link'[k].body # <<>> /\ Run(link'[k].body)
    <3>1. k = m \/ k \in 1..(m - 1)
      OBVIOUS
    <3> QED
      BY <1>1, <1>2, <1>6, <1>7, <3>1
  <2> QED
    BY <1>1, <2>1 DEF Updates, Run
<1>9. ASSUME which # "latest", ~v.skips, m = 2
      PROVE  /\ sections = secs /\ Len(link) = 1
             /\ Matches(sections, link[1].body, link[1].hasPrev, link[1].hasNext)
             /\ which = "older" /\ link[1].hasPrev => Last(v.body) + 1 = Head(link[1].body)
             /\ which = "newer" /\ link[1].hasNext => Head(v.body) = Last(link[1].body) + 1
  <2>1. which \in {"older", "newer"} /\ secs = sections
    BY <1>9
  <2>2. /\ sections # <<>> /\ m = Len(link) + 1
        /\ which = "older" /\ window.start > 0 =>
             Last(v.body) + 1 = sections[window.start + 1]
        /\ which = "newer" /\ window.end < Len(sections) =>
             Head(v.body) = sections[window.end] + 1
        /\ link # <<>> =>
              /\ Len(link) = 1
              /\ Matches(sections, link[1].body, link[1].hasPrev, link[1].hasNext)
              /\ link[1].body = Body(sections, window)
    BY <1>9, <2>1, PageFollows
  <2>3. link # <<>>
    BY <1>6, <1>9, <2>2, EmptySeq
  <2>4. LET body == Body(sections, window)
        IN  /\ sections[window.start + 1] = Head(body) /\ sections[window.end] = Last(body)
            /\ Matches(sections, body, window.start > 0, window.end < Len(sections))
    BY <2>2, WindowIs
  <2>5. /\ link[1].hasPrev <=> window.start > 0
        /\ link[1].hasNext <=> window.end < Len(sections)
    BY <2>2, <2>3, <2>4, Zenon DEF Matches
  <2> QED
    BY <2>1, <2>2, <2>3, <2>4, <2>5
<1>10. UpdatesMatch'
  <2> SUFFICES ASSUME NEW k \in 1..m, SameSections(k)'
               PROVE  Matches(secs, link'[k].body, link'[k].hasPrev, link'[k].hasNext)
    BY <1>1 DEF UpdatesMatch, Matches
  <2>1. CASE k = m
    BY <1>1, <1>2, <2>1
  <2>2. CASE k # m
    <3>1. k = 1 /\ m = 2 /\ m \in (k + 1)..Len(link') /\ k \in 1..(m - 1)
      BY <1>1, <2>2
    <3>2. which # "latest" /\ ~v.skips
      BY <1>1, <3>1 DEF SameSections
    <3> QED
      BY <1>1, <1>9, <3>1, <3>2
  <2> QED
    BY <2>1, <2>2
<1>11. LastIsWindow'
  BY <1>1 DEF LastIsWindow, Last, Body
<1>12. SecondFollows'
  <2> SUFFICES ASSUME m = 2, ~v.skips
               PROVE  /\ Precedes(v, link[1].body, link[1].hasPrev)
                      /\ Succeeds(v, link[1].body, link[1].hasNext)
    <3>1. m = 2 => 1 \in 1..(m - 1)
      OBVIOUS
    <3> QED
      BY <1>1, <3>1 DEF SecondFollows, Precedes, Succeeds
  <2>1. CASE which = "latest"
    BY <1>1, <2>1 DEF Precedes, Succeeds
  <2>2. CASE which # "latest"
    BY <1>1, <1>9, <2>2, Zenon DEF Precedes, Succeeds
  <2> QED
    BY <2>1, <2>2
<1>13. link' # <<>> /\ Len(link') <= 2
  BY <1>1, EmptySeq
<1>14. window' \in [start : 0..MaxItems, end : 0..MaxItems]
  BY <1>1, <1>3, Constants DEF Page
<1> QED
  BY <1>1, <1>2, <1>3, <1>5, <1>8, <1>10, <1>11, <1>12, <1>13, <1>14 DEF PhoneInv

\* And what the watch shows is still what they continue.
LEMMA PageSentShown ==
  ASSUME IInv, NEW secs \in Sections(items'), items' \in (MaxItems - 1)..MaxItems,
         items <= items', NEW which \in {"latest", "older", "newer"},
         NEW start \in 0..(Len(secs) - 1), NEW end \in (start + 1)..Len(secs),
         NEW m \in 1..2, NEW v \in Update(items'), Sent(secs, which, start, end, m, v),
         sections' = secs, which # "latest" => secs = sections,
         since' = since, watch'.body = watch.body, watch'.loaded = watch.loaded,
         watch'.hasPrev = watch.hasPrev, watch'.hasNext = watch.hasNext
  PROVE  ShownInv'
<1>1. /\ stale' = FALSE /\ Len(link') = m /\ link'[m] = v
      /\ \A k \in 1..(m - 1) : link'[k] = link[k]
      /\ m = Len(link) + 1 \/ m = Len(link)
      /\ v.skips \/ (m = Len(link) + 1 /\ ~stale)
      /\ v.answers = which
  BY DEF Sent
<1>2. Len(link) \in Nat /\ (link = <<>> <=> Len(link) = 0) /\ link' # <<>>
  BY <1>1, EmptySeq, LenProperties DEF IInv, PhoneInv, Updates
<1>3. which # "latest" /\ ~v.skips =>
         /\ sections # <<>> /\ ~stale /\ m = Len(link) + 1 /\ sections' = sections
         /\ which = "older" /\ window.start > 0 =>
              Last(v.body) + 1 = sections[window.start + 1]
         /\ which = "newer" /\ window.end < Len(sections) =>
              Head(v.body) = sections[window.end] + 1
  BY PageFollows
<1>4. Clean' = Clean
  BY DEF Clean, InOneDirection
<1>5. FirstFollows'
  <2>1. CASE m = 2
    <3>1. 1 \in 1..(m - 1) /\ link # <<>> /\ link'[1] = link[1]
      BY <1>1, <1>2, <2>1
    <3> QED
      BY <1>4, <3>1 DEF IInv, ShownInv, FirstFollows, Precedes, Succeeds
  <2>2. CASE m = 1
    <3> SUFFICES ASSUME Clean, ~v.skips, which # "latest", watch.body # <<>>
                 PROVE  /\ "newer" \notin since /\ which = "older" /\ watch.hasPrev =>
                             Last(v.body) + 1 = Head(watch.body)
                        /\ "older" \notin since /\ which = "newer" /\ watch.hasNext =>
                             Head(v.body) = Last(watch.body) + 1
      BY <1>1, <1>4, <2>2 DEF FirstFollows, Precedes, Succeeds
    <3>1. link = <<>> /\ sections # <<>> /\ ~stale
      BY <1>2, <1>3, <2>2
    <3> QED
      BY <1>3, <3>1 DEF IInv, ShownInv, WindowShown
  <2> QED
    BY <2>1, <2>2
<1>6. WindowShown'
  BY <1>2 DEF WindowShown
<1>7. EndsShown'
  <2> SUFFICES ASSUME Clean, "ends" \notin since, watch.loaded, SameSections(0)'
               PROVE  Matches(sections, watch.body, watch.hasPrev, watch.hasNext)
                      /\ sections' = sections
    BY <1>4 DEF EndsShown, Matches
  <2>1. \A j \in 1..m : link'[j].answers # "latest" /\ ~link'[j].skips
    BY <1>1 DEF SameSections
  <2>2. which # "latest" /\ ~v.skips
    BY <1>1, <2>1
  <2>3. /\ sections # <<>> /\ ~stale /\ m = Len(link) + 1 /\ sections' = sections
    BY <1>3, <2>2
  <2>4. \A j \in 1..Len(link) : link[j].answers # "latest" /\ ~link[j].skips
    <3> TAKE j \in 1..Len(link)
    <3>1. j \in 1..m /\ j \in 1..(m - 1)
      BY <1>2, <2>3
    <3> QED
      BY <1>1, <2>1, <3>1
  <2>5. SameSections(0)
    BY <2>3, <2>4 DEF SameSections
  <2> QED
    BY <2>3, <2>5 DEF IInv, ShownInv, EndsShown
<1> QED
  BY <1>5, <1>6, <1>7 DEF ShownInv

\* The phone's side depends on its own state only.
LEMMA PhoneUnchanged ==
  ASSUME PhoneInv, UNCHANGED <<items, sections, window, link, stale>>
  PROVE  PhoneInv'
<1>1. Cached'
  BY DEF PhoneInv, Cached
<1>2. Updates'
  BY DEF PhoneInv, Updates, Run
<1>3. \A k : SameSections(k)' <=> SameSections(k)
  BY DEF SameSections
<1>4. UpdatesMatch'
  BY <1>3 DEF PhoneInv, UpdatesMatch, Matches
<1>5. LastIsWindow'
  BY DEF PhoneInv, LastIsWindow, Last
<1>6. SecondFollows'
  BY DEF PhoneInv, SecondFollows, Precedes, Succeeds
<1> QED
  BY <1>1, <1>2, <1>4, <1>5, <1>6 DEF PhoneInv

\* What is shown stays when neither the phone nor the body changes.
LEMMA ShownUnchanged ==
  ASSUME ShownInv, UNCHANGED <<sections, window, link, stale>>, since' = since,
         watch'.body = watch.body, watch'.loaded = watch.loaded,
         watch'.hasPrev = watch.hasPrev, watch'.hasNext = watch.hasNext
  PROVE  ShownInv'
<1>1. Clean' = Clean /\ SameSections(0)' = SameSections(0)
  BY DEF Clean, InOneDirection, SameSections
<1>2. FirstFollows'
  BY <1>1 DEF ShownInv, FirstFollows, Precedes, Succeeds
<1>3. WindowShown'
  BY <1>1 DEF ShownInv, WindowShown, Last
<1>4. EndsShown'
  BY <1>1 DEF ShownInv, EndsShown, Matches
<1> QED
  BY <1>2, <1>3, <1>4 DEF ShownInv

-----------------------------------------------------------------------------
(***************************************************************************)
(* The phone's steps.                                                      *)
(***************************************************************************)
\* What no step of the phone touches.
WatchTypes ==
  /\ outbox \in {NoMessage, "detail", "older", "newer"}
  /\ watch \in [open : BOOLEAN, listed : BOOLEAN, hasDetail : BOOLEAN, loaded : BOOLEAN,
                body : Seq(1..items), hasPrev : BOOLEAN, hasNext : BOOLEAN,
                pending : {NoMessage, "older", "newer"}]

\* The types of the phone's variables.
PhoneTypes ==
  /\ items \in 1..MaxItems
  /\ sections \in Seq(1..items)
  /\ window \in [start : 0..MaxItems, end : 0..MaxItems]
  /\ lastBody \in Seq(1..items)
  /\ Len(link) <= 2
  /\ stale \in BOOLEAN

\* All that a step that sends a page keeps.
LEMMA PageSentKeeps ==
  ASSUME IInv, NEW win, NEW which \in {"latest", "older", "newer"},
         items' \in (MaxItems - 1)..MaxItems, items <= items',
         sections' \in Sections(items'),
         which = "latest" \/ (sections' = sections /\ win = window),
         SendDetailPage(sections', win, which)
  PROVE  /\ PhoneInv' /\ PhoneTypes' /\ link' # <<>>
         /\ (/\ since' = since /\ watch'.body = watch.body /\ watch'.loaded = watch.loaded
             /\ watch'.hasPrev = watch.hasPrev /\ watch'.hasNext = watch.hasNext) => ShownInv'
<1>1. PICK secs : secs = sections'
  OBVIOUS
<1>2. /\ secs \in Sections(items') /\ SendDetailPage(secs, win, which) /\ sections' = secs
      /\ which = "latest" \/ (secs = sections /\ win = window)
  BY <1>1
<1>3. PICK start \in 0..(Len(secs) - 1) : \E end \in (start + 1)..Len(secs) :
         \E m \in 1..2, v \in Update(items') : Sent(secs, which, start, end, m, v)
  BY <1>2, PageSentIs
<1>4. PICK end \in (start + 1)..Len(secs), m \in 1..2, v \in Update(items') :
         Sent(secs, which, start, end, m, v)
  BY <1>3
<1>5. which # "latest" => secs = sections
  BY <1>2
<1>6. /\ PhoneInv' /\ link' # <<>> /\ Len(link') <= 2
      /\ window' \in [start : 0..MaxItems, end : 0..MaxItems]
      /\ sections' \in Seq(1..items') /\ lastBody' \in Seq(1..items') /\ stale' = FALSE
  BY <1>2, <1>4, <1>5, PageSent
<1>7. items' \in 1..MaxItems
  BY Constants
<1>8. ASSUME since' = since, watch'.body = watch.body, watch'.loaded = watch.loaded,
             watch'.hasPrev = watch.hasPrev, watch'.hasNext = watch.hasNext
      PROVE  ShownInv'
  BY <1>2, <1>4, <1>5, <1>8, PageSentShown
<1> QED
  BY <1>6, <1>7, <1>8 DEF PhoneTypes

\* A thread that grows keeps what the watch has of it well typed.
LEMMA WatchGrows ==
  ASSUME TypeOK, items' \in Nat, items <= items', UNCHANGED <<outbox, watch>>
  PROVE  WatchTypes'
<1>1. Seq(1..items) \subseteq Seq(1..items')
  BY UpdatesGrow, Constants DEF TypeOK
<1> QED
  BY <1>1 DEF TypeOK, WatchTypes

\* sendDetailUpdate reads the thread and sends its latest page.
LEMMA DetailUpdateKeeps ==
  ASSUME IInv, SendDetailUpdate
  PROVE  /\ PhoneInv' /\ PhoneTypes' /\ link' # <<>> /\ items' \in Nat /\ items <= items'
         /\ since' = since /\ watch' = watch => ShownInv'
<1>1. items \in (MaxItems - 1)..MaxItems
  BY DEF IInv, PhoneInv, Cached
<1>2. items' \in (MaxItems - 1)..MaxItems /\ items' \in Nat /\ items <= items'
  BY <1>1, Constants DEF SendDetailUpdate
<1>3. /\ sections' \in Sections(items')
      /\ SendDetailPage(sections', Clamped(window, sections'), "latest")
  BY DEF SendDetailUpdate
<1> QED
  BY <1>2, <1>3, PageSentKeeps

\* requestDetailScroll reads the thread, or sends the page asked for.
LEMMA DetailScrollKeeps ==
  ASSUME IInv, NEW direction \in {"older", "newer"}, RequestDetailScroll(direction)
  PROVE  /\ PhoneInv' /\ PhoneTypes' /\ items' = items /\ reading' \in BOOLEAN
         /\ reading' \/ link' # <<>>
         /\ (/\ since' = since /\ watch'.body = watch.body /\ watch'.loaded = watch.loaded
             /\ watch'.hasPrev = watch.hasPrev /\ watch'.hasNext = watch.hasNext) => ShownInv'
<1>1. CASE sections = <<>>
  <2>1. reading' = TRUE /\ UNCHANGED <<items, sections, window, lastBody, link, stale>>
    BY <1>1, Zenon DEF RequestDetailScroll, RequestThreadDetail
  <2>2. PhoneInv'
    BY <2>1, PhoneUnchanged DEF IInv
  <2>3. PhoneTypes'
    BY <2>1 DEF IInv, TypeOK, PhoneTypes
  <2> QED
    BY <2>1, <2>2, <2>3, ShownUnchanged DEF IInv
<1>2. CASE sections # <<>>
  <2>1. /\ SendDetailPage(sections, window, direction)
        /\ items' = items /\ sections' = sections /\ reading' = reading
    BY <1>2, Zenon DEF RequestDetailScroll
  <2>2. /\ items' \in (MaxItems - 1)..MaxItems /\ items <= items'
        /\ sections' \in Sections(items') /\ reading' \in BOOLEAN
    BY <1>2, <2>1, Constants DEF IInv, TypeOK, PhoneInv, Cached
  <2>3. SendDetailPage(sections', window, direction)
    BY <2>1
  <2> QED
    BY <2>1, <2>2, <2>3, PageSentKeeps
<1> QED
  BY <1>1, <1>2

\* Taking the first update keeps the phone's side.
LEMMA RestKeeps ==
  ASSUME IInv, link # <<>>, NEW taken \in BOOLEAN, link' = Rest(taken),
         UNCHANGED <<items, sections, window, lastBody, stale>>
  PROVE  /\ PhoneInv' /\ PhoneTypes' /\ Len(link') = Len(link) - 1 /\ Len(link) \in 1..2
         /\ link' \in Seq(Update(items))
         /\ \A k \in Nat : SameSections(k)' => SameSections(k + 1)
<1>1. /\ link \in Seq(Update(items)) /\ Len(link) <= 2
      /\ \A k \in 1..Len(link) : link[k].body # <<>> /\ Run(link[k].body)
  BY DEF IInv, TypeOK, PhoneInv, Updates
<1>2. /\ link' \in Seq(Update(items)) /\ Len(link') = Len(link) - 1
      /\ Len(link) = 2 =>
           /\ link'[1].body = link[2].body /\ link'[1].answers = link[2].answers
           /\ link'[1].hasPrev = link[2].hasPrev /\ link'[1].hasNext = link[2].hasNext
           /\ link[2].skips => link'[1].skips
  BY <1>1, RestIs
<1>3. Len(link) \in 1..2
  <2> DEFINE n == Len(link)
  <2>1. n \in Nat \ {0} /\ n <= 2
    BY <1>1, EmptySeq
  <2> HIDE DEF n
  <2>2. n \in 1..2
    BY <2>1
  <2> QED
    BY <2>2 DEF n
<1>4. ASSUME NEW k \in Nat, SameSections(k)' PROVE SameSections(k + 1)
  <2>1. sections # <<>> /\ ~stale
    BY <1>4 DEF SameSections
  <2>2. ASSUME NEW j \in (k + 1 + 1)..Len(link)
        PROVE  link[j].answers # "latest" /\ ~link[j].skips
    <3>1. j = 2 /\ k = 0 /\ Len(link) = 2 /\ 1 \in (k + 1)..Len(link')
      BY <1>2, <1>3, <2>2
    <3>2. link'[1].answers # "latest" /\ ~link'[1].skips
      BY <1>4, <3>1 DEF SameSections
    <3> QED
      BY <1>2, <3>1, <3>2
  <2> QED
    BY <2>1, <2>2 DEF SameSections
<1>5. Cached'
  BY DEF IInv, PhoneInv, Cached
<1>6. \A k \in 1..Len(link') : k = 1 /\ Len(link) = 2 /\ 2 \in 1..Len(link)
  BY <1>2, <1>3
<1>7. Updates'
  BY <1>1, <1>2, <1>6 DEF Updates, Run
<1>8. UpdatesMatch'
  <2> SUFFICES ASSUME NEW k \in 1..Len(link'), SameSections(k)'
               PROVE  Matches(sections, link'[k].body, link'[k].hasPrev, link'[k].hasNext)
    BY DEF UpdatesMatch, Matches
  <2>1. k = 1 /\ Len(link) = 2 /\ 2 \in 1..Len(link)
    BY <1>6
  <2>2. SameSections(2)
    BY <1>4, <2>1
  <2>3. Matches(sections, link[2].body, link[2].hasPrev, link[2].hasNext)
    BY <2>1, <2>2 DEF IInv, PhoneInv, UpdatesMatch
  <2> QED
    BY <1>2, <2>1, <2>3
<1>9. LastIsWindow'
  <2> SUFFICES ASSUME link' # <<>>, sections # <<>>, ~stale
               PROVE  link'[Len(link')].body = Body(sections, window)
    BY DEF LastIsWindow, Last, Body
  <2>1. Len(link') \in Nat \ {0}
    BY <1>2, EmptySeq
  <2>2. Len(link') = 1 /\ Len(link) = 2
    BY <1>2, <1>3, <2>1
  <2> QED
    BY <1>2, <2>2 DEF IInv, PhoneInv, LastIsWindow, Last
<1>10. SecondFollows'
  <2> DEFINE n == Len(link)
             m == Len(link')
  <2>1. n \in 1..2 /\ m = n - 1
    BY <1>2, <1>3
  <2> HIDE DEF n, m
  <2>2. m # 2
    BY <2>1
  <2>3. Len(link') # 2
    BY <2>2 DEF m
  <2> QED
    BY <2>3 DEF SecondFollows
<1>11. PhoneTypes'
  BY <1>2, <1>3 DEF IInv, TypeOK, PhoneTypes
<1> QED
  BY <1>2, <1>3, <1>4, <1>5, <1>7, <1>8, <1>9, <1>10, <1>11 DEF PhoneInv

\* Once something was skipped, nothing is said of the body or the wait.
LEMMA Skipped ==
  ASSUME "skipped" \in since'
  PROVE  ShownInv' /\ BodyHasNoGap' /\ WaitIsServed'
<1>1. ~Clean'
  BY DEF Clean
<1> QED
  BY <1>1 DEF ShownInv, FirstFollows, WindowShown, EndsShown, BodyHasNoGap, Clean, WaitIsServed

\* The body has no gap exactly if it is a run.
LEMMA GapIsRun == BodyHasNoGap <=> (Clean => Run(watch.body))
BY DEF BodyHasNoGap, Clean, Run

\* An update that is delivered becomes the body, or one end of it.
LEMMA DeliveredShown ==
  ASSUME IInv, Deliver, watch.listed
  PROVE  watch'.body \in Seq(1..items) /\ ShownInv' /\ BodyHasNoGap'
<1> DEFINE u == link[1]
<1>1. /\ link # <<>> /\ link' = Rest(TRUE) /\ u = Head(link)
      /\ UNCHANGED <<items, sections, window, lastBody, stale>>
  <2>1. link # <<>> /\ link' = Rest(watch.listed) /\ watch.listed = TRUE
        /\ link \in Seq(Update(items))
    BY DEF Deliver, IInv, TypeOK, PhoneInv, Updates
  <2> QED
    BY <2>1 DEF Deliver
<1>2. /\ Len(link') = Len(link) - 1 /\ Len(link) \in 1..2 /\ link' \in Seq(Update(items))
      /\ SameSections(0)' => SameSections(1)
  <2> DEFINE taken == TRUE
  <2>1. taken \in BOOLEAN /\ link # <<>> /\ link' = Rest(taken)
    BY <1>1
  <2> HIDE DEF taken
  <2>2. /\ Len(link') = Len(link) - 1 /\ Len(link) \in 1..2 /\ link' \in Seq(Update(items))
        /\ \A k \in Nat : SameSections(k)' => SameSections(k + 1)
    BY <1>1, <2>1, RestKeeps
  <2>3. SameSections(0)' => SameSections(0 + 1)
    BY <2>2
  <2>4. 0 + 1 = 1
    OBVIOUS
  <2> QED
    BY <2>2, <2>3, <2>4
<1>3. /\ link \in Seq(Update(items)) /\ Len(link) <= 2
      /\ \A k \in 1..Len(link) : link[k].body # <<>> /\ Run(link[k].body)
  BY DEF IInv, TypeOK, PhoneInv, Updates
<1>4. u \in Update(items) /\ u.body # <<>> /\ Run(u.body)
  <2>1. 1 \in 1..Len(link)
    BY <1>2
  <2> QED
    BY <1>3, <2>1, ElementOfSeq
<1>5. /\ u.body \in Seq(1..items) /\ 1..items \in SUBSET Int
      /\ u.answers \in {"latest", "older", "newer"}
  BY <1>4 DEF Update
<1>6. /\ watch.body \in Seq(1..items) /\ watch.pending \in {NoMessage, "older", "newer"}
      /\ NoMessage # "older" /\ NoMessage # "newer"
      /\ since \subseteq {"older", "newer", "mistaken", "skipped", "ends"}
  BY DEF IInv, TypeOK, NoMessage
<1>7. /\ watch'.body = Merged(u.body) /\ watch'.loaded = TRUE
      /\ watch'.hasPrev = IF watch.pending = "newer" THEN watch.hasPrev ELSE u.hasPrev
      /\ watch'.hasNext = IF watch.pending = "older" THEN watch.hasNext ELSE u.hasNext
      /\ since' = SinceAfter(u)
  <2>1. HandleDetailUpdate(u)
    BY <1>1 DEF Deliver
  <2> HIDE DEF u
  <2> QED
    BY <2>1 DEF HandleDetailUpdate, IInv, TypeOK
<1> HIDE DEF u
<1>8. LET body == Merged(u.body)
          whole == CanPreserve /\ Holds(Joined(u.body))
      IN  /\ body \in Seq(1..items) /\ (Continues(u.body) => Run(body))
          /\ watch.pending = NoMessage => body = u.body
          /\ watch.pending = "older" =>
               /\ body # <<>> => Head(body) = Head(u.body)
               /\ whole => body # <<>> /\ (watch.body # <<>> => Last(body) = Last(watch.body))
          /\ watch.pending = "newer" =>
               /\ body # <<>> => Last(body) = Last(u.body)
               /\ whole => body # <<>> /\ (watch.body # <<>> => Head(body) = Head(watch.body))
  BY <1>4, <1>5, <1>6, MergedIs
\* The next update under way follows this one.
<1>9. ASSUME link' # <<>>, ~link'[1].skips
      PROVE  /\ Precedes(link'[1], u.body, u.hasPrev)
             /\ Succeeds(link'[1], u.body, u.hasNext)
  <2>1. Len(link) = 2
    BY <1>2, <1>9, EmptySeq
  <2>2. /\ link'[1].body = link[2].body /\ link'[1].answers = link[2].answers
        /\ link'[1].skips = link[2].skips
    BY <1>1, <1>3, <2>1, RestIs
  <2>3. SecondFollows
    BY DEF IInv, PhoneInv
  <2> QED
    BY <1>9, <2>1, <2>2, <2>3 DEF SecondFollows, Precedes, Succeeds, u
\* If none is, this one was the window.
<1>10. ASSUME link' = <<>>, ~stale, sections # <<>>
       PROVE  /\ Head(u.body) = sections[window.start + 1]
              /\ Last(u.body) = sections[window.end]
              /\ u.hasPrev => window.start > 0
              /\ u.hasNext => window.end < Len(sections)
  <2> DEFINE n == Len(link)
             m == Len(link')
  <2>a. n \in 1..2 /\ m = n - 1 /\ m = 0
    BY <1>2, <1>10
  <2> HIDE DEF n, m
  <2>b. n = 1
    BY <2>a
  <2>1. Len(link) = 1 /\ Last(link) = u /\ 1 \in 1..Len(link)
    BY <2>b DEF Last, u, n
  <2>2. u.body = Body(sections, window)
    BY <1>1, <1>10, <2>1 DEF IInv, PhoneInv, LastIsWindow
  <2>3. (1 + 1)..Len(link) = {}
    BY <2>1
  <2>4. SameSections(1)
    BY <1>10, <2>3 DEF SameSections
  <2>5. Matches(sections, u.body, u.hasPrev, u.hasNext)
    BY <2>1, <2>4 DEF IInv, PhoneInv, UpdatesMatch, u
  <2>6. LET body == Body(sections, window)
        IN  /\ sections[window.start + 1] = Head(body) /\ sections[window.end] = Last(body)
            /\ Matches(sections, body, window.start > 0, window.end < Len(sections))
    BY <1>10, WindowIs
  <2>7. /\ u.hasPrev <=> window.start > 0
        /\ u.hasNext <=> window.end < Len(sections)
    BY <2>2, <2>5, <2>6, Zenon DEF Matches
  <2> QED
    BY <2>2, <2>6, <2>7
\* If the sections are the same, they are what it says.
<1>11. ASSUME SameSections(0)'
       PROVE  Matches(sections, u.body, u.hasPrev, u.hasNext)
  <2>1. SameSections(1) /\ 1 \in 1..Len(link)
    BY <1>2, <1>11
  <2> QED
    BY <2>1 DEF IInv, PhoneInv, UpdatesMatch, u
<1>12. CASE watch.pending = NoMessage
  <2>1. /\ watch'.body = u.body /\ watch'.hasPrev = u.hasPrev /\ watch'.hasNext = u.hasNext
    BY <1>6, <1>7, <1>8, <1>12
  <2>2. FirstFollows'
    BY <1>9, <2>1 DEF FirstFollows, Precedes, Succeeds
  <2>3. WindowShown'
    BY <1>1, <1>10, <2>1 DEF WindowShown, Last
  <2>4. EndsShown'
    BY <1>1, <1>11, <2>1 DEF EndsShown, Matches
  <2>5. BodyHasNoGap'
    BY <1>4, <2>1 DEF BodyHasNoGap, Run
  <2> QED
    BY <1>7, <1>8, <2>2, <2>3, <2>4, <2>5 DEF ShownInv
<1>13. CASE watch.pending # NoMessage
  <2>1. since' = since \cup {watch.pending}
               \cup (IF u.answers # watch.pending THEN {"mistaken"} ELSE {})
               \cup (IF u.skips THEN {"skipped"} ELSE {})
               \cup (IF ~CanPreserve \/ ~Holds(Joined(u.body)) THEN {"ends"} ELSE {})
    BY <1>7, <1>13, Zenon DEF SinceAfter
  <2>2. CASE ~Clean'
    BY <1>7, <1>8, <2>2 DEF ShownInv, FirstFollows, WindowShown, EndsShown, BodyHasNoGap, Clean
  <2>3. CASE Clean'
    <3>1. /\ Clean /\ u.answers = watch.pending /\ ~u.skips
          /\ watch.pending = "older" => "newer" \notin since' /\ "newer" \notin since
                                        /\ "older" \in since'
          /\ watch.pending = "newer" => "older" \notin since' /\ "older" \notin since
                                        /\ "newer" \in since'
      BY <1>6, <1>13, <2>1, <2>3 DEF Clean, InOneDirection
    <3>2. Run(watch.body)
      BY <3>1, GapIsRun DEF IInv
    <3>3. /\ watch.pending = "older" /\ watch.body # <<>> => Last(u.body) + 1 = Head(watch.body)
          /\ watch.pending = "newer" /\ watch.body # <<>> => Head(u.body) = Last(watch.body) + 1
      BY <1>1, <3>1 DEF IInv, ShownInv, FirstFollows, Precedes, Succeeds, PendingOffered, u
    <3>4. Run(watch'.body)
      BY <1>4, <1>7, <1>8, <3>2, <3>3 DEF Continues
    <3>5. /\ watch.pending = "older" => /\ watch'.hasPrev = u.hasPrev
                                        /\ watch'.hasNext = watch.hasNext
                                        /\ watch'.body # <<>> => Head(watch'.body) = Head(u.body)
          /\ watch.pending = "newer" => /\ watch'.hasNext = u.hasNext
                                        /\ watch'.hasPrev = watch.hasPrev
                                        /\ watch'.body # <<>> => Last(watch'.body) = Last(u.body)
      BY <1>6, <1>7, <1>8
    <3>6. FirstFollows'
      <4> SUFFICES ASSUME link' # <<>>, ~link'[1].skips
                   PROVE  /\ "newer" \notin since' =>
                               Precedes(link'[1], watch'.body, watch'.hasPrev)
                          /\ "older" \notin since' =>
                               Succeeds(link'[1], watch'.body, watch'.hasNext)
        BY DEF FirstFollows, Precedes, Succeeds
      <4>1. Precedes(link'[1], u.body, u.hasPrev) /\ Succeeds(link'[1], u.body, u.hasNext)
        BY <1>9
      <4> QED
        BY <1>4, <1>6, <1>13, <3>1, <3>5, <4>1 DEF Precedes, Succeeds
    <3>7. WindowShown'
      <4> SUFFICES ASSUME link' = <<>>, ~stale, sections # <<>>, watch'.body # <<>>
                   PROVE  /\ "newer" \notin since' =>
                               /\ Head(watch'.body) = sections[window.start + 1]
                               /\ watch'.hasPrev => window.start > 0
                          /\ "older" \notin since' =>
                               /\ Last(watch'.body) = sections[window.end]
                               /\ watch'.hasNext => window.end < Len(sections)
        BY <1>1 DEF WindowShown, Last
      <4> QED
        BY <1>6, <1>10, <1>13, <3>1, <3>5
    <3>8. EndsShown'
      <4> SUFFICES ASSUME "ends" \notin since', SameSections(0)'
                   PROVE  Matches(sections, watch'.body, watch'.hasPrev, watch'.hasNext)
        BY <1>1 DEF EndsShown, Matches
      <4>1. CanPreserve /\ Holds(Joined(u.body)) /\ "ends" \notin since
        BY <2>1
      <4>2. Matches(sections, u.body, u.hasPrev, u.hasNext)
        BY <1>11
      <4>3. SameSections(0)
        <5>1. SameSections(1) /\ u.answers # "latest" /\ ~u.skips
          BY <1>2, <1>6, <1>13, <3>1
        <5>2. \A j \in 1..Len(link) : j = 1 \/ j \in (1 + 1)..Len(link)
          BY <1>2
        <5> QED
          BY <5>1, <5>2 DEF SameSections, u
      <4>4. Matches(sections, watch.body, watch.hasPrev, watch.hasNext)
        BY <3>1, <4>1, <4>3 DEF CanPreserve, IInv, ShownInv, EndsShown
      <4>5. watch.body # <<>>
        BY <4>4 DEF Matches
      <4>6. /\ watch'.body # <<>>
            /\ watch.pending = "older" => Last(watch'.body) = Last(watch.body)
            /\ watch.pending = "newer" => Head(watch'.body) = Head(watch.body)
        BY <1>6, <1>7, <1>8, <1>13, <4>1, <4>5
      <4>7. CASE watch.pending = "older"
        BY <3>5, <4>2, <4>4, <4>6, <4>7, Zenon DEF Matches
      <4>8. CASE watch.pending = "newer"
        BY <3>5, <4>2, <4>4, <4>6, <4>8, Zenon DEF Matches
      <4> QED
        BY <1>6, <1>13, <4>7, <4>8
    <3>9. BodyHasNoGap'
      BY <3>4 DEF BodyHasNoGap, Run
    <3> QED
      BY <1>7, <1>8, <3>6, <3>7, <3>8, <3>9 DEF ShownInv
  <2> QED
    BY <2>2, <2>3
<1> QED
  BY <1>12, <1>13


-----------------------------------------------------------------------------
(***************************************************************************)
(* Every step keeps the invariant.                                         *)
(***************************************************************************)
\* What TypeOK says besides PhoneTypes and WatchTypes.
OtherTypes ==
  /\ reading \in BOOLEAN
  /\ since \subseteq {"older", "newer", "mistaken", "skipped", "ends"}
  /\ changes \in 0..MaxChanges

\* The types, taken together.
LEMMA Typed == TypeOK <=> PhoneTypes /\ WatchTypes /\ OtherTypes
BY DEF TypeOK, PhoneTypes, WatchTypes, OtherTypes

\* A change that is counted.
LEMMA ChangeTyped ==
  ASSUME TypeOK, Change
  PROVE  changes' \in 0..MaxChanges
<1> DEFINE c == changes
           d == changes'
<1>1. MaxChanges \in Nat /\ c \in 0..MaxChanges /\ c < MaxChanges /\ d = c + 1
  BY ChangesAssumption DEF TypeOK, Change
<1> HIDE DEF c, d
<1>2. d \in 0..MaxChanges
  BY <1>1
<1> QED
  BY <1>2 DEF d

\* The body is still without a gap when nothing befell it.
LEMMA GapUnchanged ==
  ASSUME BodyHasNoGap, watch'.body = watch.body, since' = since \/ since' = since \cup {"ends"}
  PROVE  BodyHasNoGap'
BY DEF BodyHasNoGap, InOneDirection

\* The phone's types depend on its own state only.
LEMMA TypesUnchanged ==
  ASSUME TypeOK, UNCHANGED <<items, sections, window, lastBody, link, stale>>
  PROVE  PhoneTypes'
BY DEF TypeOK, PhoneTypes

\* A step that leaves the phone's cache and queue alone keeps its side.
LEMMA PhoneStays ==
  ASSUME IInv, UNCHANGED <<items, sections, window, lastBody, link, stale>>
  PROVE  PhoneInv' /\ PhoneTypes' /\ watch.body \in Seq(1..items')
<1>1. PhoneInv /\ TypeOK
  BY DEF IInv
<1> QED
  BY <1>1, PhoneUnchanged, TypesUnchanged DEF TypeOK

\* The window of the sections that were read again.
LEMMA ClampedIs ==
  ASSUME IInv, sections # <<>>, NEW secs, Len(secs) \in Nat, items <= Len(secs)
  PROVE  Clamped(window, secs) = window
<1> DEFINE start == window.start
           end == window.end
           n == Len(secs)
           m == Len(sections)
           S == {start, n}
           T == {end, n}
<1>1. /\ items \in (MaxItems - 1)..MaxItems /\ sections \in Sections(items)
      /\ start < end /\ end <= m /\ window \in [start : Nat, end : Nat]
  BY Constants DEF IInv, TypeOK, PhoneInv, Cached
<1>2. m \in Nat /\ m <= items /\ items \in Nat /\ n \in Nat /\ items <= n
  BY <1>1, SectionsAre, Constants
<1>3. start \in Nat /\ end \in Nat /\ window = Page(start, end)
      /\ Clamped(window, secs) = Page(Min(S), Min(T))
  BY <1>1 DEF Page, Clamped
<1>4. S \in SUBSET Nat /\ T \in SUBSET Nat /\ S # {} /\ T # {}
  BY <1>2, <1>3
<1>5. /\ Min(S) \in S /\ \A y \in S : Min(S) <= y
      /\ Min(T) \in T /\ \A y \in T : Min(T) <= y
  BY <1>4, LeastNumber
<1> DEFINE a == Min(S)
           b == Min(T)
<1>6. a \in {start, n} /\ a <= start /\ b \in {end, n} /\ b <= end
  BY <1>5
<1> HIDE DEF a, b, start, end, n, m, S, T
<1>7. a = start /\ b = end
  BY <1>1, <1>2, <1>3, <1>6
<1> QED
  BY <1>3, <1>7 DEF a, b

\* sendDetailUpdateIfChanged, when the watch was sent the page before.
LEMMA SamePageKeeps ==
  ASSUME IInv, sections # <<>>, items' \in (MaxItems - 1)..MaxItems, items <= items',
         sections' \in Sections(items'), Len(sections') = items', window' = window,
         UNCHANGED <<lastBody, link, since, watch>>,
         stale' = (stale \/ sections' # sections)
  PROVE  PhoneInv' /\ PhoneTypes' /\ ShownInv'
<1>1. /\ PhoneInv /\ ShownInv /\ TypeOK /\ items \in Nat /\ items' \in Nat
      /\ window.start < window.end /\ window.end <= Len(sections)
      /\ window.start \in Nat /\ window.end \in Nat
      /\ sections \in Sections(items) /\ items \in (MaxItems - 1)..MaxItems
  BY Constants DEF IInv, TypeOK, PhoneInv, Cached
<1>2. ~stale' => ~stale /\ sections' = sections
  OBVIOUS
<1>3. /\ link \in Seq(Update(items')) /\ Seq(1..items) \subseteq Seq(1..items')
  BY <1>1, UpdatesGrow DEF PhoneInv, Updates
<1>4. sections' # <<>> /\ sections' \in Seq(1..items')
  BY SectionsAre
<1>5. ASSUME NEW k, SameSections(k)' PROVE SameSections(k) /\ sections' = sections
  BY <1>2, <1>5 DEF SameSections
<1>6. window.end <= Len(sections')
  <2> DEFINE end == window.end
             m == Len(sections)
  <2>1. m <= items /\ m \in Nat /\ end \in Nat /\ end <= m
    BY <1>1, SectionsAre, Constants
  <2> HIDE DEF end, m
  <2>2. end <= items'
    BY <1>1, <2>1
  <2> QED
    BY <2>2 DEF end
<1>7. Cached'
  BY <1>1, <1>4, <1>6 DEF Cached
<1>8. Updates'
  BY <1>1, <1>3 DEF PhoneInv, Updates, Run
<1>9. UpdatesMatch'
  BY <1>1, <1>5 DEF PhoneInv, UpdatesMatch, Matches
<1>10. LastIsWindow'
  BY <1>1, <1>2, <1>4 DEF PhoneInv, LastIsWindow, Last
<1>11. SecondFollows'
  BY <1>1 DEF PhoneInv, SecondFollows, Precedes, Succeeds
<1>12. Clean' = Clean
  BY DEF Clean, InOneDirection
<1>13. FirstFollows'
  BY <1>1, <1>12 DEF ShownInv, FirstFollows, Precedes, Succeeds
<1>14. WindowShown'
  BY <1>1, <1>2, <1>12 DEF ShownInv, WindowShown, Last
<1>15. EndsShown'
  BY <1>1, <1>5, <1>12 DEF ShownInv, EndsShown, Matches
<1>16. PhoneTypes'
  <2>1. /\ items' \in 1..MaxItems /\ lastBody' \in Seq(1..items')
        /\ window' \in [start : 0..MaxItems, end : 0..MaxItems]
        /\ Len(link') <= 2 /\ stale' \in BOOLEAN
    BY <1>1, <1>3, Constants DEF TypeOK
  <2> QED
    BY <1>4, <2>1 DEF PhoneTypes
<1> QED
  BY <1>7, <1>8, <1>9, <1>10, <1>11, <1>13, <1>14, <1>15, <1>16 DEF PhoneInv, ShownInv

\* sendDetailUpdateIfChanged keeps everything, whether it sends or not.
LEMMA ChangedKeeps ==
  ASSUME IInv, sections # <<>>, SendDetailUpdateIfChanged, UNCHANGED <<since, watch>>
  PROVE  /\ PhoneInv' /\ PhoneTypes' /\ ShownInv' /\ items' \in Nat /\ items <= items'
         /\ link' # <<>> \/ link' = link
<1>1. /\ items' \in (MaxItems - 1)..MaxItems /\ items' \in Nat /\ items <= items'
  <2>1. items \in (MaxItems - 1)..MaxItems
    BY DEF IInv, PhoneInv, Cached
  <2> QED
    BY <2>1, Constants DEF SendDetailUpdateIfChanged
<1>2. sections' = [i \in 1..items' |-> i]
  BY DEF SendDetailUpdateIfChanged
<1>3. sections' \in Sections(items') /\ Len(sections') = items'
  BY <1>1, <1>2 DEF Sections
<1> DEFINE win == Clamped(window, sections')
           page == DetailPageEndingAt(sections', items')
<1>4. \/ /\ window' = win /\ UNCHANGED <<lastBody, link>>
         /\ stale' = (stale \/ sections' # sections)
      \/ SendDetailPage(sections', win, "latest")
  BY Zenon DEF SendDetailUpdateIfChanged
<1>5. CASE /\ window' = win /\ UNCHANGED <<lastBody, link>>
           /\ stale' = (stale \/ sections' # sections)
  <2>1. win = window
    BY <1>1, <1>3, ClampedIs
  <2>2. window' = window
    BY <1>5, <2>1
  <2> QED
    BY <1>1, <1>3, <1>5, <2>2, SamePageKeeps
<1> HIDE DEF win
<1>6. CASE SendDetailPage(sections', win, "latest")
  BY <1>1, <1>3, <1>6, PageSentKeeps
<1> QED
  BY <1>4, <1>5, <1>6

\* A step of the phone that leaves the watch alone.
LEMMA WatchStays ==
  ASSUME IInv, UNCHANGED <<outbox, watch, since>>, PhoneInv', PhoneTypes', ShownInv',
         items' \in Nat, items <= items', reading' \in BOOLEAN, changes' \in 0..MaxChanges,
         link' # <<>> \/ (link' = link /\ reading' = reading) \/ reading'
  PROVE  IInv'
<1>1. WatchTypes' /\ OtherTypes'
  BY WatchGrows DEF IInv, TypeOK, OtherTypes
<1>2. TypeOK'
  BY <1>1, Typed, PTL
<1>3. BodyHasNoGap'
  BY GapUnchanged DEF IInv
<1>4. PendingOffered' /\ WaitIsServed'
  BY DEF IInv, PendingOffered, WaitIsServed
<1> QED
  BY <1>2, <1>3, <1>4 DEF IInv

\* A step of the watch that leaves the phone alone.
LEMMA PhoneIdle ==
  ASSUME IInv, UNCHANGED phoneVars, WatchTypes', OtherTypes', ShownInv', PendingOffered',
         BodyHasNoGap', WaitIsServed'
  PROVE  IInv'
<1>1. UNCHANGED <<items, sections, window, lastBody, link, stale>>
  BY DEF phoneVars
<1>2. PhoneInv' /\ PhoneTypes'
  BY <1>1, PhoneStays
<1>3. TypeOK'
  BY <1>2, Typed, PTL
<1> QED
  BY <1>2, <1>3 DEF IInv

\* The empty body is a body.
LEMMA NoneIsTyped == <<>> \in Seq(1..items)
BY EmptySeq

\* A live update, or the page of a poll if it is another one.
LEMMA LiveIInv == IInv /\ Live => IInv'
<1> SUFFICES ASSUME IInv, Live PROVE IInv'
  OBVIOUS
<1>1. /\ Change /\ sections # <<>> /\ UNCHANGED <<reading, outbox, watch, since>>
      /\ SendDetailUpdate \/ SendDetailUpdateIfChanged
  BY DEF Live
<1>2. changes' \in 0..MaxChanges /\ reading' \in BOOLEAN
  BY <1>1, ChangeTyped DEF IInv, TypeOK
<1>3. CASE SendDetailUpdate
  BY <1>1, <1>2, <1>3, DetailUpdateKeeps, WatchStays
<1>4. CASE SendDetailUpdateIfChanged
  BY <1>1, <1>2, <1>4, ChangedKeeps, WatchStays
<1> QED
  BY <1>1, <1>3, <1>4

\* A thread that is not cached has no window, and what it had matches nothing.
LEMMA EvictedIInv == IInv /\ Evicted => IInv'
<1> SUFFICES ASSUME IInv, Evicted PROVE IInv'
  OBVIOUS
<1>1. /\ Change /\ sections' = <<>> /\ window' = NoWindow /\ lastBody' = <<>> /\ stale' = FALSE
      /\ UNCHANGED <<items, link, reading, outbox, watch, since>>
  BY DEF Evicted
<1>2. changes' \in 0..MaxChanges /\ reading' \in BOOLEAN /\ items \in Nat /\ items <= items'
  BY <1>1, ChangeTyped, Constants DEF IInv, TypeOK
<1>3. PhoneInv'
  BY <1>1 DEF IInv, PhoneInv, Cached, Updates, UpdatesMatch, LastIsWindow, SecondFollows,
              SameSections, Run, Precedes, Succeeds
<1>4. PhoneTypes'
  <2>1. sections' \in Seq(1..items) /\ lastBody' \in Seq(1..items)
    BY <1>1, NoneIsTyped
  <2>2. window' \in [start : 0..MaxItems, end : 0..MaxItems]
    BY <1>1, Constants DEF NoWindow
  <2> QED
    BY <1>1, <2>1, <2>2 DEF IInv, TypeOK, PhoneTypes
<1>5. Clean' = Clean
  BY <1>1 DEF Clean, InOneDirection
<1>6. ShownInv'
  BY <1>1, <1>5 DEF IInv, ShownInv, FirstFollows, WindowShown, EndsShown, SameSections,
                    Precedes, Succeeds
<1> QED
  BY <1>1, <1>2, <1>3, <1>4, <1>6, WatchStays

\* The answer to thread/read sends the latest page; a failure sends nothing.
LEMMA ThreadReadIInv == IInv /\ ThreadRead => IInv'
<1> SUFFICES ASSUME IInv, ThreadRead PROVE IInv'
  OBVIOUS
<1>1. reading' = FALSE /\ UNCHANGED <<outbox, watch>>
  BY DEF ThreadRead
<1>2. CASE SendDetailUpdate /\ UNCHANGED <<since, changes>>
  <2>1. changes' \in 0..MaxChanges
    BY <1>2 DEF IInv, TypeOK
  <2> QED
    BY <1>1, <1>2, <2>1, DetailUpdateKeeps, WatchStays
<1>3. CASE /\ Change /\ since' = since \cup {"skipped"}
           /\ UNCHANGED <<items, sections, window, lastBody, link, stale>>
  <2>1. PhoneInv' /\ PhoneTypes' /\ ShownInv' /\ BodyHasNoGap' /\ WaitIsServed'
    BY <1>3, PhoneStays, Skipped
  <2>2. WatchTypes' /\ OtherTypes' /\ PendingOffered'
    BY <1>1, <1>3, ChangeTyped DEF IInv, TypeOK, WatchTypes, OtherTypes, PendingOffered
  <2>3. TypeOK'
    BY <2>1, <2>2, Typed, PTL
  <2> QED
    BY <2>1, <2>2, <2>3 DEF IInv
<1> QED
  BY <1>2, <1>3 DEF ThreadRead

\* An update is merged, or dropped for a row that is not listed.
LEMMA DeliverIInv == IInv /\ Deliver => IInv'
<1> SUFFICES ASSUME IInv, Deliver PROVE IInv'
  OBVIOUS
<1>1. /\ link # <<>> /\ link' = Rest(watch.listed) /\ HandleDetailUpdate(Head(link))
      /\ UNCHANGED <<items, sections, window, lastBody, reading, outbox, stale, changes>>
  BY DEF Deliver
<1>2. PhoneInv' /\ PhoneTypes' /\ watch.listed \in BOOLEAN
  <2>1. watch.listed \in BOOLEAN
    BY DEF IInv, TypeOK
  <2> QED
    BY <1>1, <2>1, RestKeeps
<1>3. CASE watch.listed
  <2>1. watch'.body \in Seq(1..items) /\ ShownInv' /\ BodyHasNoGap'
    BY <1>3, DeliveredShown
  <2> DEFINE u == Head(link)
  <2>2. u.hasPrev \in BOOLEAN /\ u.hasNext \in BOOLEAN
    <3>1. u \in Update(items)
      BY <1>1 DEF IInv, PhoneInv, Updates
    <3> QED
      BY <3>1 DEF Update
  <2> HIDE DEF u
  <2>3. /\ watch' = [watch EXCEPT
               !.body = Merged(u.body), !.loaded = TRUE, !.hasDetail = TRUE,
               !.pending = NoMessage,
               !.hasPrev = IF watch.pending = "newer" THEN @ ELSE u.hasPrev,
               !.hasNext = IF watch.pending = "older" THEN @ ELSE u.hasNext]
        /\ since' = SinceAfter(u)
    BY <1>1, <1>3 DEF HandleDetailUpdate, u
  <2>4. WatchTypes'
    BY <1>1, <2>1, <2>2, <2>3 DEF IInv, TypeOK, WatchTypes, NoMessage
  <2>5. since' \subseteq {"older", "newer", "mistaken", "skipped", "ends"}
    BY <2>3 DEF SinceAfter, IInv, TypeOK, NoMessage
  <2>6. watch'.pending = NoMessage
    BY <2>3 DEF IInv, TypeOK
  <2>7. OtherTypes' /\ PendingOffered' /\ WaitIsServed'
    BY <1>1, <2>5, <2>6 DEF IInv, TypeOK, OtherTypes, PendingOffered, WaitIsServed, NoMessage
  <2>8. TypeOK'
    BY <1>2, <2>4, <2>7, Typed, PTL
  <2> QED
    BY <1>2, <2>1, <2>7, <2>8 DEF IInv
<1>4. CASE ~watch.listed
  <2>1. watch' = watch /\ since' = since \cup {"skipped"}
    BY <1>1, <1>4 DEF HandleDetailUpdate
  <2>2. ShownInv' /\ BodyHasNoGap' /\ WaitIsServed'
    BY <2>1, Skipped
  <2>3. WatchTypes' /\ OtherTypes' /\ PendingOffered'
    BY <1>1, <2>1 DEF IInv, TypeOK, WatchTypes, OtherTypes, PendingOffered
  <2>4. TypeOK'
    BY <1>2, <2>3, Typed, PTL
  <2> QED
    BY <1>2, <2>2, <2>3, <2>4 DEF IInv
<1> QED
  BY <1>3, <1>4

\* The phone's queue drops an update.
LEMMA DetailLostIInv == IInv /\ DetailLost => IInv'
<1> SUFFICES ASSUME IInv, DetailLost PROVE IInv'
  OBVIOUS
<1>1. /\ Change /\ link # <<>> /\ link' = Rest(FALSE) /\ since' = since \cup {"skipped"}
      /\ UNCHANGED <<items, sections, window, lastBody, reading, outbox, watch, stale>>
  BY DEF DetailLost
<1>2. PhoneInv' /\ PhoneTypes'
  <2> DEFINE taken == FALSE
  <2>1. taken \in BOOLEAN /\ link' = Rest(taken)
    BY <1>1
  <2> HIDE DEF taken
  <2> QED
    BY <1>1, <2>1, RestKeeps
<1>3. ShownInv' /\ BodyHasNoGap' /\ WaitIsServed'
  BY <1>1, Skipped
<1>4. WatchTypes' /\ OtherTypes' /\ PendingOffered'
  BY <1>1, ChangeTyped DEF IInv, TypeOK, WatchTypes, OtherTypes, PendingOffered
<1>5. TypeOK'
  BY <1>2, <1>4, Typed, PTL
<1> QED
  BY <1>2, <1>3, <1>4, <1>5 DEF IInv

\* The phone answers the watch with a page, or reads the thread first.
LEMMA OutboxSentIInv == IInv /\ OutboxSent => IInv'
<1> SUFFICES ASSUME IInv, OutboxSent PROVE IInv'
  OBVIOUS
<1>1. outbox' = NoMessage /\ UNCHANGED <<watch, since, changes>> /\ TypeOK
  BY DEF OutboxSent, IInv
<1>2. /\ PhoneInv' /\ PhoneTypes' /\ items' = items /\ reading' \in BOOLEAN
      /\ reading' \/ link' # <<>>
      /\ ShownInv'
  <2>1. CASE outbox = "detail" /\ RequestThreadDetail
    <3>1. reading' = TRUE /\ UNCHANGED <<items, sections, window, lastBody, link, stale>>
      BY <2>1 DEF RequestThreadDetail
    <3>2. PhoneInv' /\ PhoneTypes'
      BY <3>1, PhoneStays
    <3>3. ShownInv'
      BY <1>1, <3>1, ShownUnchanged DEF IInv
    <3> QED
      BY <3>1, <3>2, <3>3
  <2>2. CASE outbox \in {"older", "newer"} /\ RequestDetailScroll(outbox)
    BY <1>1, <2>2, DetailScrollKeeps
  <2> QED
    BY <2>1, <2>2 DEF OutboxSent
<1>3. WatchTypes' /\ OtherTypes'
  BY <1>1, <1>2 DEF TypeOK, WatchTypes, OtherTypes
<1>4. TypeOK'
  BY <1>2, <1>3, Typed, PTL
<1>5. BodyHasNoGap' /\ PendingOffered' /\ WaitIsServed'
  BY <1>1, <1>2, GapUnchanged DEF IInv, PendingOffered, WaitIsServed
<1> QED
  BY <1>2, <1>4, <1>5 DEF IInv

\* A message that failed may have been handled; the wait is over.
LEMMA OutboxFailedIInv == IInv /\ OutboxFailed => IInv'
<1> SUFFICES ASSUME IInv, OutboxFailed PROVE IInv'
  OBVIOUS
<1>1. /\ Change /\ outbox' = NoMessage /\ since' = since /\ TypeOK
      /\ watch' = [watch EXCEPT !.pending = NoMessage]
  BY DEF OutboxFailed, IInv
<1>2. /\ watch'.body = watch.body /\ watch'.loaded = watch.loaded
      /\ watch'.hasPrev = watch.hasPrev /\ watch'.hasNext = watch.hasNext
      /\ watch'.pending = NoMessage
  BY <1>1 DEF TypeOK
<1>3. /\ PhoneInv' /\ PhoneTypes' /\ items' = items /\ reading' \in BOOLEAN /\ ShownInv'
  <2>1. CASE UNCHANGED phoneVars
    <3>1. reading' = reading /\ UNCHANGED <<items, sections, window, lastBody, link, stale>>
      BY <2>1 DEF phoneVars
    <3>2. PhoneInv' /\ PhoneTypes'
      BY <3>1, PhoneStays
    <3>3. ShownInv'
      BY <1>1, <1>2, <3>1, ShownUnchanged DEF IInv
    <3> QED
      BY <1>1, <3>1, <3>2, <3>3 DEF TypeOK
  <2>2. CASE outbox \in {"older", "newer"} /\ RequestDetailScroll(outbox)
    BY <1>1, <1>2, <2>2, DetailScrollKeeps
  <2> QED
    BY <2>1, <2>2 DEF OutboxFailed
<1>4. WatchTypes' /\ OtherTypes'
  BY <1>1, <1>3, ChangeTyped DEF TypeOK, WatchTypes, OtherTypes
<1>5. TypeOK'
  BY <1>3, <1>4, Typed, PTL
<1>6. BodyHasNoGap' /\ PendingOffered' /\ WaitIsServed'
  BY <1>1, <1>2, GapUnchanged DEF IInv, PendingOffered, WaitIsServed, NoMessage
<1> QED
  BY <1>3, <1>5, <1>6 DEF IInv

\* With no body on the screen nothing is said of it.
LEMMA NothingShown ==
  ASSUME watch'.body = <<>>, ~watch'.loaded
  PROVE  ShownInv' /\ BodyHasNoGap'
<1>1. Len(watch'.body) = 0
  BY EmptySeq
<1>2. \A i : i \notin 1..(0 - 1)
  OBVIOUS
<1> QED
  BY <1>1, <1>2 DEF ShownInv, FirstFollows, WindowShown, EndsShown, Precedes, Succeeds,
                    BodyHasNoGap

\* Opening the thread empties the body.
LEMMA SelectThreadIInv == IInv /\ SelectThread => IInv'
<1> SUFFICES ASSUME IInv, SelectThread PROVE IInv'
  OBVIOUS
<1>1. /\ Change /\ Send("detail") /\ UNCHANGED phoneVars /\ since' = since /\ TypeOK
      /\ watch' = [watch EXCEPT !.open = TRUE, !.loaded = FALSE, !.body = <<>>,
                                !.pending = NoMessage]
  BY DEF SelectThread, IInv
<1>2. watch'.body = <<>> /\ watch'.loaded = FALSE /\ watch'.pending = NoMessage
  BY <1>1 DEF TypeOK
<1>3. WatchTypes' /\ OtherTypes'
  <2>1. items' = items /\ watch'.body \in Seq(1..items)
    BY <1>1, <1>2, NoneIsTyped DEF phoneVars
  <2>2. OtherTypes'
    BY <1>1, ChangeTyped DEF phoneVars, TypeOK, OtherTypes
  <2>3. WatchTypes'
    BY <1>1, <2>1, Zenon DEF phoneVars, TypeOK, WatchTypes, Send, NoMessage
  <2> QED
    BY <2>2, <2>3
<1>4. ShownInv' /\ BodyHasNoGap'
  BY <1>2, NothingShown
<1>5. PendingOffered' /\ WaitIsServed'
  BY <1>2 DEF PendingOffered, WaitIsServed, NoMessage
<1> QED
  BY <1>1, <1>3, <1>4, <1>5, PhoneIdle

\* Closing the window keeps the body.
LEMMA CloseDetailIInv == IInv /\ CloseDetail => IInv'
<1> SUFFICES ASSUME IInv, CloseDetail PROVE IInv'
  OBVIOUS
<1>1. /\ UNCHANGED <<phoneVars, outbox, since, changes>> /\ TypeOK
      /\ watch' = [watch EXCEPT !.open = FALSE]
  BY DEF CloseDetail, IInv
<1>2. /\ watch'.body = watch.body /\ watch'.loaded = watch.loaded
      /\ watch'.hasPrev = watch.hasPrev /\ watch'.hasNext = watch.hasNext
      /\ watch'.pending = watch.pending /\ watch'.listed = watch.listed
  BY <1>1 DEF TypeOK
<1>3. WatchTypes' /\ OtherTypes'
  BY <1>1 DEF phoneVars, TypeOK, WatchTypes, OtherTypes
<1>4. ShownInv' /\ BodyHasNoGap'
  BY <1>1, <1>2, ShownUnchanged, GapUnchanged DEF IInv, phoneVars
<1>5. PendingOffered' /\ WaitIsServed'
  BY <1>1, <1>2 DEF IInv, PendingOffered, WaitIsServed, phoneVars
<1> QED
  BY <1>1, <1>3, <1>4, <1>5, PhoneIdle

\* A row that is cleared waits for nothing.
LEMMA JobClearIInv == IInv /\ JobClear => IInv'
<1> SUFFICES ASSUME IInv, JobClear PROVE IInv'
  OBVIOUS
<1>1. /\ Change /\ UNCHANGED <<phoneVars, outbox, since>> /\ TypeOK
      /\ watch' = [watch EXCEPT !.listed = FALSE]
  BY DEF JobClear, IInv
<1>2. /\ watch'.body = watch.body /\ watch'.loaded = watch.loaded
      /\ watch'.hasPrev = watch.hasPrev /\ watch'.hasNext = watch.hasNext
      /\ watch'.pending = watch.pending /\ ~watch'.listed
  BY <1>1 DEF TypeOK
<1>3. WatchTypes' /\ OtherTypes'
  BY <1>1, ChangeTyped DEF phoneVars, TypeOK, WatchTypes, OtherTypes
<1>4. ShownInv' /\ BodyHasNoGap'
  BY <1>1, <1>2, ShownUnchanged, GapUnchanged DEF IInv, phoneVars
<1>5. PendingOffered' /\ WaitIsServed'
  BY <1>1, <1>2 DEF IInv, PendingOffered, WaitIsServed
<1> QED
  BY <1>1, <1>3, <1>4, <1>5, PhoneIdle

\* A row listed again offers nothing beyond the ends of the body.
LEMMA JobItemIInv == IInv /\ JobItem => IInv'
<1> SUFFICES ASSUME IInv, JobItem PROVE IInv'
  OBVIOUS
<1>1. /\ UNCHANGED <<phoneVars, outbox, changes>> /\ since' = since \cup {"ends"} /\ TypeOK
      /\ watch' = [watch EXCEPT !.listed = TRUE, !.hasDetail = FALSE, !.hasPrev = FALSE,
                                !.hasNext = FALSE, !.pending = NoMessage]
  BY DEF JobItem, IInv
<1>2. /\ watch'.body = watch.body /\ watch'.hasPrev = FALSE /\ watch'.hasNext = FALSE
      /\ watch'.pending = NoMessage
  BY <1>1 DEF TypeOK
<1>3. WatchTypes' /\ OtherTypes'
  BY <1>1 DEF phoneVars, TypeOK, WatchTypes, OtherTypes, NoMessage
<1>4. /\ Clean' = Clean /\ "ends" \in since'
      /\ "newer" \notin since' <=> "newer" \notin since
      /\ "older" \notin since' <=> "older" \notin since
  BY <1>1 DEF Clean, InOneDirection
<1>5. FirstFollows'
  BY <1>2 DEF FirstFollows, Precedes, Succeeds
<1>6. WindowShown'
  BY <1>1, <1>2, <1>4 DEF IInv, ShownInv, WindowShown, phoneVars, Last
<1>7. EndsShown'
  BY <1>4 DEF EndsShown
<1>8. BodyHasNoGap' /\ PendingOffered' /\ WaitIsServed'
  BY <1>1, <1>2, GapUnchanged DEF IInv, PendingOffered, WaitIsServed, NoMessage
<1> QED
  BY <1>1, <1>3, <1>5, <1>6, <1>7, <1>8, PhoneIdle DEF ShownInv

\* Another thread's detail takes the body.
LEMMA OtherDetailIInv == IInv /\ OtherDetail => IInv'
<1> SUFFICES ASSUME IInv, OtherDetail PROVE IInv'
  OBVIOUS
<1>1. /\ Change /\ UNCHANGED <<phoneVars, outbox, since>> /\ TypeOK
      /\ watch' = [watch EXCEPT !.body = <<>>, !.loaded = FALSE]
  BY DEF OtherDetail, IInv
<1>2. /\ watch'.body = <<>> /\ watch'.loaded = FALSE /\ watch'.listed = watch.listed
      /\ watch'.hasPrev = watch.hasPrev /\ watch'.hasNext = watch.hasNext
      /\ watch'.pending = watch.pending
  BY <1>1 DEF TypeOK
<1>3. WatchTypes' /\ OtherTypes'
  <2>1. items' = items /\ watch'.body \in Seq(1..items)
    BY <1>1, <1>2, NoneIsTyped DEF phoneVars
  <2>2. OtherTypes'
    BY <1>1, ChangeTyped DEF phoneVars, TypeOK, OtherTypes
  <2>3. WatchTypes'
    BY <1>1, <2>1, Zenon DEF phoneVars, TypeOK, WatchTypes, Send, NoMessage
  <2> QED
    BY <2>2, <2>3
<1>4. ShownInv' /\ BodyHasNoGap'
  BY <1>2, NothingShown
<1>5. PendingOffered' /\ WaitIsServed'
  BY <1>1, <1>2 DEF IInv, PendingOffered, WaitIsServed, phoneVars
<1> QED
  BY <1>1, <1>3, <1>4, <1>5, PhoneIdle

\* The page asked for is one that was offered.
LEMMA RequestDetailPageIInv ==
  ASSUME IInv, NEW direction \in {"older", "newer"}, RequestDetailPage(direction)
  PROVE  IInv'
<1>1. /\ watch.listed /\ watch.pending = NoMessage /\ Send(direction) /\ TypeOK
      /\ IF direction = "older" THEN watch.hasPrev ELSE watch.hasNext
      /\ watch' = [watch EXCEPT !.pending = direction]
      /\ UNCHANGED phoneVars
      /\ IF outbox' = outbox THEN Change /\ since' = since \cup {"skipped"}
                              ELSE UNCHANGED <<changes, since>>
  BY DEF RequestDetailPage, IInv
<1>2. /\ watch'.body = watch.body /\ watch'.loaded = watch.loaded
      /\ watch'.hasPrev = watch.hasPrev /\ watch'.hasNext = watch.hasNext
      /\ watch'.pending = direction
  BY <1>1 DEF TypeOK
<1>3. WatchTypes' /\ changes' \in 0..MaxChanges
  BY <1>1, ChangeTyped DEF phoneVars, TypeOK, WatchTypes, Send
<1>4. OtherTypes'
  BY <1>1, <1>3 DEF phoneVars, TypeOK, OtherTypes
<1>5. PendingOffered'
  BY <1>1, <1>2 DEF PendingOffered
<1>6. ShownInv' /\ BodyHasNoGap' /\ WaitIsServed'
  <2>1. CASE outbox' = outbox
    BY <1>1, <2>1, Skipped
  <2>2. CASE outbox' # outbox
    <3>1. ShownInv' /\ BodyHasNoGap'
      BY <1>1, <1>2, <2>2, ShownUnchanged, GapUnchanged DEF IInv, phoneVars
    <3>2. outbox' = watch'.pending
      BY <1>1, <1>2, <2>2 DEF Send
    <3> QED
      BY <3>1, <3>2 DEF WaitIsServed
  <2> QED
    BY <2>1, <2>2
<1> QED
  BY <1>1, <1>3, <1>4, <1>5, <1>6, PhoneIdle

\* Nothing is under way, cached or shown at first.
LEMMA InitIInv == Init => IInv
<1> SUFFICES ASSUME Init PROVE IInv
  OBVIOUS
<1>1. /\ items = MaxItems - 1 /\ items \in 1..MaxItems /\ items \in (MaxItems - 1)..MaxItems
      /\ changes \in 0..MaxChanges
  BY Constants, ChangesAssumption DEF Init
<1>2. Len(link) = 0 /\ Len(watch.body) = 0
  BY EmptySeq DEF Init
<1>3. TypeOK
  <2>1. /\ window \in [start : 0..MaxItems, end : 0..MaxItems]
        /\ sections \in Seq(1..items) /\ lastBody \in Seq(1..items)
    BY Constants, NoneIsTyped DEF Init, NoWindow
  <2>2. watch \in [open : BOOLEAN, listed : BOOLEAN, hasDetail : BOOLEAN, loaded : BOOLEAN,
                   body : Seq(1..items), hasPrev : BOOLEAN, hasNext : BOOLEAN,
                   pending : {NoMessage, "older", "newer"}]
    BY NoneIsTyped DEF Init
  <2>3. /\ reading \in BOOLEAN /\ outbox \in {NoMessage, "detail", "older", "newer"}
        /\ stale \in BOOLEAN /\ since \subseteq {"older", "newer", "mistaken", "skipped", "ends"}
    BY DEF Init
  <2>4. Len(link) <= 2
    BY <1>2
  <2> QED
    BY <1>1, <2>1, <2>2, <2>3, <2>4 DEF TypeOK
<1>4. PhoneInv
  BY <1>1, <1>2 DEF Init, PhoneInv, Cached, Updates, UpdatesMatch, LastIsWindow, SecondFollows
<1>5. ShownInv /\ BodyHasNoGap /\ PendingOffered /\ WaitIsServed
  BY <1>2 DEF Init, ShownInv, FirstFollows, WindowShown, EndsShown, BodyHasNoGap,
              PendingOffered, WaitIsServed, NoMessage
<1> QED
  BY <1>3, <1>4, <1>5 DEF IInv

\* Nothing changes.
LEMMA StutterIInv == IInv /\ UNCHANGED vars => IInv'
<1> SUFFICES ASSUME IInv, UNCHANGED vars PROVE IInv'
  OBVIOUS
<1>1. UNCHANGED <<items, sections, window, lastBody, link, stale, reading, outbox, watch,
                  since, changes>>
  BY DEF vars
<1>2. PhoneInv' /\ PhoneTypes' /\ items \in Nat /\ reading' \in BOOLEAN
      /\ changes' \in 0..MaxChanges
  BY <1>1, PhoneStays, Constants DEF IInv, TypeOK
<1>3. ShownInv'
  BY <1>1, ShownUnchanged DEF IInv
<1> QED
  BY <1>1, <1>2, <1>3, WatchStays

\* Every step keeps the invariant.
LEMMA NextIInv == IInv /\ [Next]_vars => IInv'
BY LiveIInv, EvictedIInv, ThreadReadIInv, DeliverIInv, DetailLostIInv, OutboxSentIInv,
   OutboxFailedIInv, SelectThreadIInv, CloseDetailIInv, JobClearIInv, JobItemIInv,
   OtherDetailIInv, RequestDetailPageIInv, StutterIInv DEF Next

-----------------------------------------------------------------------------
(***************************************************************************)
(* The phone's window, the updates under way and the body fit together     *)
(* whatever the phone reads and the watch asks for, in every order         *)
(* (selectDetailPage, sendDetailPage, sendEnvelope, prv_apply_detail_text). *)
(***************************************************************************)
THEOREM Inductive == Spec => []IInv
BY InitIInv, NextIInv, PTL DEF Spec

(***************************************************************************)
(* The types of all variables.                                             *)
(***************************************************************************)
THEOREM TypeCorrect == Spec => []TypeOK
<1>1. IInv => TypeOK
  BY DEF IInv
<1> QED
  BY <1>1, Inductive, PTL

(***************************************************************************)
(* The body the watch builds of pages leaves no section out between two    *)
(* it shows and repeats none, unless something befell it that BodyHasNoGap *)
(* names (prv_prepend_thread_body, prv_append_thread_body): every page     *)
(* selected after another begins where that one ends.                      *)
(***************************************************************************)
THEOREM NoGap == Spec => []BodyHasNoGap
<1>1. IInv => BodyHasNoGap
  BY DEF IInv
<1> QED
  BY <1>1, Inductive, PTL

\* With nothing under way, the sections are those of the last update.
LEMMA EndsFollow == IInv => EndsAgree
<1> SUFFICES ASSUME IInv, InOneDirection, since \subseteq {"older", "newer"}, ~stale,
                    link = <<>>, watch.loaded, sections # <<>>
             PROVE  Matches(sections, watch.body, watch.hasPrev, watch.hasNext)
  BY DEF EndsAgree, Matches
<1>1. Clean /\ "ends" \notin since
  BY DEF Clean
<1>2. (0 + 1)..Len(link) = {}
  BY EmptySeq
<1>3. SameSections(0)
  BY <1>2 DEF SameSections
<1> QED
  BY <1>1, <1>3 DEF IInv, ShownInv, EndsShown

(***************************************************************************)
(* With nothing under way, the window offers to scroll exactly to what the *)
(* phone has beyond both ends of the body (prv_handle_detail_update keeps  *)
(* the end a page was not asked for).                                      *)
(***************************************************************************)
THEOREM EndsKnown == Spec => []EndsAgree
BY EndsFollow, Inductive, PTL

(***************************************************************************)
(* A window that waits for a page waits for a request or an update that is *)
(* under way (prv_request_detail_page), unless one was lost without a word. *)
(***************************************************************************)
THEOREM WaitServed == Spec => []WaitIsServed
<1>1. IInv => WaitIsServed
  BY DEF IInv
<1> QED
  BY <1>1, Inductive, PTL
=============================================================================
