----------------------------- MODULE RepliesProofs -----------------------------
(***************************************************************************)
(* Proofs about what the phone keeps of threads, for every set of threads, *)
(* texts and answers and every size of the cache: that its memory is       *)
(* bounded, that a pending reply outlives reads that are older, that it is *)
(* shown, and that the thread that is shown at last is shown as it is.  A  *)
(* line is anything here; that sections are sequences, and that a read     *)
(* says what the app-server knew, is part of the invariant.                *)
(***************************************************************************)
EXTENDS Replies, SequenceTheorems, FiniteSetTheorems, WellFoundedInduction, TLAPS

-----------------------------------------------------------------------------
(***************************************************************************)
(* Numbers: the least, the last and induction.                             *)
(***************************************************************************)
\* A set of numbers has a least one.  That there is one is taken from the
\* intervals up to each of them, ordered by inclusion.
LEMMA LeastNumber ==
  ASSUME NEW S \in SUBSET Nat, S # {}
  PROVE  \E x \in S : \A y \in S : x <= y
<1> DEFINE Below == {0..x : x \in S}
<1>1. Below \subseteq FiniteSubsetsOf(Nat) /\ Below # {}
  <2>1. \A x \in S : 0..x \subseteq Nat /\ IsFiniteSet(0..x)
    BY FS_Interval
  <2> QED
    BY <2>1, Zenon DEF FiniteSubsetsOf
<1>2. PICK B \in Below : \A C \in Below : <<C, B>> \notin StrictSubsetOrdering(Nat)
  BY <1>1, FS_StrictSubsetOrderingWellFounded, WFMin, Zenon
<1>3. PICK x \in S : B = 0..x
  BY <1>2
<1>4. ASSUME NEW y \in S, y < x PROVE FALSE
  <2>1. 0..y \subseteq 0..x /\ 0..y # 0..x /\ 0..y \in Below
    BY <1>4
  <2>2. <<0..y, B>> \in StrictSubsetOrdering(Nat)
    BY <2>1, <1>3, <1>4 DEF StrictSubsetOrdering
  <2> QED
    BY <2>1, <2>2, <1>2
<1>5. \A y \in S : x <= y
  BY <1>4
<1> QED
  BY <1>5

\* Induction: a set that has 0 and with each number the next has them all.
LEMMA EveryNumber ==
  ASSUME NEW S, 0 \in S, \A n \in Nat : n \in S => n + 1 \in S
  PROVE  Nat \subseteq S
<1> SUFFICES ASSUME Nat \ S # {} PROVE FALSE
  OBVIOUS
<1>1. PICK n \in Nat \ S : \A m \in Nat \ S : n <= m
  BY LeastNumber
<1>2. n # 0 /\ n - 1 \in Nat /\ n - 1 \in S /\ (n - 1) + 1 = n
  BY <1>1
<1> QED
  BY <1>2

\* A set of places of a sequence has a last one.
LEMMA LastPlace ==
  ASSUME NEW n \in Nat, NEW S \in SUBSET (1..n), S # {}
  PROVE  \E x \in S : \A y \in S : y <= x
<1> DEFINE T == {n - x : x \in S}
<1>1. T \in SUBSET Nat /\ T # {}
  <2>1. \A x \in S : n - x \in Nat
    OBVIOUS
  <2> QED
    BY <2>1
<1>2. PICK z \in T : \A y \in T : z <= y
  BY <1>1, LeastNumber, Zenon
<1>3. PICK x \in S : z = n - x
  BY <1>2
<1>4. \A y \in S : n - x <= n - y
  BY <1>2, <1>3
<1> QED
  BY <1>4

-----------------------------------------------------------------------------
(***************************************************************************)
(* Lines: what the watch is sent of a thread is a sequence of them.        *)
(***************************************************************************)
\* A body or the cached sections: some sequence of lines.
IsSeq(s) == \E S : s \in Seq(S)

LEMMA SeqParts ==
  ASSUME NEW s, IsSeq(s), NEW x
  PROVE  IsSeq(Append(s, x)) /\ x \in ToSet(Append(s, x)) /\ ToSet(s) \subseteq ToSet(Append(s, x))
<1>1. PICK S : s \in Seq(S)
  BY DEF IsSeq
<1>2. s \in Seq(S \cup {x})
  BY <1>1, SeqMonotonic
<1> DEFINE u == Append(s, x)
<1>3. /\ u \in Seq(S \cup {x}) /\ Len(s) + 1 \in DOMAIN u /\ u[Len(s) + 1] = x
      /\ DOMAIN s \subseteq DOMAIN u /\ \A i \in DOMAIN s : u[i] = s[i]
  BY <1>2, AppendProperties
<1> HIDE DEF u
<1>4. IsSeq(u)
  BY <1>3, Zenon DEF IsSeq
<1>5. x \in ToSet(u) /\ ToSet(s) \subseteq ToSet(u)
  BY <1>3 DEF ToSet
<1> QED
  BY <1>4, <1>5 DEF u

\* One line, two lines or none.
LEMMA ShortSeqs == IsSeq(<<>>) /\ \A x, y : IsSeq(<<x>>) /\ IsSeq(<<x, y>>)
<1>1. <<>> \in Seq({})
  OBVIOUS
<1>2. ASSUME NEW x, NEW y PROVE <<x>> \in Seq({x, y}) /\ <<x, y>> \in Seq({x, y})
  OBVIOUS
<1>3. IsSeq(<<>>)
  <2> DEFINE u == <<>>
             S == {}
  <2>1. u \in Seq(S)
    BY <1>1
  <2> HIDE DEF u, S
  <2>2. IsSeq(u)
    BY <2>1, Zenon DEF IsSeq
  <2> QED
    BY <2>2 DEF u
<1>4. ASSUME NEW x, NEW y PROVE IsSeq(<<x>>) /\ IsSeq(<<x, y>>)
  <2> DEFINE u == <<x>>
             v == <<x, y>>
             S == {x, y}
  <2>1. u \in Seq(S) /\ v \in Seq(S)
    BY <1>2
  <2> HIDE DEF u, v, S
  <2>2. IsSeq(u) /\ IsSeq(v)
    BY <2>1, Zenon DEF IsSeq
  <2> QED
    BY <2>2 DEF u, v
<1> QED
  BY <1>3, <1>4

\* A line that is added to a body is in it.
LEMMA LineAppended ==
  ASSUME NEW body, IsSeq(body), NEW line
  PROVE  IsSeq(AppendLine(body, line)) /\ line \in ToSet(AppendLine(body, line))
<1>1. line \in ToSet(<<line>>)
  BY DEF ToSet
<1>2. AppendLine(body, line) = <<line>> \/ AppendLine(body, line) = Append(body, line)
  BY Zenon DEF AppendLine
<1> QED
  BY <1>1, <1>2, ShortSeqs, SeqParts

\* What is left when lines are removed is a sequence.
LEMMA WithoutIsSeq ==
  ASSUME NEW lines, IsSeq(lines), NEW line
  PROVE  IsSeq(Without(lines, line))
<1>1. PICK S : lines \in Seq(S)
  BY DEF IsSeq
<1> DEFINE N == Len(lines)
           Step(f, n) == IF n = 0 THEN <<>>
                         ELSE IF lines[n] = line THEN f[n - 1] ELSE Append(f[n - 1], lines[n])
           kept == CHOOSE f : f = [n \in 0..N |-> Step(f, n)]
<1>2. Without(lines, line) = IF line \in ToSet(lines) THEN kept[N] ELSE lines
  BY Zenon DEF Without
<1>3. \E f : f = [n \in 0..N |-> Step(f, n)]
  <2> DEFINE Defined == {m \in Nat : \E f : f = [n \in 0..m |-> Step(f, n)]}
  <2>1. 0 \in Defined
    <3> DEFINE f == [n \in 0..0 |-> <<>>]
    <3>1. f = [n \in 0..0 |-> Step(f, n)]
      OBVIOUS
    <3> QED
      BY <3>1
  <2>2. ASSUME NEW m \in Nat, m \in Defined PROVE m + 1 \in Defined
    <3>1. PICK f : f = [n \in 0..m |-> Step(f, n)]
      BY <2>2
    <3> DEFINE last == IF lines[m + 1] = line THEN f[m] ELSE Append(f[m], lines[m + 1])
               g == [n \in 0..(m + 1) |-> IF n <= m THEN f[n] ELSE last]
    <3>2. \A n \in 0..m : f[n] = Step(f, n)
      <4> HIDE DEF Step
      <4> QED
        BY <3>1
    <3>3. \A n \in 0..(m + 1) : g[n] = Step(g, n)
      BY <3>2
    <3>4. g = [n \in 0..(m + 1) |-> Step(g, n)]
      <4>1. g = [n \in 0..(m + 1) |-> g[n]]
        OBVIOUS
      <4> HIDE DEF g, Step
      <4> QED
        BY <3>3, <4>1
    <3> HIDE DEF g, Step
    <3> QED
      BY <3>4
  <2> HIDE DEF Defined
  <2>3. N \in Defined
    BY <1>1, <2>1, <2>2, EveryNumber
  <2> QED
    BY <2>3 DEF Defined
<1>4. kept = [n \in 0..N |-> Step(kept, n)]
  <2> HIDE DEF Step
  <2> QED
    BY <1>3, Zenon
<1> HIDE DEF kept
<1>5. \A n \in 0..N : kept[n] = Step(kept, n)
  <2> HIDE DEF Step
  <2> QED
    BY <1>4
<1> DEFINE Kept1 == {n \in Nat : n <= N => kept[n] \in Seq(S)}
<1>6. 0 \in Kept1
  <2>1. kept[0] = <<>> /\ <<>> \in Seq(S)
    BY <1>1, <1>5
  <2> QED
    BY <2>1
<1>7. ASSUME NEW n \in Nat, n \in Kept1 PROVE n + 1 \in Kept1
  <2> SUFFICES ASSUME n + 1 <= N PROVE kept[n + 1] \in Seq(S)
    OBVIOUS
  <2>1. kept[n] \in Seq(S) /\ lines[n + 1] \in S
    BY <1>1, <1>7
  <2>2. kept[n + 1] = IF lines[n + 1] = line THEN kept[n] ELSE Append(kept[n], lines[n + 1])
    <3>1. n + 1 \in 0..N /\ n + 1 # 0 /\ (n + 1) - 1 = n
      BY <1>1
    <3> HIDE DEF N
    <3> QED
      BY <1>5, <3>1
  <2> QED
    BY <2>1, <2>2, AppendProperties
<1> HIDE DEF Kept1
<1>8. N \in Kept1 /\ N \in Nat
  BY <1>1, <1>6, <1>7, EveryNumber
<1>9. kept[N] \in Seq(S)
  BY <1>8 DEF Kept1
<1> QED
  BY <1>1, <1>2, <1>9, Zenon DEF IsSeq

\* What a turn is made of.
LEMMA TurnParts ==
  ASSUME NEW items \in Seq(Texts \cup Answers),
         NEW status \in {"inProgress", "completed", "interrupted", "failed"}
  PROVE  /\ [items |-> items, status |-> status] \in Turn
         /\ \A turn \in Turn :
              /\ turn.items \in Seq(Texts \cup Answers)
              /\ [turn EXCEPT !.items = items] \in Turn
              /\ [turn EXCEPT !.items = items].items = items
              /\ [turn EXCEPT !.items = turn.items] = turn
              /\ [turn EXCEPT !.status = status] \in Turn
              /\ [turn EXCEPT !.status = status].items = turn.items
<1> DEFINE Line1 == Seq(Texts \cup Answers)
           Status == {"inProgress", "completed", "interrupted", "failed"}
<1>1. Turn = [items : Line1, status : Status] /\ items \in Line1 /\ status \in Status
  BY DEF Turn
<1> HIDE DEF Line1, Status
<1>2. [items |-> items, status |-> status] \in Turn
  BY <1>1
<1>3. ASSUME NEW turn \in Turn
      PROVE  /\ turn.items \in Line1
             /\ [turn EXCEPT !.items = items] \in Turn
             /\ [turn EXCEPT !.items = items].items = items
             /\ [turn EXCEPT !.items = turn.items] = turn
             /\ [turn EXCEPT !.status = status] \in Turn
             /\ [turn EXCEPT !.status = status].items = turn.items
  BY <1>1
<1> QED
  BY <1>2, <1>3 DEF Line1

\* threadSections goes through the turns one by one,
UpTo(turns, f) ==
  f = [n \in 0..Len(turns) |-> IF n = 0 THEN <<>> ELSE f[n - 1] \o turns[n].items]

\* so the lines up to each turn are defined,
LEMMA LinesExist ==
  ASSUME NEW turns \in Seq(Turn)
  PROVE  \E f : UpTo(turns, f)
<1> DEFINE P(m, f) == f = [n \in 0..m |-> IF n = 0 THEN <<>> ELSE f[n - 1] \o turns[n].items]
           S == {m \in Nat : \E f : P(m, f)}
<1>1. 0 \in S
  <2> DEFINE f == [n \in 0..0 |-> <<>>]
  <2>1. P(0, f)
    OBVIOUS
  <2> QED
    BY <2>1
<1>2. ASSUME NEW m \in Nat, m \in S PROVE m + 1 \in S
  <2>1. PICK f : P(m, f)
    BY <1>2
  <2> DEFINE g == [n \in 0..(m + 1) |-> IF n <= m THEN f[n] ELSE f[m] \o turns[m + 1].items]
  <2>2. \A n \in 0..m : f[n] = IF n = 0 THEN <<>> ELSE f[n - 1] \o turns[n].items
    BY <2>1
  <2>3. \A n \in 0..(m + 1) : g[n] = IF n = 0 THEN <<>> ELSE g[n - 1] \o turns[n].items
    BY <2>2
  <2>4. P(m + 1, g)
    <3>1. g = [n \in 0..(m + 1) |-> g[n]]
      OBVIOUS
    <3> HIDE DEF g
    <3> QED
      BY <2>3, <3>1
  <2> HIDE DEF g, P
  <2> QED
    BY <2>4
<1> HIDE DEF S
<1>3. Nat \subseteq S
  BY <1>1, <1>2, EveryNumber
<1>4. Len(turns) \in S
  BY <1>3
<1> QED
  BY <1>4 DEF S, UpTo

\* and what a turn says is a line of the thread.
LEMMA SectionsSayItems ==
  ASSUME NEW turns \in Seq(Turn)
  PROVE  /\ ThreadSections(turns) \in Seq(Line)
         /\ \A x : UserText(turns, x) => x \in ToSet(ThreadSections(turns))
<1> DEFINE lines == CHOOSE f : f = [n \in 0..Len(turns) |->
                                      IF n = 0 THEN <<>> ELSE f[n - 1] \o turns[n].items]
<1>1. ThreadSections(turns) = IF lines[Len(turns)] = <<>> THEN <<Empty>> ELSE lines[Len(turns)]
  BY Zenon DEF ThreadSections
<1>2. UpTo(turns, lines)
  BY LinesExist, Zenon DEF UpTo
<1> HIDE DEF lines
<1> DEFINE N == Len(turns)
           Lines == Seq(Texts \cup Answers)
           Said(n) == \A i \in 1..n : \A j \in DOMAIN turns[i].items :
                        \E k \in DOMAIN lines[n] : lines[n][k] = turns[i].items[j]
           S == {n \in Nat : n <= N => lines[n] \in Lines /\ Said(n)}
<1>3. N \in Nat /\ DOMAIN turns = 1..N /\ \A i \in 1..N : turns[i].items \in Lines
  <2>1. \A turn \in Turn : turn.items \in Lines
    BY DEF Turn
  <2> QED
    BY <2>1
<1>4. lines[0] = <<>> /\ \A n \in 1..N : lines[n] = lines[n - 1] \o turns[n].items
  <2>1. \A n \in 0..N : lines[n] = IF n = 0 THEN <<>> ELSE lines[n - 1] \o turns[n].items
    <3> DEFINE Line1(f, n) == IF n = 0 THEN <<>> ELSE f[n - 1] \o turns[n].items
    <3>1. lines = [n \in 0..N |-> Line1(lines, n)]
      BY <1>2 DEF UpTo
    <3> HIDE DEF Line1
    <3>2. \A n \in 0..N : lines[n] = Line1(lines, n)
      BY <3>1
    <3> QED
      BY <3>2 DEF Line1
  <2>2. 0 \in 0..N /\ \A n \in 1..N : n \in 0..N /\ n # 0
    BY <1>3
  <2> HIDE DEF N
  <2> QED
    BY <2>1, <2>2, Zenon
<1>5. 0 \in S
  <2>1. <<>> \in Lines /\ 1..0 = {}
    OBVIOUS
  <2>2. lines[0] \in Lines
    BY <1>4, <2>1, Zenon
  <2>3. Said(0)
    BY <2>1
  <2> HIDE DEF Lines, Said
  <2> QED
    BY <2>2, <2>3
<1>6. ASSUME NEW n \in Nat, n \in S PROVE n + 1 \in S
  <2> SUFFICES ASSUME n + 1 <= N PROVE lines[n + 1] \in Lines /\ Said(n + 1)
    OBVIOUS
  <2> DEFINE was == lines[n]
             new == turns[n + 1].items
  <2>1. was \in Lines /\ Said(n) /\ n + 1 \in 1..N
    BY <1>3, <1>6
  <2>2. new \in Lines /\ lines[n + 1] = was \o new
    <3>1. (n + 1) - 1 = n
      OBVIOUS
    <3>2. lines[n + 1] = lines[(n + 1) - 1] \o turns[n + 1].items
      BY <1>4, <2>1, Zenon
    <3> QED
      BY <1>3, <2>1, <3>1, <3>2
  <2>3. /\ was \o new \in Lines
        /\ \A k \in DOMAIN was : k \in DOMAIN (was \o new) /\ (was \o new)[k] = was[k]
        /\ \A k \in DOMAIN new : Len(was) + k \in DOMAIN (was \o new) /\ (was \o new)[Len(was) + k] = new[k]
    <3> HIDE DEF was, new
    <3> QED
      BY <2>1, <2>2, ConcatProperties
  <2>4. Said(n + 1)
    <3> SUFFICES ASSUME NEW i \in 1..(n + 1), NEW j \in DOMAIN turns[i].items
                 PROVE  \E k \in DOMAIN lines[n + 1] : lines[n + 1][k] = turns[i].items[j]
      OBVIOUS
    <3>1. CASE i = n + 1
      BY <3>1, <2>2, <2>3
    <3>2. CASE i # n + 1
      <4>1. i \in 1..n
        BY <3>2
      <4>2. PICK k \in DOMAIN was : was[k] = turns[i].items[j]
        BY <4>1, <2>1
      <4> QED
        BY <4>2, <2>2, <2>3
    <3> QED
      BY <3>1, <3>2
  <2> QED
    BY <2>2, <2>3, <2>4
<1> HIDE DEF S
<1>7. N \in S
  BY <1>3, <1>5, <1>6, EveryNumber
<1>8. lines[N] \in Lines /\ Said(N)
  BY <1>3, <1>7 DEF S
<1>9. ThreadSections(turns) \in Seq(Line)
  <2>1. Texts \cup Answers \subseteq Line /\ Empty \in Line
    BY DEF Line
  <2>2. lines[N] \in Seq(Line)
    BY <1>8, <2>1, SeqMonotonic
  <2>3. <<Empty>> \in Seq(Line)
    BY <2>1
  <2> QED
    BY <1>1, <2>2, <2>3, Zenon
<1>10. ASSUME NEW x, UserText(turns, x) PROVE x \in ToSet(ThreadSections(turns))
  <2>1. PICK k \in DOMAIN lines[N] : lines[N][k] = x
    BY <1>3, <1>8, <1>10 DEF UserText
  <2> QED
    BY <1>1, <2>1 DEF ToSet
<1> QED
  BY <1>9, <1>10

\* So are the sections that are cached, and they have the reply that is pending.
LEMMA SectionsHaveReply ==
  ASSUME NEW p, NEW t, NEW turns \in Seq(Turn)
  PROVE  /\ IsSeq(DetailSections(p, t, turns))
         /\ p.pending[t] # NoLine => p.pending[t] \in ToSet(DetailSections(p, t, turns))
<1> DEFINE x == p.pending[t]
           sections == ThreadSections(turns)
           all == DetailSections(p, t, turns)
<1>1. /\ x # NoLine => all = IF ~UserText(turns, x) THEN <<x, Working>>
                            ELSE IF ~ThreadHasReplyResult(turns, x) THEN Append(sections, Working)
                            ELSE sections
      /\ x = NoLine => all = IF LatestInProgressTurn(turns) # 0 THEN Append(sections, Working)
                            ELSE sections
  BY Zenon DEF DetailSections
<1>2. IsSeq(sections) /\ (UserText(turns, x) => x \in ToSet(sections))
  BY SectionsSayItems, Zenon DEF IsSeq
<1> HIDE DEF x, sections, all
<1>3. /\ IsSeq(Append(sections, Working)) /\ IsSeq(<<x, Working>>)
      /\ ToSet(sections) \subseteq ToSet(Append(sections, Working))
  BY <1>2, SeqParts, ShortSeqs
<1>4. x \in ToSet(<<x, Working>>)
  BY DEF ToSet
<1> QED
  BY <1>1, <1>2, <1>3, <1>4 DEF x, all

-----------------------------------------------------------------------------
(***************************************************************************)
(* The phone's memory is a record of tables with an entry for each thread. *)
(***************************************************************************)
Fields == {"active", "order", "cache", "pending", "progress", "queued", "body",
           "texts", "shown"}

\* A sequence in which nothing comes twice.
Distinct(s) == \A i, j \in DOMAIN s : s[i] = s[j] => i = j

Shaped(p) ==
  /\ DOMAIN p = Fields
  /\ p.order \in Seq(Threads) /\ Distinct(p.order)
  /\ DOMAIN p.cache = Threads /\ DOMAIN p.pending = Threads
  /\ DOMAIN p.progress = Threads /\ DOMAIN p.queued = Threads
  /\ DOMAIN p.body = Threads
  /\ \A t \in Threads :
       /\ DOMAIN p.cache[t] = {"sections", "known", "turn"}
       /\ IsSeq(p.cache[t].sections) /\ IsSeq(p.body[t])

\* Nothing is kept of thread t but what the active thread needs.
Forgotten(p, t) ==
  /\ p.cache[t] = NotCached /\ p.pending[t] = NoLine
  /\ p.progress[t] = NoLine /\ p.body[t] = <<>>
  /\ t # p.active => p.queued[t] = NoLine /\ t \notin p.texts

\* The memory keeps nothing of the threads it does not list, but perhaps of
\* thread u; a is the active thread.
KeptBut(p, u, a) ==
  /\ Shaped(p) /\ p.active = a /\ Len(p.order) <= CacheLimit
  /\ \A t \in Threads \ {u} : t \notin ToSet(p.order) => Forgotten(p, t)

Kept(p, a) ==
  /\ Shaped(p) /\ p.active = a /\ Len(p.order) <= CacheLimit
  /\ \A t \in Threads : t \notin ToSet(p.order) => Forgotten(p, t)

\* Thread u is listed.
KeptWith(p, u, a) == Kept(p, a) /\ u \in ToSet(p.order)

\* Memory q is memory p but for what it keeps of thread u.
SameBut(p, q, u) ==
  /\ Shaped(q) /\ q.active = p.active /\ q.order = p.order
  /\ \A t \in Threads \ {u} :
       /\ q.cache[t] = p.cache[t] /\ q.pending[t] = p.pending[t]
       /\ q.progress[t] = p.progress[t] /\ q.body[t] = p.body[t]
       /\ q.queued[t] = p.queued[t] /\ (t \in q.texts <=> t \in p.texts)

\* What the three predicates have in common.
LEMMA KeptParts ==
  ASSUME NEW p, NEW u \in Threads, NEW a
  PROVE  /\ Kept(p, a) => KeptBut(p, u, a)
         /\ KeptBut(p, u, a) /\ u \in ToSet(p.order) => KeptWith(p, u, a)
         /\ KeptBut(p, u, a) /\ Forgotten(p, u) => Kept(p, a)
         /\ KeptWith(p, u, a) => Kept(p, a) /\ KeptBut(p, u, a) /\ u \in ToSet(p.order)
         /\ Kept(p, a) => Shaped(p) /\ p.active = a
         /\ KeptBut(p, u, a) => Shaped(p) /\ p.active = a
  BY Zenon DEF Kept, KeptBut, KeptWith

\* A change of what is kept of thread u leaves the other threads as they were.
LEMMA SameKept ==
  ASSUME NEW p, NEW q, NEW u \in Threads, NEW a, SameBut(p, q, u)
  PROVE  /\ KeptBut(p, u, a) => KeptBut(q, u, a)
         /\ KeptWith(p, u, a) => KeptWith(q, u, a)
<1>1. KeptBut(p, u, a) => KeptBut(q, u, a)
  BY Zenon DEF KeptBut, SameBut, Forgotten
<1>2. KeptWith(p, u, a) => KeptWith(q, u, a)
  BY <1>1, KeptParts, Zenon DEF SameBut
<1> QED
  BY <1>1, <1>2

-----------------------------------------------------------------------------
(***************************************************************************)
(* The list of threads.                                                    *)
(***************************************************************************)
LEMMA IsListed ==
  ASSUME NEW s, NEW j \in DOMAIN s
  PROVE  s[j] \in ToSet(s)
  BY DEF ToSet

\* A thread that is moved to the end is the last one; none is lost, and none
\* comes twice.
LEMMA MovedToEndProperties ==
  ASSUME NEW order \in Seq(Threads), Distinct(order), NEW t \in Threads
  PROVE  LET m == MovedToEnd(order, t)
         IN  /\ m \in Seq(Threads) /\ Len(m) >= 1 /\ m[Len(m)] = t
             /\ Len(m) <= Len(order) + 1
             /\ ToSet(order) \subseteq ToSet(m) /\ ToSet(m) \subseteq ToSet(order) \cup {t}
             /\ Distinct(m)
<1> DEFINE m == MovedToEnd(order, t)
<1>1. CASE t \notin ToSet(order)
  <2>1. m = Append(order, t)
    BY <1>1 DEF MovedToEnd
  <2> HIDE DEF m
  <2>2. /\ m \in Seq(Threads) /\ Len(m) = Len(order) + 1 /\ m[Len(order) + 1] = t
        /\ \A j \in 1..Len(order) : m[j] = order[j]
    BY <2>1, AppendProperties
  <2>3. ToSet(order) \subseteq ToSet(m) /\ ToSet(m) \subseteq ToSet(order) \cup {t}
    BY <2>2 DEF ToSet
  <2>4. Distinct(m)
    BY <1>1, <2>2 DEF Distinct, ToSet
  <2> QED
    BY <2>2, <2>3, <2>4 DEF m
<1>2. CASE t \in ToSet(order)
  <2> DEFINE i == CHOOSE j \in DOMAIN order : order[j] = t
             x == SubSeq(order, 1, i - 1)
             y == SubSeq(order, i + 1, Len(order))
  <2>1. i \in 1..Len(order) /\ order[i] = t
    BY <1>2 DEF ToSet
  <2>2. m = Append(x \o y, t)
    BY <1>2 DEF MovedToEnd, RemoveAt
  <2> HIDE DEF i, m
  <2>3. x \in Seq(Threads) /\ Len(x) = i - 1 /\ \A j \in 1..(i - 1) : x[j] = order[j]
    BY <2>1, SubSeqProperties
  <2>4. /\ y \in Seq(Threads) /\ Len(y) = Len(order) - i
        /\ \A j \in 1..(Len(order) - i) : y[j] = order[i + j]
    BY <2>1, SubSeqProperties
  <2> HIDE DEF x, y
  <2>5. /\ x \o y \in Seq(Threads) /\ Len(x \o y) = Len(order) - 1
        /\ \A j \in 1..(i - 1) : (x \o y)[j] = order[j]
    <3>1. x \o y \in Seq(Threads) /\ Len(x \o y) = Len(x) + Len(y)
      BY <2>3, <2>4, ConcatProperties
    <3>2. ASSUME NEW j \in 1..(i - 1) PROVE (x \o y)[j] = order[j]
      <4>1. (x \o y)[j] = x[j]
        BY <2>1, <2>3, <2>4, ConcatProperties
      <4> QED
        BY <4>1, <2>3
    <3> QED
      BY <3>1, <3>2, <2>1, <2>3, <2>4
  <2>6. \A j \in (i + 1)..Len(order) : (x \o y)[j - 1] = order[j]
    <3> SUFFICES ASSUME NEW j \in (i + 1)..Len(order) PROVE (x \o y)[j - 1] = order[j]
      OBVIOUS
    <3>1. j - i \in 1..(Len(order) - i) /\ i + (j - i) = j
      BY <2>1
    <3>2. (x \o y)[j - 1] = y[j - i]
      BY <2>1, <2>3, <2>4, ConcatProperties
    <3> QED
      BY <3>1, <3>2, <2>4
  <2> DEFINE z == x \o y
  <2>7. z \in Seq(Threads) /\ Len(z) = Len(order) - 1
    BY <2>5
  <2>8. \A u \in ToSet(order) : u = t \/ \E j \in 1..Len(z) : z[j] = u
    <3> SUFFICES ASSUME NEW j \in 1..Len(order), order[j] # t
                 PROVE  \E k \in 1..Len(z) : z[k] = order[j]
      BY DEF ToSet
    <3>1. CASE j < i
      BY <3>1, <2>1, <2>5, <2>7
    <3>2. CASE j > i
      <4>1. j - 1 \in 1..Len(z) /\ z[j - 1] = order[j]
        BY <3>2, <2>1, <2>6, <2>7
      <4> QED
        BY <4>1
    <3> QED
      BY <3>1, <3>2, <2>1
  <2> HIDE DEF z
  <2>9. m = Append(z, t)
    BY <2>2 DEF z
  <2>10. /\ m \in Seq(Threads) /\ Len(m) = Len(order) /\ m[Len(order)] = t
         /\ \A j \in 1..Len(z) : m[j] = z[j]
    BY <2>7, <2>9, AppendProperties
  <2>11. ToSet(order) \subseteq ToSet(m)
    <3>1. \A j \in 1..Len(m) : m[j] \in ToSet(m)
      BY <2>10 DEF ToSet
    <3> QED
      BY <2>1, <2>7, <2>8, <2>10, <3>1
  <2>12. \A j \in 1..Len(z) : z[j] = order[IF j < i THEN j ELSE j + 1]
    <3> SUFFICES ASSUME NEW j \in 1..Len(z) PROVE z[j] = order[IF j < i THEN j ELSE j + 1]
      OBVIOUS
    <3>1. CASE j < i
      BY <3>1, <2>1, <2>5, <2>7 DEF z
    <3>2. CASE ~(j < i)
      <4>1. j + 1 \in (i + 1)..Len(order) /\ (j + 1) - 1 = j
        BY <3>2, <2>1, <2>7
      <4>2. z[(j + 1) - 1] = order[j + 1]
        BY <4>1, <2>6 DEF z
      <4> QED
        BY <3>2, <4>1, <4>2
    <3> QED
      BY <3>1, <3>2
  <2>13. Distinct(m) /\ ToSet(m) \subseteq ToSet(order) \cup {t}
    <3> DEFINE k(j) == IF j < i THEN j ELSE j + 1
    <3>1. /\ \A j \in 1..Len(z) : k(j) \in DOMAIN order /\ k(j) # i
          /\ \A j, l \in 1..Len(z) : k(j) = k(l) => j = l
      BY <2>1, <2>7
    <3>2. \A j \in 1..Len(z) : m[j] = order[k(j)]
      BY <2>10, <2>12
    <3>3. DOMAIN m = 1..(Len(z) + 1) /\ m[Len(z) + 1] = order[i] /\ i \in DOMAIN order
      BY <2>1, <2>7, <2>10
    <3> HIDE DEF k
    <3>4. Distinct(m)
      <4> SUFFICES ASSUME NEW j \in DOMAIN m, NEW l \in DOMAIN m, m[j] = m[l] PROVE j = l
        BY DEF Distinct
      <4>1. CASE j \in 1..Len(z) /\ l \in 1..Len(z)
        BY <4>1, <3>1, <3>2 DEF Distinct
      <4>2. CASE j \in 1..Len(z) /\ l \notin 1..Len(z)
        BY <4>2, <3>1, <3>2, <3>3, <2>7 DEF Distinct
      <4>3. CASE j \notin 1..Len(z) /\ l \in 1..Len(z)
        BY <4>3, <3>1, <3>2, <3>3, <2>7 DEF Distinct
      <4>4. CASE j \notin 1..Len(z) /\ l \notin 1..Len(z)
        BY <4>4, <3>3, <2>7
      <4> QED
        BY <4>1, <4>2, <4>3, <4>4
    <3>5. ToSet(m) \subseteq ToSet(order) \cup {t}
      <4>1. \A j \in DOMAIN order : order[j] \in ToSet(order)
        BY IsListed
      <4>2. \A j \in DOMAIN m : m[j] \in ToSet(order)
        BY <4>1, <3>1, <3>2, <3>3, <2>7
      <4> QED
        BY <4>2 DEF ToSet
    <3> QED
      BY <3>4, <3>5
  <2> QED
    BY <2>1, <2>10, <2>11, <2>13 DEF m
<1> QED
  BY <1>1, <1>2

-----------------------------------------------------------------------------
(***************************************************************************)
(* What the phone's operators do to what is kept.                          *)
(***************************************************************************)

\* What is left of a thread that is pruned is nothing.
LEMMA PrunedThread ==
  ASSUME NEW p, Shaped(p), NEW t \in Threads
  PROVE  SameBut(p, PruneDetailThread(p, t), t) /\ Forgotten(PruneDetailThread(p, t), t)
<1>1. SameBut(p, PruneDetailThread(p, t), t)
  BY ShortSeqs DEF SameBut, PruneDetailThread, Shaped, Fields, NotCached
<1>2. Forgotten(PruneDetailThread(p, t), t)
  BY DEF Forgotten, PruneDetailThread, Shaped, Fields
<1> QED
  BY <1>1, <1>2

\* Another list of threads changes nothing else.
LEMMA Relisted ==
  ASSUME NEW p, Shaped(p), NEW order \in Seq(Threads), Distinct(order)
  PROVE  LET q == [p EXCEPT !.order = order]
         IN  /\ Shaped(q) /\ q.active = p.active /\ q.order = order
             /\ \A t \in Threads : Forgotten(p, t) => Forgotten(q, t)
  BY DEF Shaped, Fields, Forgotten

\* A thread that is remembered is listed; who is not listed any more is pruned.
LEMMA Remembered ==
  ASSUME NEW p, NEW t \in Threads, NEW a, KeptBut(p, t, a)
  PROVE  KeptWith(RememberDetailThread(p, t), t, a)
<1> DEFINE m == MovedToEnd(p.order, t)
<1>0. Shaped(p) /\ p.order \in Seq(Threads) /\ Distinct(p.order)
      /\ Len(p.order) <= CacheLimit /\ p.active = a
      /\ CacheLimit \in Nat \ {0}
  BY CacheLimitAssumption, Zenon DEF KeptBut, Shaped
<1>1. /\ m \in Seq(Threads) /\ Len(m) >= 1 /\ m[Len(m)] = t
      /\ Len(m) <= Len(p.order) + 1 /\ ToSet(p.order) \subseteq ToSet(m) /\ Distinct(m)
  BY <1>0, MovedToEndProperties, Zenon
<1>2. \A u \in Threads \ {t} : u \notin ToSet(m) => Forgotten(p, u)
  BY <1>1, Zenon DEF KeptBut
<1> HIDE DEF m
<1>3. CASE Len(m) <= CacheLimit
  <2> DEFINE q == [p EXCEPT !.order = m]
  <2>1. /\ Shaped(q) /\ q.active = p.active /\ q.order = m
        /\ \A u \in Threads : Forgotten(p, u) => Forgotten(q, u)
    BY <1>0, <1>1, Relisted, Zenon
  <2>2. RememberDetailThread(p, t) = q
    BY <1>3, Zenon DEF RememberDetailThread, m
  <2> HIDE DEF q
  <2>3. t \in ToSet(m)
    BY <1>1 DEF ToSet
  <2>4. \A u \in Threads : u \notin ToSet(m) => Forgotten(q, u)
    BY <1>2, <2>1, <2>3, Zenon
  <2> QED
    BY <1>0, <1>3, <2>1, <2>2, <2>3, <2>4, Zenon DEF KeptWith, Kept
<1>4. CASE ~(Len(m) <= CacheLimit)
  <2> DEFINE h == Head(m)
  <2>1. /\ Len(m) >= 2 /\ Len(m) - 1 <= CacheLimit /\ m # <<>>
    BY <1>0, <1>1, <1>4
  <2>2. /\ h \in Threads /\ h = m[1] /\ Tail(m) \in Seq(Threads)
        /\ Len(Tail(m)) = Len(m) - 1
        /\ \A j \in 1..Len(Tail(m)) : Tail(m)[j] = m[j + 1]
    BY <1>1, <2>1, HeadTailProperties
  <2>9. Distinct(Tail(m))
    BY <1>1, <2>1, <2>2 DEF Distinct
  <2>3. t \in ToSet(Tail(m))
    <3>1. Len(m) - 1 \in DOMAIN Tail(m) /\ Tail(m)[Len(m) - 1] = t
      BY <1>1, <2>1, <2>2
    <3> QED
      BY <3>1, IsListed
  <2>4. \A u \in ToSet(m) : u = h \/ u \in ToSet(Tail(m))
    <3> SUFFICES ASSUME NEW j \in 1..Len(m), m[j] # h PROVE m[j] \in ToSet(Tail(m))
      BY DEF ToSet
    <3>1. j - 1 \in DOMAIN Tail(m) /\ Tail(m)[j - 1] = m[j]
      BY <2>1, <2>2
    <3> QED
      BY <3>1, IsListed
  <2>5. PICK r : /\ Shaped(r) /\ r.active = a
                 /\ RememberDetailThread(p, t) = [r EXCEPT !.order = Tail(m)]
                 /\ \A u \in Threads : u \notin ToSet(Tail(m)) => Forgotten(r, u)
    <3>1. CASE h = t
      <4>1. RememberDetailThread(p, t) = [p EXCEPT !.order = Tail(m)]
        BY <3>1, <1>4, Zenon DEF RememberDetailThread, m
      <4>2. \A u \in Threads : u \notin ToSet(Tail(m)) => Forgotten(p, u)
        BY <3>1, <1>2, <2>3, <2>4, Zenon
      <4> QED
        BY <4>1, <4>2, <1>0, Zenon
    <3>2. CASE h # t
      <4> DEFINE r == PruneDetailThread(p, h)
      <4>1. RememberDetailThread(p, t) = [r EXCEPT !.order = Tail(m)]
        BY <3>2, <1>4, Zenon DEF RememberDetailThread, m
      <4>2. SameBut(p, r, h) /\ Forgotten(r, h)
        BY <1>0, <2>2, PrunedThread, Zenon
      <4> HIDE DEF r, h
      <4>3. Shaped(r) /\ r.active = a
        BY <4>2, <1>0, Zenon DEF SameBut
      <4>4. \A u \in Threads \ {h} : Forgotten(p, u) => Forgotten(r, u)
        BY <4>2, Zenon DEF SameBut, Forgotten
      <4>5. \A u \in Threads : u \notin ToSet(Tail(m)) => Forgotten(r, u)
        BY <4>2, <4>4, <1>2, <2>3, <2>4, Zenon
      <4> QED
        BY <4>1, <4>3, <4>5, Zenon
    <3> QED
      BY <3>1, <3>2
  <2> DEFINE q == [r EXCEPT !.order = Tail(m)]
  <2>6. /\ Shaped(q) /\ q.active = r.active /\ q.order = Tail(m)
        /\ \A u \in Threads : Forgotten(r, u) => Forgotten(q, u)
    BY <2>2, <2>5, <2>9, Relisted, Zenon
  <2>7. RememberDetailThread(p, t) = q
    BY <2>5
  <2> HIDE DEF q
  <2>8. Len(Tail(m)) <= CacheLimit
    BY <2>1, <2>2
  <2> QED
    BY <2>3, <2>5, <2>6, <2>7, <2>8, Zenon DEF KeptWith, Kept
<1> QED
  BY <1>3, <1>4

\* Everything that is shown or cached of a thread remembers it first.
LEMMA Cached ==
  ASSUME NEW p, NEW t \in Threads, NEW a, KeptBut(p, t, a), NEW turns \in Seq(Turn)
  PROVE  KeptWith(CacheThreadDetail(p, t, turns), t, a)
<1> DEFINE r == RememberDetailThread(p, t)
           q == CacheThreadDetail(p, t, turns)
<1>1. KeptWith(r, t, a) /\ Shaped(r)
  BY Remembered, KeptParts
<1>2. SameBut(r, q, t)
  <2> HIDE DEF r
  <2> DEFINE entry == [sections |-> DetailSections(p, t, turns), known |-> TRUE,
                       turn |-> LatestInProgressTurn(turns)]
  <2>1. q = [r EXCEPT !.cache[t] = entry]
    BY Zenon DEF CacheThreadDetail, r
  <2>2. DOMAIN entry = {"sections", "known", "turn"} /\ IsSeq(entry.sections)
    BY SectionsHaveReply
  <2> HIDE DEF q, entry
  <2> QED
    BY <1>1, <2>1, <2>2 DEF SameBut, Shaped, Fields
<1> QED
  BY <1>1, <1>2, SameKept

\* sendDetailBody keeps only what is listed.
LEMMA BodySent ==
  ASSUME NEW p, NEW t \in Threads, NEW a, KeptBut(p, t, a), NEW body, IsSeq(body)
  PROVE  KeptWith(SendDetailBody(p, t, body), t, a)
<1> DEFINE r == RememberDetailThread(p, t)
           q == SendDetailBody(p, t, body)
<1>1. KeptWith(r, t, a) /\ Shaped(r)
  BY Remembered, KeptParts
<1>2. SameBut(r, q, t)
  <2> HIDE DEF r
  <2>1. q = [r EXCEPT !.body[t] = body, !.shown = [thread |-> t, body |-> body]]
    BY Zenon DEF SendDetailBody, r
  <2> HIDE DEF q
  <2> QED
    BY <1>1, <2>1 DEF SameBut, Shaped, Fields
<1> QED
  BY <1>1, <1>2, SameKept

\* So does sendDetailPage, whether or not it has to cache the thread first,
LEMMA PageSent ==
  ASSUME NEW p, NEW t \in Threads, NEW a, KeptBut(p, t, a)
  PROVE  KeptWith(SendDetailPage(p, t), t, a)
<1> DEFINE q == IF p.cache[t].sections = <<>> THEN CacheThreadDetail(p, t, <<>>) ELSE p
<1>1. KeptBut(q, t, a) /\ IsSeq(q.cache[t].sections)
  <2>1. <<>> \in Seq(Turn)
    OBVIOUS
  <2>2. KeptBut(q, t, a)
    BY <2>1, Cached, KeptParts
  <2> HIDE DEF q
  <2> QED
    BY <2>2, KeptParts DEF Shaped
<1> QED
  BY <1>1, BodySent DEF SendDetailPage

\* and forgetting the pending reply of a listed thread,
LEMMA Reconciled ==
  ASSUME NEW p, NEW t \in Threads, NEW a, KeptWith(p, t, a), NEW turns
  PROVE  KeptWith(ReconcilePendingReply(p, t, turns), t, a)
<1> DEFINE q == [p EXCEPT !.pending[t] = NoLine]
<1>1. SameBut(p, q, t)
  <2>1. Shaped(p)
    BY KeptParts
  <2> QED
    BY <2>1 DEF SameBut, Shaped, Fields
<1>2. KeptWith(q, t, a)
  BY <1>1, SameKept
<1> QED
  BY <1>2 DEF ReconcilePendingReply

\* and the two updates that are built from these.
LEMMA UpdateSent ==
  ASSUME NEW p, NEW t \in Threads, NEW a, KeptBut(p, t, a), NEW turns \in Seq(Turn)
  PROVE  /\ KeptWith(SendDetailUpdate(p, t, turns), t, a)
         /\ KeptWith(SendDetailUpdateIfChanged(p, t, turns), t, a)
<1>1. KeptWith(SendDetailUpdate(p, t, turns), t, a)
  BY Cached, PageSent, Reconciled, KeptParts DEF SendDetailUpdate
<1>2. KeptWith(SendDetailUpdateIfChanged(p, t, turns), t, a)
  <2> DEFINE r == CacheThreadDetail(p, t, turns)
             q == ReconcilePendingReply(r, t, turns)
  <2>1. SendDetailUpdateIfChanged(p, t, turns) \in {q, SendDetailPage(q, t)}
    BY Zenon DEF SendDetailUpdateIfChanged
  <2>2. KeptWith(r, t, a)
    BY Cached
  <2> HIDE DEF r
  <2>3. KeptWith(q, t, a)
    BY <2>2, Reconciled
  <2> HIDE DEF q
  <2>4. KeptBut(q, t, a)
    BY <2>3, KeptParts
  <2>5. KeptWith(SendDetailPage(q, t), t, a)
    BY <2>4, PageSent
  <2> QED
    BY <2>1, <2>3, <2>5
<1> QED
  BY <1>1, <1>2

-----------------------------------------------------------------------------
(***************************************************************************)
(* Live progress.  It reaches the active thread, of which a queued line    *)
(* may be kept before anything is shown.                                   *)
(***************************************************************************)
LEMMA ProgressCleared ==
  ASSUME NEW p, NEW t \in Threads, NEW a, KeptBut(p, t, a)
  PROVE  /\ KeptBut(ClearLiveProgress(p, t), t, a)
         /\ Kept(p, a) => Kept(ClearLiveProgress(p, t), a)
<1> DEFINE q == ClearLiveProgress(p, t)
<1>1. Shaped(p)
  BY KeptParts
<1>2. SameBut(p, q, t)
  BY <1>1, WithoutIsSeq DEF SameBut, Shaped, Fields, ClearLiveProgress
<1>3. KeptBut(q, t, a)
  BY <1>2, SameKept
<1>4. Forgotten(p, t) => Forgotten(q, t)
  <2> SUFFICES ASSUME Forgotten(p, t) PROVE Forgotten(q, t)
    OBVIOUS
  <2>1. Without(<<>>, p.progress[t]) = <<>>
    BY DEF Without, ToSet
  <2>2. /\ q.body[t] = <<>> /\ q.progress[t] = NoLine /\ q.pending[t] = p.pending[t]
        /\ q.queued[t] = p.queued[t] /\ q.texts = p.texts /\ q.active = p.active
        /\ q.cache[t] = [NotCached EXCEPT !.sections = Without(@, p.progress[t])]
    BY <1>1, <2>1 DEF ClearLiveProgress, Shaped, Fields, Forgotten
  <2>3. q.cache[t] = NotCached
    BY <2>1, <2>2 DEF NotCached
  <2> QED
    BY <2>2, <2>3 DEF Forgotten
<1>5. Kept(p, a) => Kept(q, a)
  <2>1. q.order = p.order
    BY <1>2 DEF SameBut
  <2> QED
    BY <1>3, <1>4, <2>1, KeptParts DEF Kept
<1> QED
  BY <1>3, <1>5

\* sendLiveProgress lists its thread in each of its three cases.
LEMMA ProgressSent ==
  ASSUME NEW p, NEW t \in Threads, NEW a, KeptBut(p, t, a), NEW line
  PROVE  KeptWith(SendLiveProgress(p, t, line), t, a)
<1>0. Shaped(p)
  BY KeptParts
<1>1. CASE p.pending[t] # NoLine
  <2> DEFINE q == [p EXCEPT !.progress[t] = line]
  <2>1. SameBut(p, q, t) /\ IsSeq(<<p.pending[t], line>>)
    BY <1>0, ShortSeqs DEF SameBut, Shaped, Fields
  <2>2. KeptBut(q, t, a)
    BY <2>1, SameKept
  <2>3. SendLiveProgress(p, t, line) = SendDetailBody(q, t, <<p.pending[t], line>>)
    BY <1>1, Zenon DEF SendLiveProgress
  <2> QED
    BY <2>1, <2>2, <2>3, BodySent
<1>2. CASE p.pending[t] = NoLine /\ p.cache[t].known
  <2> DEFINE new == Append(Without(p.cache[t].sections, p.progress[t]), line)
             q == [p EXCEPT !.cache[t].sections = new, !.progress[t] = line]
  <2>1. IsSeq(new)
    BY <1>0, WithoutIsSeq, SeqParts DEF Shaped
  <2>2. SendLiveProgress(p, t, line) = SendDetailPage(q, t)
    BY <1>2, Zenon DEF SendLiveProgress
  <2> HIDE DEF new
  <2>3. SameBut(p, q, t)
    BY <1>0, <2>1 DEF SameBut, Shaped, Fields
  <2>4. KeptBut(q, t, a)
    BY <2>3, SameKept
  <2> QED
    BY <2>2, <2>4, PageSent
<1>3. CASE p.pending[t] = NoLine /\ ~p.cache[t].known
  <2> DEFINE r == ClearLiveProgress(p, t)
             q == [r EXCEPT !.progress[t] = line]
  <2>1. KeptBut(r, t, a) /\ Shaped(r)
    BY ProgressCleared, KeptParts
  <2>2. SendLiveProgress(p, t, line) = SendDetailBody(q, t, AppendLine(r.body[t], line))
    BY <1>3, Zenon DEF SendLiveProgress
  <2> HIDE DEF r
  <2>3. SameBut(r, q, t)
    BY <2>1 DEF SameBut, Shaped, Fields
  <2>4. KeptBut(q, t, a)
    BY <2>1, <2>3, SameKept
  <2>5. IsSeq(AppendLine(r.body[t], line))
    BY <2>1, LineAppended DEF Shaped
  <2> QED
    BY <2>2, <2>4, <2>5, BodySent
<1> QED
  BY <1>1, <1>2, <1>3

\* Cancelling a queued line is harmless for any thread;
LEMMA QueueCancelled ==
  ASSUME NEW p, NEW t \in Threads, NEW a
  PROVE  /\ KeptBut(p, t, a) => KeptBut(CancelQueued(p, t), t, a)
         /\ Kept(p, a) => Kept(CancelQueued(p, t), a)
<1>1. ASSUME Shaped(p)
      PROVE  /\ SameBut(p, CancelQueued(p, t), t)
             /\ Forgotten(p, t) => Forgotten(CancelQueued(p, t), t)
  BY <1>1 DEF SameBut, Shaped, Fields, CancelQueued, Forgotten
<1>2. KeptBut(p, t, a) => KeptBut(CancelQueued(p, t), t, a)
  BY <1>1, SameKept, KeptParts
<1>3. ASSUME Kept(p, a) PROVE Kept(CancelQueued(p, t), a)
  BY <1>1, <1>2, <1>3, KeptParts, Zenon DEF SameBut, Kept
<1> QED
  BY <1>2, <1>3

\* queueing one is, for the active thread, listed or not.
LEMMA ProgressQueued ==
  ASSUME NEW p, NEW t \in Threads, Kept(p, t), NEW line
  PROVE  /\ Kept(QueueLiveProgress(p, t, line), t)
         /\ Kept([QueueLiveProgress(p, t, line) EXCEPT !.texts = @ \cup {t}], t)
<1>0. Shaped(p) /\ p.active = t
  BY KeptParts
<1> DEFINE q == QueueLiveProgress(p, t, line)
           r == [q EXCEPT !.texts = @ \cup {t}]
<1>1. SameBut(p, q, t) /\ (Forgotten(p, t) => Forgotten(q, t))
  BY <1>0 DEF SameBut, Shaped, Fields, QueueLiveProgress, Forgotten
<1>2. SameBut(p, r, t) /\ (Forgotten(p, t) => Forgotten(r, t))
  BY <1>0 DEF SameBut, Shaped, Fields, QueueLiveProgress, Forgotten
<1> HIDE DEF q, r
<1>3. KeptBut(q, t, t) /\ KeptBut(r, t, t)
  BY <1>1, <1>2, SameKept, KeptParts
<1>4. Kept(q, t)
  BY <1>1, <1>3, KeptParts, Zenon DEF SameBut, Kept
<1>5. Kept(r, t)
  BY <1>2, <1>3, KeptParts, Zenon DEF SameBut, Kept
<1> QED
  BY <1>4, <1>5 DEF q, r

\* A completed item of the active thread.
LEMMA ItemHandled ==
  ASSUME NEW p, NEW t \in Threads, Kept(p, t), NEW item
  PROVE  Kept(HandleItemCompleted(p, t, item), t)
<1> DEFINE x == [CancelQueued(p, t) EXCEPT !.texts = IF item \in Answers THEN @ \ {t} ELSE @]
           q == ClearLiveProgress(x, t)
<1>0. Shaped(p) /\ p.active = t
  BY KeptParts
<1>1. SameBut(p, x, t) /\ (Forgotten(p, t) => Forgotten(x, t))
  BY <1>0 DEF SameBut, Shaped, Fields, CancelQueued, Forgotten
<1>2. Kept(x, t) /\ KeptBut(x, t, t)
  <2> HIDE DEF x
  <2>1. KeptBut(x, t, t)
    BY <1>1, SameKept, KeptParts
  <2> QED
    BY <1>1, <2>1, KeptParts, Zenon DEF SameBut, Kept
<1> HIDE DEF x
<1>3. Kept(q, t) /\ KeptBut(q, t, t) /\ Shaped(q)
  BY <1>2, ProgressCleared, KeptParts
<1> DEFINE known == item \in ToSet(q.cache[t].sections)
           new == IF known THEN q.cache[t].sections ELSE Append(q.cache[t].sections, item)
           y == [q EXCEPT !.cache[t].sections = new]
           z == AppendLine(q.body[t], item)
<1>4. \/ HandleItemCompleted(p, t, item) = q
      \/ HandleItemCompleted(p, t, item) = SendDetailBody(q, t, <<q.pending[t], item>>)
      \/ HandleItemCompleted(p, t, item) = SendDetailPage(y, t)
      \/ HandleItemCompleted(p, t, item) = SendDetailBody(q, t, z)
  BY Zenon DEF HandleItemCompleted, x
<1> HIDE DEF q
<1>5. IsSeq(new) /\ IsSeq(z) /\ IsSeq(<<q.pending[t], item>>)
  BY <1>3, SeqParts, ShortSeqs, LineAppended DEF Shaped
<1> HIDE DEF new, z
<1>6. SameBut(q, y, t)
  BY <1>3, <1>5 DEF SameBut, Shaped, Fields
<1>7. KeptBut(y, t, t)
  BY <1>3, <1>6, SameKept
<1> HIDE DEF y
<1>8. \A body : IsSeq(body) => Kept(SendDetailBody(q, t, body), t)
  BY <1>3, BodySent DEF KeptWith
<1>9. Kept(SendDetailPage(y, t), t)
  BY <1>7, PageSent DEF KeptWith
<1> QED
  BY <1>3, <1>4, <1>5, <1>8, <1>9

\* The thread that is left loses what only the active thread may have.
LEMMA ActiveSet ==
  ASSUME NEW p, NEW a, Kept(p, a), NEW t \in Threads
  PROVE  Kept(SetActiveDetailThread(p, t), t)
<1> DEFINE q == SetActiveDetailThread(p, t)
<1>0. Shaped(p) /\ p.active = a
  BY KeptParts
<1>1. CASE a = t
  BY <1>0, <1>1, Zenon DEF SetActiveDetailThread
<1>2. CASE a # t
  <2>1. q = [p EXCEPT !.active = t, !.texts = @ \ {p.active},
                      !.queued = [u \in Threads |-> IF u = p.active THEN NoLine ELSE @[u]]]
    BY <1>0, <1>2, Zenon DEF SetActiveDetailThread
  <2> HIDE DEF q
  <2>2. Shaped(q) /\ q.active = t /\ q.order = p.order
    BY <1>0, <2>1 DEF Shaped, Fields
  <2>3. \A u \in Threads : Forgotten(p, u) => Forgotten(q, u)
    BY <1>0, <2>1 DEF Shaped, Fields, Forgotten
  <2>4. Kept(q, t)
    BY <2>2, <2>3, Zenon DEF Kept
  <2> QED
    BY <2>4 DEF q
<1> QED
  BY <1>1, <1>2

-----------------------------------------------------------------------------
(***************************************************************************)
(* The app-server: what its turns say they go on saying.                   *)
(***************************************************************************)

\* What the turns say, turns u say too.
Known(turns, u) == \A x : UserText(turns, x) => UserText(u, x)

\* The app-server is s2 after it was s.
Grown(s, s2) == \A t \in Threads : Known(s[t], s2[t])

\* A thread at first.
LEMMA HistoriesAreTurns == Histories \subseteq Seq(Turn)
<1> SUFFICES ASSUME NEW h \in Histories PROVE h \in Seq(Turn)
  OBVIOUS
<1>1. CASE h = <<>>
  BY <1>1
<1>2. CASE h # <<>>
  <2>1. PICK x \in Texts, a \in Answers : h = <<[items |-> <<x, a>>, status |-> "completed"]>>
    BY <1>2 DEF Histories
  <2> DEFINE turn == [items |-> <<x, a>>, status |-> "completed"]
  <2>2. <<x, a>> \in Seq(Texts \cup Answers)
    OBVIOUS
  <2>3. turn \in Turn
    BY <2>2, TurnParts
  <2> HIDE DEF turn
  <2>4. h = <<turn>>
    BY <2>1 DEF turn
  <2> QED
    BY <2>3, <2>4
<1> QED
  BY <1>1, <1>2

\* A turn that runs is one of the thread's.
LEMMA RunningTurn ==
  ASSUME NEW turns \in Seq(Turn), LatestInProgressTurn(turns) # 0
  PROVE  LET i == LatestInProgressTurn(turns)
         IN  i \in DOMAIN turns /\ turns[i].status = "inProgress"
<1> DEFINE running == {i \in DOMAIN turns : turns[i].status = "inProgress"}
           Latest(i) == \A j \in running : j <= i
<1>1. running # {} /\ LatestInProgressTurn(turns) = CHOOSE i \in running : Latest(i)
  BY DEF LatestInProgressTurn
<1>2. \E i \in running : Latest(i)
  <2>1. running \in SUBSET (1..Len(turns)) /\ Len(turns) \in Nat
    OBVIOUS
  <2> HIDE DEF running
  <2> QED
    BY <1>1, <2>1, LastPlace
<1>3. (CHOOSE i \in running : Latest(i)) \in running
  <2> HIDE DEF running, Latest
  <2> QED
    BY <1>2, Zenon
<1> QED
  BY <1>1, <1>3

\* Nothing is known less for being compared with itself or with more.
LEMMA KnownParts ==
  ASSUME NEW turns, NEW u
  PROVE  /\ Known(turns, turns) /\ Known(<<>>, turns)
         /\ \A v : Known(turns, u) /\ Known(u, v) => Known(turns, v)
  BY DEF Known, UserText

\* A turn that is new takes nothing away,
LEMMA TurnAdded ==
  ASSUME NEW turns \in Seq(Turn), NEW turn \in Turn
  PROVE  Append(turns, turn) \in Seq(Turn) /\ Known(turns, Append(turns, turn))
<1> DEFINE u == Append(turns, turn)
<1>1. u \in Seq(Turn) /\ DOMAIN turns \subseteq DOMAIN u /\ \A i \in DOMAIN turns : u[i] = turns[i]
  BY AppendProperties
<1> HIDE DEF u
<1>2. Known(turns, u)
  BY <1>1 DEF Known, UserText
<1> QED
  BY <1>1, <1>2 DEF u

\* nor does one that has at least the items it had.
LEMMA TurnChanged ==
  ASSUME NEW turns \in Seq(Turn), NEW i \in DOMAIN turns, NEW turn \in Turn,
         DOMAIN turns[i].items \subseteq DOMAIN turn.items,
         \A j \in DOMAIN turns[i].items : turn.items[j] = turns[i].items[j]
  PROVE  LET u == [turns EXCEPT ![i] = turn]
         IN  /\ u \in Seq(Turn) /\ Known(turns, u)
             /\ \A v : v = <<turn>> \/ v = <<[turn EXCEPT !.items = <<>>]>> =>
                  v \in Seq(Turn) /\ Known(v, u)
<1> DEFINE u == [turns EXCEPT ![i] = turn]
<1>1. /\ u \in Seq(Turn) /\ DOMAIN u = DOMAIN turns /\ u[i] = turn
      /\ \A j \in DOMAIN turns \ {i} : u[j] = turns[j]
  OBVIOUS
<1> HIDE DEF u
<1>2. Known(turns, u)
  BY <1>1 DEF Known, UserText
<1>3. Known(<<turn>>, u)
  BY <1>1 DEF Known, UserText
<1>4. Known(<<[turn EXCEPT !.items = <<>>]>>, u)
  <2> DEFINE v == [turn EXCEPT !.items = <<>>]
  <2>1. v.items = <<>>
    BY DEF Turn
  <2> HIDE DEF v
  <2>2. ~\E x : UserText(<<v>>, x)
    BY <2>1 DEF UserText
  <2> QED
    BY <2>2 DEF Known, v
<1>5. <<turn>> \in Seq(Turn) /\ <<[turn EXCEPT !.items = <<>>]>> \in Seq(Turn)
  <2> DEFINE v == [turn EXCEPT !.items = <<>>]
  <2>1. <<>> \in Seq(Texts \cup Answers)
    OBVIOUS
  <2>2. turn \in Turn /\ v \in Turn
    BY <2>1, TurnParts
  <2> HIDE DEF v
  <2>3. <<turn>> \in Seq(Turn) /\ <<v>> \in Seq(Turn)
    BY <2>2
  <2> QED
    BY <2>3 DEF v
<1> QED
  BY <1>1, <1>2, <1>3, <1>4, <1>5 DEF u

\* As long as one runs there is one that runs.
LEMMA SomeTurnRuns ==
  ASSUME NEW turns \in Seq(Turn), NEW i \in DOMAIN turns, turns[i].status = "inProgress"
  PROVE  LatestInProgressTurn(turns) # 0
<1> DEFINE running == {j \in DOMAIN turns : turns[j].status = "inProgress"}
           Latest(j) == \A k \in running : k <= j
<1>1. LatestInProgressTurn(turns) = CHOOSE j \in running : Latest(j)
  BY Zenon DEF LatestInProgressTurn
<1>2. running \in SUBSET (1..Len(turns)) /\ running # {} /\ Len(turns) \in Nat
  OBVIOUS
<1> HIDE DEF running
<1>3. \E j \in running : Latest(j)
  BY <1>2, LastPlace
<1>4. (CHOOSE j \in running : Latest(j)) \in running
  <2> HIDE DEF Latest
  <2> QED
    BY <1>3, Zenon
<1>5. LatestInProgressTurn(turns) \in running
  BY <1>1, <1>4, Zenon
<1> QED
  BY <1>2, <1>5

-----------------------------------------------------------------------------
(***************************************************************************)
(* Calls and messages are about threads, and a notification that is heard  *)
(* is about the active one.                                                *)
(***************************************************************************)
CallOk(c) ==
  /\ DOMAIN c = {"kind", "thread", "text", "turn", "step"}
  /\ c.thread \in Threads
  /\ c.kind \in {"reply", "resolve", "send"} => c.text \in Texts

Answered == {"resume", "detail", "poll", "refresh", "resolve", "sent", "refused"}
Heard == {"started", "line", "delta", "item", "ended"}

\* A message about threads that are s at the app-server while a is active.
MessageOk(m, a, s) ==
  /\ DOMAIN m = {"kind", "thread", "turns", "text"}
  /\ m.thread \in Threads
  /\ m.kind \in Answered \cup {"unheard"} \/ (m.kind \in Heard /\ m.thread = a)
  /\ m.turns \in Seq(Turn) /\ Known(m.turns, s[m.thread])
  /\ m.kind \in {"resolve", "refused"} => m.text \in Texts
  /\ m.kind = "item" => /\ m = Message("item", m.thread, <<>>, m.text)
                        /\ m.text \in Texts \cup Answers

WireOk(w, a, s) == \E S : w \in Seq(S) /\ \A m \in S : MessageOk(m, a, s)

CallsOk(cs) == \A c \in cs : CallOk(c)

(***************************************************************************)
(* The inductive invariant: with what is kept, what makes the threads that *)
(* are remembered threads, and those that progress reaches active.         *)
(***************************************************************************)
IInv ==
  /\ server \in [Threads -> Seq(Turn)]
  /\ Kept(phone, phone.active)
  /\ CallsOk(calls)
  /\ WireOk(wire, phone.active, server)
  /\ poll => phone.active \in Threads

\* Every answer, and every notification about the active thread.
LEMMA MessageIsOk ==
  ASSUME NEW kind, NEW t \in Threads, NEW turns, NEW x, NEW a, NEW s,
         kind \in Answered \/ (kind \in Heard /\ t = a),
         turns \in Seq(Turn), Known(turns, s[t]),
         kind \in {"resolve", "refused"} => x \in Texts,
         kind = "item" => turns = <<>> /\ x \in Texts \cup Answers
  PROVE  MessageOk(Message(kind, t, turns, x), a, s)
  BY DEF MessageOk, Message

\* Messages that are sent one after the other,
LEMMA WireJoined ==
  ASSUME NEW w, NEW v, NEW a, NEW s, WireOk(w, a, s), WireOk(v, a, s)
  PROVE  WireOk(w \o v, a, s)
<1>1. PICK S : w \in Seq(S) /\ \A m \in S : MessageOk(m, a, s)
  BY DEF WireOk
<1>2. PICK T : v \in Seq(T) /\ \A m \in T : MessageOk(m, a, s)
  BY DEF WireOk
<1> DEFINE U == S \cup T
<1>3. w \in Seq(U) /\ v \in Seq(U)
  BY <1>1, <1>2, SeqMonotonic
<1>4. w \o v \in Seq(U)
  BY <1>3, ConcatProperties
<1>5. \A m \in U : MessageOk(m, a, s)
  BY <1>1, <1>2
<1> QED
  BY <1>4, <1>5, Zenon DEF WireOk

\* one message or none,
LEMMA ShortWires ==
  ASSUME NEW a, NEW s
  PROVE  /\ WireOk(<<>>, a, s)
         /\ \A m : MessageOk(m, a, s) => WireOk(<<m>>, a, s)
<1>1. WireOk(<<>>, a, s)
  <2> DEFINE w == <<>>
             S == {}
  <2>1. w \in Seq(S) /\ \A n \in S : MessageOk(n, a, s)
    OBVIOUS
  <2> HIDE DEF w, S
  <2>2. WireOk(w, a, s)
    BY <2>1, Zenon DEF WireOk
  <2> QED
    BY <2>2 DEF w
<1>2. ASSUME NEW m, MessageOk(m, a, s) PROVE WireOk(<<m>>, a, s)
  <2> DEFINE w == <<m>>
             S == {m}
  <2>1. w \in Seq(S) /\ \A n \in S : MessageOk(n, a, s)
    BY <1>2
  <2> HIDE DEF w, S
  <2>2. WireOk(w, a, s)
    BY <2>1, Zenon DEF WireOk
  <2> QED
    BY <2>2 DEF w
<1> QED
  BY <1>1, <1>2

\* one more,
LEMMA MessageSent ==
  ASSUME NEW w, NEW a, NEW s, WireOk(w, a, s), NEW m, MessageOk(m, a, s)
  PROVE  WireOk(Append(w, m), a, s)
<1>1. PICK S : w \in Seq(S) /\ \A n \in S : MessageOk(n, a, s)
  BY DEF WireOk
<1>2. w \in Seq(S \cup {m})
  BY <1>1, SeqMonotonic
<1>3. Append(w, m) \in Seq(S \cup {m}) /\ \A n \in S \cup {m} : MessageOk(n, a, s)
  BY <1>1, <1>2, AppendProperties
<1> QED
  BY <1>3, Zenon DEF WireOk

\* and one that arrives.
LEMMA MessageTaken ==
  ASSUME NEW w, NEW a, NEW s, WireOk(w, a, s), w # <<>>
  PROVE  MessageOk(Head(w), a, s) /\ WireOk(Tail(w), a, s)
<1>1. PICK S : w \in Seq(S) /\ \A n \in S : MessageOk(n, a, s)
  BY DEF WireOk
<1>2. Head(w) \in S /\ Tail(w) \in Seq(S)
  BY <1>1, HeadTailProperties
<1> QED
  BY <1>1, <1>2, Zenon DEF WireOk

\* Nobody hears what the client that is left is told.
LEMMA WireUnheard ==
  ASSUME NEW w, NEW a, NEW s, WireOk(w, a, s), NEW b
  PROVE  WireOk([i \in DOMAIN w |-> IF IsAnswer(w[i]) THEN w[i]
                                    ELSE [w[i] EXCEPT !.kind = "unheard"]], b, s)
<1>1. PICK S : w \in Seq(S) /\ \A n \in S : MessageOk(n, a, s)
  BY DEF WireOk
<1> DEFINE Left(m) == IF IsAnswer(m) THEN m ELSE [m EXCEPT !.kind = "unheard"]
           T == {Left(m) : m \in S}
           v == [i \in DOMAIN w |-> Left(w[i])]
<1>2. \A m \in S : MessageOk(Left(m), b, s)
  BY <1>1 DEF MessageOk, IsAnswer, Notifications, Answered, Heard
<1> HIDE DEF Left
<1>3. v \in Seq(T)
  <2>1. Len(w) \in Nat /\ DOMAIN w = 1..Len(w) /\ \A i \in 1..Len(w) : w[i] \in S
    BY <1>1
  <2>2. v \in [1..Len(w) -> T]
    BY <2>1
  <2> QED
    BY <2>1, <2>2, SeqDef, Zenon
<1>4. \A m \in T : MessageOk(m, b, s)
  BY <1>2
<1>5. WireOk(v, b, s)
  BY <1>3, <1>4, Zenon DEF WireOk
<1> QED
  BY <1>5 DEF Left

\* A message stays right while the app-server goes on.
LEMMA WireLater ==
  ASSUME NEW w, NEW a, NEW s, WireOk(w, a, s), NEW s2, Grown(s, s2)
  PROVE  WireOk(w, a, s2)
<1>1. PICK S : w \in Seq(S) /\ \A n \in S : MessageOk(n, a, s)
  BY DEF WireOk
<1>2. \A n \in S : MessageOk(n, a, s2)
  <2> SUFFICES ASSUME NEW n \in S PROVE MessageOk(n, a, s2)
    OBVIOUS
  <2>1. MessageOk(n, a, s)
    BY <1>1
  <2>2. Known(n.turns, s2[n.thread])
    <3>1. Known(n.turns, s[n.thread]) /\ Known(s[n.thread], s2[n.thread])
      BY <2>1 DEF MessageOk, Grown
    <3> QED
      BY <3>1, KnownParts, Zenon
  <2> QED
    BY <2>1, <2>2, Zenon DEF MessageOk
<1> QED
  BY <1>1, <1>2, Zenon DEF WireOk

\* New calls and calls that are changed stay about their threads.
LEMMA CallIsOk ==
  ASSUME NEW kind, NEW t \in Threads, NEW x, NEW turn, NEW step,
         kind \in {"reply", "resolve", "send"} => x \in Texts
  PROVE  CallOk(Call(kind, t, x, turn, step))
  BY DEF CallOk, Call

\* A call that is asked, or whose client is gone.
LEMMA AskedIsOk ==
  ASSUME NEW p, NEW c, CallOk(c)
  PROVE  CallOk(Asked(p, c)) /\ \A step : CallOk([c EXCEPT !.step = step])
  BY DEF CallOk, Asked, Call

\* What runDetailRequest adds to the calls.
LEMMA RunCalls ==
  ASSUME NEW p, NEW k, NEW cs, NEW c, CallsOk(cs), CallOk(c), Run(p, k, cs, c)
  PROVE  CallsOk(calls')
<1>1. CallOk(Asked(p, c)) /\ CallOk(Call("resume", c.thread, NoLine, 0, "asked"))
  BY AskedIsOk, CallIsOk DEF CallOk
<1> QED
  BY <1>1 DEF Run, CallsOk

-----------------------------------------------------------------------------
(***************************************************************************)
(* The invariant holds at first and is kept by every step.                 *)
(***************************************************************************)
LEMMA InitIInv == Init => IInv
<1> SUFFICES ASSUME Init PROVE IInv
  OBVIOUS
<1>1. Shaped(phone) /\ phone.order = <<>> /\ \A t \in Threads : Forgotten(phone, t)
  BY ShortSeqs DEF Init, Shaped, Fields, Forgotten, Distinct, NotCached
<1>2. Kept(phone, phone.active)
  BY <1>1, CacheLimitAssumption DEF Kept
<1>3. CallsOk(calls) /\ WireOk(wire, phone.active, server) /\ ~poll
  BY ShortWires DEF Init, CallsOk
<1>4. server \in [Threads -> Seq(Turn)]
  BY HistoriesAreTurns DEF Init
<1> QED
  BY <1>2, <1>3, <1>4 DEF IInv

\* The thread the user looks at is the active one.
LEMMA LookAtIInv ==
  ASSUME IInv, NEW t \in Threads, NEW c, CallOk(c), Kept(phone', t), LookAt(t, phone', c),
         UNCHANGED server
  PROVE  IInv'
<1>1. phone'.active = t
  BY KeptParts
<1>2. CASE t = phone.active
  <2>1. Run(phone', client, calls, c) /\ wire' = wire
    BY <1>2 DEF LookAt
  <2>2. CallsOk(calls')
    BY <2>1, RunCalls DEF IInv
  <2> QED
    BY <1>1, <1>2, <2>1, <2>2 DEF IInv
<1>3. CASE t # phone.active
  <2>1. PICK cs \in (IF client = "setup" THEN Abandoned ELSE {calls}) : Run(phone', "none", cs, c)
    BY <1>3 DEF LookAt
  <2>2. CallsOk(cs)
    <3>1. \A d \in calls : CallOk(d) /\ CallOk([d EXCEPT !.step = "dead"])
      BY AskedIsOk DEF IInv, CallsOk
    <3>2. cs = calls \/ cs = {IF d.thread = phone.active /\ (d.step = "setup" \/ d.kind = "resume")
                              THEN [d EXCEPT !.step = "dead"] ELSE d : d \in calls}
      BY <2>1 DEF Abandoned
    <3> QED
      BY <3>1, <3>2 DEF CallsOk
  <2>3. CallsOk(calls')
    BY <2>1, <2>2, RunCalls
  <2>4. WireOk(wire', t, server)
    BY <1>3, WireUnheard DEF LookAt, IInv
  <2> QED
    BY <1>1, <2>3, <2>4 DEF IInv
<1> QED
  BY <1>2, <1>3

LEMMA RequestIInv ==
  ASSUME IInv, NEW t \in Threads, RequestThreadDetail(t)
  PROVE  IInv'
<1>1. Kept(phone', t)
  BY ActiveSet DEF RequestThreadDetail, IInv
<1>2. CallOk(Call("detail", t, NoLine, 0, "setup"))
  BY CallIsOk, Zenon
<1> QED
  BY <1>1, <1>2, LookAtIInv DEF RequestThreadDetail

LEMMA ReplyIInv ==
  ASSUME IInv, NEW t \in Threads, NEW x \in Texts, SubmitReply(t, x)
  PROVE  IInv'
<1> DEFINE p == SetActiveDetailThread(phone, t)
           q == [p EXCEPT !.pending[t] = x]
<1>1. KeptBut(p, t, t) /\ Shaped(p)
  BY ActiveSet, KeptParts DEF IInv
<1>2. phone' = SendDetailBody(q, t, <<x, Working>>)
  BY DEF SubmitReply
<1> HIDE DEF p
<1>3. SameBut(p, q, t)
  BY <1>1 DEF SameBut, Shaped, Fields
<1>4. KeptBut(q, t, t)
  BY <1>1, <1>3, SameKept
<1>5. Kept(phone', t)
  BY <1>2, <1>4, ShortSeqs, BodySent DEF KeptWith
<1>6. CallOk(Call("reply", t, x, 0, "setup"))
  BY CallIsOk
<1> QED
  BY <1>5, <1>6, LookAtIInv DEF SubmitReply

\* What the client of the active thread is told, it hears.
LEMMA NotifyIInv ==
  ASSUME IInv, NEW t \in Threads, NEW kind \in Heard, NEW turns, NEW x,
         Notify(t, <<Message(kind, t, turns, x)>>), UNCHANGED <<phone, calls, poll>>,
         server' \in [Threads -> Seq(Turn)], Grown(server, server'),
         turns \in Seq(Turn), Known(turns, server'[t]),
         kind = "item" => turns = <<>> /\ x \in Texts \cup Answers
  PROVE  IInv'
<1> DEFINE m == Message(kind, t, turns, x)
<1>1. WireOk(wire, phone.active, server')
  BY WireLater DEF IInv
<1>2. CASE t = phone.active /\ wire' = wire \o <<m>>
  <2>1. MessageOk(m, phone.active, server')
    BY <1>2, MessageIsOk DEF Heard
  <2>2. WireOk(<<m>>, phone.active, server')
    BY <2>1, ShortWires
  <2> HIDE DEF m
  <2>3. WireOk(wire', phone.active, server')
    BY <1>1, <1>2, <2>2, WireJoined
  <2> QED
    BY <2>3 DEF IInv
<1>3. CASE wire' = wire
  BY <1>1, <1>3 DEF IInv
<1> QED
  BY <1>2, <1>3 DEF Notify

LEMMA ServerGrown ==
  ASSUME IInv, NEW t \in Threads, NEW turns \in Seq(Turn), Known(server[t], turns),
         server' = [server EXCEPT ![t] = turns]
  PROVE  /\ server' \in [Threads -> Seq(Turn)] /\ server'[t] = turns
         /\ Grown(server, server')
<1>1. server' \in [Threads -> Seq(Turn)] /\ server'[t] = turns
      /\ \A u \in Threads \ {t} : server'[u] = server[u]
  BY DEF IInv
<1>2. Grown(server, server')
  BY <1>1, KnownParts, Zenon DEF Grown
<1> QED
  BY <1>1, <1>2

LEMMA TurnStartsIInv ==
  ASSUME IInv, NEW t \in Threads, TurnStarts(t)
  PROVE  IInv'
<1> DEFINE turn == [items |-> <<>>, status |-> "inProgress"]
           turns == Append(server[t], turn)
<1>1. server' = [server EXCEPT ![t] = turns]
  BY DEF TurnStarts
<1>2. turn \in Turn /\ server[t] \in Seq(Turn)
  <2>1. <<>> \in Seq(Texts \cup Answers)
    OBVIOUS
  <2> QED
    BY <2>1, TurnParts DEF IInv
<1>3. turns \in Seq(Turn) /\ Known(server[t], turns)
  BY <1>2, TurnAdded
<1> HIDE DEF turns
<1>4. server' \in [Threads -> Seq(Turn)] /\ Grown(server, server')
  BY <1>1, <1>3, ServerGrown
<1>5. <<>> \in Seq(Turn) /\ Known(<<>>, server'[t]) /\ "started" \in Heard
  BY KnownParts DEF Heard
<1> QED
  BY <1>4, <1>5, NotifyIInv DEF TurnStarts

\* The running turn gets one item more.
LEMMA ItemAdded ==
  ASSUME IInv, NEW t \in Threads, NEW x \in Texts \cup Answers,
         LatestInProgressTurn(server[t]) # 0,
         server' = [server EXCEPT ![t][LatestInProgressTurn(server[t])].items = Append(@, x)]
  PROVE  server' \in [Threads -> Seq(Turn)] /\ Grown(server, server')
<1> DEFINE i == LatestInProgressTurn(server[t])
           turn == [server[t][i] EXCEPT !.items = Append(@, x)]
           turns == [server[t] EXCEPT ![i] = turn]
<1>1. server[t] \in Seq(Turn) /\ i \in DOMAIN server[t]
  BY RunningTurn DEF IInv
<1>2. server' = [server EXCEPT ![t] = turns]
  OBVIOUS
<1> HIDE DEF i
<1>3. server[t][i] \in Turn
  BY <1>1
<1> DEFINE items == Append(server[t][i].items, x)
<1>4. turn \in Turn /\ turn.items = items
  <2>1. turn = [server[t][i] EXCEPT !.items = items]
    BY <1>3 DEF Turn
  <2>2. server[t][i].items \in Seq(Texts \cup Answers)
    BY <1>3 DEF Turn
  <2>3. items \in Seq(Texts \cup Answers)
    BY <2>2, AppendProperties
  <2> HIDE DEF items, turn
  <2> QED
    BY <1>3, <2>1, <2>3, TurnParts
<1> HIDE DEF turn
<1>5. /\ DOMAIN server[t][i].items \subseteq DOMAIN turn.items
      /\ \A j \in DOMAIN server[t][i].items : turn.items[j] = server[t][i].items[j]
  <2>1. server[t][i].items \in Seq(Texts \cup Answers)
    BY <1>3 DEF Turn
  <2> QED
    BY <1>4, <2>1, AppendProperties
<1>6. turns \in Seq(Turn) /\ Known(server[t], turns)
  BY <1>1, <1>4, <1>5, TurnChanged
<1> HIDE DEF turns
<1> QED
  BY <1>2, <1>6, ServerGrown

LEMMA ItemCompletesIInv ==
  ASSUME IInv, NEW t \in Threads, NEW a \in Answers, ItemCompletes(t, a)
  PROVE  IInv'
<1>1. server' \in [Threads -> Seq(Turn)] /\ Grown(server, server')
  BY ItemAdded DEF ItemCompletes
<1>2. <<>> \in Seq(Turn) /\ Known(<<>>, server'[t]) /\ "item" \in Heard
  BY KnownParts DEF Heard
<1> QED
  BY <1>1, <1>2, NotifyIInv DEF ItemCompletes

LEMMA ProgressesIInv ==
  ASSUME IInv, NEW t \in Threads, NEW kind \in {"line", "delta"}, Progresses(t, kind)
  PROVE  IInv'
<1>1. server' \in [Threads -> Seq(Turn)] /\ Grown(server, server')
  BY KnownParts DEF Progresses, IInv, Grown
<1>2. <<>> \in Seq(Turn) /\ Known(<<>>, server'[t]) /\ kind \in Heard /\ kind # "item"
  BY KnownParts DEF Heard
<1> QED
  BY <1>1, <1>2, NotifyIInv DEF Progresses

\* The notification has the turn, with its items or without.
LEMMA TurnEndsIInv ==
  ASSUME IInv, NEW t \in Threads, NEW status \in {"completed", "interrupted"},
         TurnEnds(t, status)
  PROVE  IInv'
<1> DEFINE i == LatestInProgressTurn(server[t])
           turn == [server[t][i] EXCEPT !.status = status]
           turns == [server[t] EXCEPT ![i] = turn]
<1>1. server[t] \in Seq(Turn) /\ i \in DOMAIN server[t]
  BY RunningTurn DEF IInv, TurnEnds
<1>2. server' = [server EXCEPT ![t] = turns]
  BY DEF TurnEnds
<1>3. PICK items \in {turn.items, <<>>} :
        Notify(t, <<Message("ended", t, <<[turn EXCEPT !.items = items]>>, NoLine)>>)
  BY DEF TurnEnds
<1> HIDE DEF i
<1>4. turn \in Turn /\ turn.items = server[t][i].items /\ [turn EXCEPT !.items = turn.items] = turn
  <2> DEFINE was == server[t][i]
  <2>1. was \in Turn /\ <<>> \in Seq(Texts \cup Answers)
        /\ status \in {"inProgress", "completed", "interrupted", "failed"}
    BY <1>1
  <2> HIDE DEF was
  <2>2. [was EXCEPT !.status = status] \in Turn /\ [was EXCEPT !.status = status].items = was.items
        /\ \A r \in Turn : [r EXCEPT !.items = r.items] = r
    BY <2>1, TurnParts
  <2> QED
    BY <2>2 DEF was
<1> HIDE DEF turn
<1>5. /\ turns \in Seq(Turn) /\ Known(server[t], turns)
      /\ <<[turn EXCEPT !.items = items]>> \in Seq(Turn)
      /\ Known(<<[turn EXCEPT !.items = items]>>, turns)
  BY <1>1, <1>3, <1>4, TurnChanged
<1> HIDE DEF turns
<1>6. /\ server' \in [Threads -> Seq(Turn)] /\ Grown(server, server')
      /\ Known(<<[turn EXCEPT !.items = items]>>, server'[t]) /\ "ended" \in Heard
  BY <1>2, <1>5, ServerGrown DEF Heard
<1> DEFINE said == <<[turn EXCEPT !.items = items]>>
<1> HIDE DEF said
<1>7. /\ Notify(t, <<Message("ended", t, said, NoLine)>>)
      /\ said \in Seq(Turn) /\ Known(said, server'[t])
  BY <1>3, <1>5, <1>6 DEF said
<1> QED
  BY <1>6, <1>7, NotifyIInv DEF TurnEnds

LEMMA AnswerReadIInv ==
  ASSUME IInv, NEW c \in calls, AnswerRead(c)
  PROVE  IInv'
<1> DEFINE m == Message(c.kind, c.thread, server[c.thread], c.text)
<1>1. c.thread \in Threads /\ c.kind \in Answered /\ c.kind \notin {"refused", "item"}
      /\ (c.kind = "resolve" => c.text \in Texts) /\ server[c.thread] \in Seq(Turn)
  BY DEF AnswerRead, IInv, CallsOk, CallOk, Answered
<1>2. MessageOk(m, phone.active, server)
  BY <1>1, MessageIsOk, KnownParts
<1> HIDE DEF m
<1>3. WireOk(wire', phone.active, server)
  BY <1>2, MessageSent DEF AnswerRead, IInv, m
<1> QED
  BY <1>3 DEF AnswerRead, IInv, CallsOk

LEMMA AnswerSendIInv ==
  ASSUME IInv, NEW c \in calls, AnswerSend(c)
  PROVE  IInv'
<1> DEFINE t == c.thread
           a == phone.active
           s == server'
           sent == Message("sent", t, <<>>, c.text)
           refused == Message("refused", t, <<>>, c.text)
           item == Message("item", t, <<>>, c.text)
           started == Message("started", t, <<>>, NoLine)
           told == t = a /\ client \in {"resumed", "open"}
<1>1. t \in Threads /\ c.text \in Texts
  BY DEF IInv, CallsOk, CallOk, AnswerSend
<1>2. /\ UNCHANGED <<phone, poll>> /\ calls' = calls \ {c}
      /\ \/ wire' = wire \o <<sent>> \o (IF told THEN <<item>> ELSE <<>>)
         \/ wire' = wire \o <<sent>> \o (IF told THEN <<started>> \o <<item>> ELSE <<>>)
         \/ wire' = Append(wire, refused)
  BY DEF AnswerSend
<1>3. server' \in [Threads -> Seq(Turn)] /\ Grown(server, server')
  <2> DEFINE running == LatestInProgressTurn(server[t])
             turn == [items |-> <<c.text>>, status |-> "inProgress"]
             turns == Append(server[t], turn)
  <2>1. \/ running # 0 /\ server' = [server EXCEPT ![t][running].items = Append(@, c.text)]
        \/ server' = [server EXCEPT ![t] = turns]
        \/ UNCHANGED server
    BY DEF AnswerSend
  <2>2. CASE running # 0 /\ server' = [server EXCEPT ![t][running].items = Append(@, c.text)]
    BY <1>1, <2>2, ItemAdded
  <2>3. CASE server' = [server EXCEPT ![t] = turns]
    <3>1. turn \in Turn /\ server[t] \in Seq(Turn)
      <4>1. <<c.text>> \in Seq(Texts \cup Answers)
        BY <1>1
      <4> QED
        BY <1>1, <4>1, TurnParts DEF IInv
    <3>2. turns \in Seq(Turn) /\ Known(server[t], turns)
      BY <3>1, TurnAdded
    <3> HIDE DEF turns
    <3> QED
      BY <1>1, <2>3, <3>2, ServerGrown
  <2>4. CASE UNCHANGED server
    BY <2>4, KnownParts DEF Grown, IInv
  <2> QED
    BY <2>1, <2>2, <2>3, <2>4
<1> HIDE DEF s
<1>4. <<>> \in Seq(Turn) /\ Known(<<>>, s[t])
  BY KnownParts
<1>5. MessageOk(refused, a, s) /\ WireOk(<<sent>>, a, s) /\ WireOk(<<>>, a, s)
  <2>1. MessageOk(refused, a, s) /\ MessageOk(sent, a, s)
    BY <1>1, <1>4, MessageIsOk DEF Answered
  <2> QED
    BY <2>1, ShortWires
<1>6. told => WireOk(<<item>>, a, s) /\ WireOk(<<started>>, a, s)
  <2>1. told => MessageOk(item, a, s) /\ MessageOk(started, a, s)
    BY <1>1, <1>4, MessageIsOk DEF Heard
  <2> QED
    BY <2>1, ShortWires
<1>7. WireOk(wire, a, s)
  BY <1>3, WireLater DEF IInv, s
<1> HIDE DEF sent, refused, item, started, a, told
<1>8. WireOk(wire \o <<sent>>, a, s) /\ WireOk(Append(wire, refused), a, s)
  BY <1>5, <1>7, WireJoined, MessageSent
<1>9. /\ WireOk(IF told THEN <<item>> ELSE <<>>, a, s)
      /\ WireOk(IF told THEN <<started>> \o <<item>> ELSE <<>>, a, s)
  BY <1>5, <1>6, WireJoined
<1>10. WireOk(wire', a, s)
  BY <1>2, <1>8, <1>9, WireJoined
<1> QED
  BY <1>2, <1>3, <1>10 DEF IInv, CallsOk, a, s

-----------------------------------------------------------------------------
(***************************************************************************)
(* The messages that reach the phone, and its timers.                      *)
(***************************************************************************)

LEMMA DeliverIInv ==
  ASSUME IInv, Deliver
  PROVE  IInv' /\ phone'.active = phone.active
<1> DEFINE m == Head(wire)
           t == m.thread
           a == phone.active
<1>1. /\ MessageOk(m, a, server) /\ WireOk(wire', a, server)
  BY MessageTaken DEF Deliver, IInv
<1>2. /\ t \in Threads /\ KeptBut(phone, t, a) /\ Kept(phone, a)
      /\ m.turns \in Seq(Turn)
  BY <1>1, KeptParts DEF MessageOk, IInv
<1> SUFFICES /\ Kept(phone', a)
             /\ CallsOk(calls')
             /\ poll' => poll \/ t = a
             /\ UNCHANGED server
  BY <1>1, <1>2 DEF IInv, Kept
<1>3. CASE m.kind = "resume"
  <2>1. Resumed(t, m.turns)
    BY <1>3 DEF Deliver
  <2>2. Kept(phone', a)
    BY <1>2, <2>1, UpdateSent DEF Resumed, KeptWith
  <2>3. CallsOk(calls')
    BY <2>1, AskedIsOk DEF Resumed, IInv, CallsOk
  <2> QED
    BY <2>1, <2>2, <2>3 DEF Resumed
<1>4. CASE m.kind = "detail"
  <2>1. DetailRead(t, m.turns)
    BY <1>4 DEF Deliver
  <2>2. Kept(phone', a)
    BY <1>2, <2>1, UpdateSent DEF DetailRead, KeptWith
  <2> QED
    BY <2>1, <2>2 DEF DetailRead, ScheduleDetailPoll, IInv
<1>5. CASE m.kind = "poll"
  <2>1. Polled(t, m.turns)
    BY <1>5 DEF Deliver
  <2>2. Kept(phone', a)
    BY <1>2, <2>1, UpdateSent DEF Polled, KeptWith
  <2> QED
    BY <2>1, <2>2 DEF Polled, IInv
<1>6. CASE m.kind = "refresh"
  <2>1. Refreshed(t, m.turns)
    BY <1>6 DEF Deliver
  <2>2. Kept(phone', a)
    BY <1>2, <2>1, UpdateSent DEF Refreshed, KeptWith
  <2> QED
    BY <2>1, <2>2 DEF Refreshed, IInv
<1>7. CASE m.kind = "resolve"
  <2>1. Resolved(t, m.turns, m.text)
    BY <1>7 DEF Deliver
  <2>2. Kept(phone', a)
    BY <1>2, <2>1, Cached DEF Resolved, KeptWith
  <2>3. CallsOk(calls')
    <3>1. m.text \in Texts
      BY <1>1, <1>7 DEF MessageOk
    <3> QED
      BY <1>2, <2>1, <3>1, CallIsOk DEF Resolved, IInv, CallsOk
  <2> QED
    BY <2>1, <2>2, <2>3 DEF Resolved
<1>8. CASE m.kind = "sent"
  <2>1. Sent(t)
    BY <1>8 DEF Deliver
  <2> QED
    BY <1>2, <2>1 DEF Sent, ScheduleDetailPoll, IInv
<1>9. CASE m.kind = "refused"
  <2>1. ReplyFailed(t, m.text) /\ UNCHANGED <<server, calls, poll>>
    BY <1>9 DEF Deliver
  <2>2. Kept(phone', a)
    BY <1>2, <2>1, ShortSeqs, BodySent DEF ReplyFailed, KeptWith
  <2> QED
    BY <2>1, <2>2 DEF IInv
<1>10. CASE m.kind = "ended"
  <2> DEFINE p == ClearLiveProgress(phone, t)
             q == [p EXCEPT !.texts = @ \ {t}]
  <2>1. HandleTurnCompleted(t, m.turns)
    BY <1>10 DEF Deliver
  <2>2. phone' = SendDetailUpdate(q, t, m.turns) /\ UNCHANGED <<server, poll>>
    BY <2>1 DEF HandleTurnCompleted
  <2>3. KeptBut(p, t, a) /\ Shaped(p)
    BY <1>2, ProgressCleared, KeptParts
  <2> HIDE DEF p
  <2>4. SameBut(p, q, t)
    BY <2>3 DEF SameBut, Shaped, Fields
  <2>5. KeptBut(q, t, a)
    BY <1>2, <2>3, <2>4, SameKept
  <2>6. Kept(phone', a)
    BY <1>2, <2>2, <2>5, UpdateSent DEF KeptWith
  <2>7. CallsOk(calls')
    BY <1>2, <2>1, CallIsOk, RunCalls DEF HandleTurnCompleted, IInv
  <2> QED
    BY <2>2, <2>6, <2>7
<1>11. CASE m.kind \in {"started", "line", "delta", "item", "unheard"}
  <2>1. Notified(m)
    BY <1>11 DEF Deliver
  <2>2. UNCHANGED <<server, calls, poll>>
    BY <2>1 DEF Notified
  <2>3. m.kind # "unheard" => t = a
    BY <1>1, <1>11 DEF MessageOk, Answered
  <2>4. Kept(phone', a)
    <3>1. CASE m.kind = "started"
      <4>1. phone' = SendLiveProgress(CancelQueued(phone, t), t, Working)
        BY <2>1, <3>1 DEF Notified, SendLiveProgressNow
      <4> QED
        BY <1>2, <4>1, QueueCancelled, ProgressSent DEF KeptWith
    <3>2. CASE m.kind = "line"
      BY <1>2, <2>1, <2>3, <3>2, ProgressQueued DEF Notified
    <3>3. CASE m.kind = "delta"
      <4>1. phone' = [QueueLiveProgress(phone, t, Progress) EXCEPT !.texts = @ \cup {t}]
        BY <2>1, <3>3 DEF Notified
      <4>2. t = a /\ Kept(phone, t)
        BY <1>2, <2>3, <3>3
      <4>3. Kept([QueueLiveProgress(phone, t, Progress) EXCEPT !.texts = @ \cup {t}], t)
        BY <1>2, <4>2, ProgressQueued
      <4> QED
        BY <4>1, <4>2, <4>3, Zenon
    <3>4. CASE m.kind = "item"
      BY <1>2, <2>1, <2>3, <3>4, ItemHandled DEF Notified
    <3>5. CASE m.kind = "unheard"
      BY <1>2, <2>1, <3>5 DEF Notified
    <3> QED
      BY <1>11, <3>1, <3>2, <3>3, <3>4, <3>5
  <2> QED
    BY <2>2, <2>4 DEF IInv
<1> QED
  BY <1>1, <1>3, <1>4, <1>5, <1>6, <1>7, <1>8, <1>9, <1>10, <1>11 DEF MessageOk, Answered, Heard

LEMMA FlushIInv ==
  ASSUME IInv, NEW t \in Threads, FlushLiveProgress(t)
  PROVE  IInv' /\ phone'.active = phone.active
<1> DEFINE a == phone.active
           q == CancelQueued(phone, t)
<1>1. KeptBut(q, t, a) /\ Kept(q, a)
  BY QueueCancelled, KeptParts DEF IInv
<1>2. phone' = q \/ phone' = SendLiveProgress(q, t, phone.queued[t])
  BY DEF FlushLiveProgress
<1> HIDE DEF q
<1>3. Kept(phone', a)
  BY <1>1, <1>2, ProgressSent DEF KeptWith
<1> QED
  BY <1>3 DEF FlushLiveProgress, IInv, Kept

LEMMA PollIInv ==
  ASSUME IInv, PollThreadDetail \/ PollingStops
  PROVE  IInv'
<1>1. UNCHANGED <<server, phone, wire>> /\ ~poll'
  BY DEF PollThreadDetail, PollingStops
<1>2. CallsOk(calls')
  <2>1. CASE PollThreadDetail
    <3>1. CallOk(Call("poll", phone.active, NoLine, 0, "setup"))
      BY <2>1, CallIsOk DEF PollThreadDetail, IInv
    <3> QED
      BY <2>1, <3>1, RunCalls DEF PollThreadDetail, IInv
  <2>2. CASE PollingStops
    BY <2>2 DEF PollingStops, IInv
  <2> QED
    BY <2>1, <2>2
<1> QED
  BY <1>1, <1>2 DEF IInv

LEMMA FailureIInv ==
  ASSUME IInv, NEW c \in calls, CallFails(c)
  PROVE  IInv' /\ phone'.active = phone.active
<1> DEFINE a == phone.active
<1>0. c.thread \in Threads /\ Kept(phone, a)
  BY DEF IInv, CallsOk, CallOk
<1>1. c.thread \in Threads
      /\ \A d \in calls : CallOk(d) /\ CallOk([d EXCEPT !.step = "dead"])
  BY AskedIsOk DEF IInv, CallsOk, CallOk
<1>2. Kept(phone', a)
  <2>1. phone' = phone \/ phone' = SendDetailBody(phone, c.thread, <<c.text, Failed>>)
    BY DEF CallFails, ReplyFailed
  <2>2. KeptBut(phone, c.thread, a) /\ IsSeq(<<c.text, Failed>>)
    BY <1>0, ShortSeqs, KeptParts
  <2>3. Kept(SendDetailBody(phone, c.thread, <<c.text, Failed>>), a)
    BY <1>0, <2>2, BodySent DEF KeptWith
  <2> QED
    BY <1>0, <2>1, <2>3
<1>3. CallsOk(calls')
  BY <1>1 DEF CallFails, CallsOk
<1>4. UNCHANGED <<server, wire>> /\ (poll' => poll \/ c.thread = a)
  BY DEF CallFails
<1> QED
  BY <1>1, <1>2, <1>3, <1>4 DEF IInv, Kept

LEMMA ConnectionIInv ==
  ASSUME IInv, ConnectionLost
  PROVE  IInv'
<1>1. \A d \in calls : CallOk(d) /\ CallOk([d EXCEPT !.step = "dead"])
  BY AskedIsOk DEF IInv, CallsOk
<1>2. CallsOk(calls')
  BY <1>1 DEF ConnectionLost, CallsOk
<1>3. WireOk(wire', phone.active, server)
  BY ShortWires DEF ConnectionLost
<1> QED
  BY <1>2, <1>3 DEF ConnectionLost, IInv

LEMMA NextIInv == IInv /\ [Next]_vars => IInv'
<1> SUFFICES ASSUME IInv, [Next]_vars PROVE IInv'
  OBVIOUS
<1>1. CASE UNCHANGED vars
  BY <1>1 DEF vars, IInv
<1>2. ASSUME NEW t \in Threads,
             \/ RequestThreadDetail(t) \/ \E x \in Texts : SubmitReply(t, x)
             \/ TurnStarts(t) \/ \E a \in Answers : ItemCompletes(t, a)
             \/ \E kind \in {"line", "delta"} : Progresses(t, kind)
             \/ \E status \in {"completed", "interrupted"} : TurnEnds(t, status)
      PROVE  IInv'
  BY <1>2, RequestIInv, ReplyIInv, TurnStartsIInv, ItemCompletesIInv, ProgressesIInv, TurnEndsIInv
<1>3. ASSUME NEW t \in Threads, FlushLiveProgress(t) PROVE IInv'
  BY <1>3, FlushIInv
<1>4. ASSUME NEW c \in calls, AnswerRead(c) \/ AnswerSend(c) \/ CallFails(c) PROVE IInv'
  BY <1>4, AnswerReadIInv, AnswerSendIInv, FailureIInv
<1>5. CASE Deliver \/ PollThreadDetail \/ PollingStops \/ ConnectionLost
  BY <1>5, DeliverIInv, PollIInv, ConnectionIInv
<1> QED
  BY <1>1, <1>2, <1>3, <1>4, <1>5 DEF Next

-----------------------------------------------------------------------------
(***************************************************************************)
(* Pending replies: what the phone's operators do to them.                 *)
(***************************************************************************)

\* Memory q waits for the replies that memory p waits for; what becomes of the
\* reply to thread u is said elsewhere.
OthersWait(p, q, u) ==
  \A t \in Threads \ {u} :
    t \in ToSet(q.order) => t \in ToSet(p.order) /\ q.pending[t] = p.pending[t]

Waits(p, q, u) == OthersWait(p, q, u) /\ q.pending[u] = p.pending[u]

\* The reply to u is waited for unless the turns have it.
WaitsUnless(p, q, u, turns) ==
  /\ OthersWait(p, q, u)
  /\ \/ q.pending[u] = p.pending[u]
     \/ q.pending[u] = NoLine /\ UserText(turns, p.pending[u])

\* What is shown is thread u, with the reply that is pending.
Shows(q, u) ==
  /\ q.shown.thread = u
  /\ q.pending[u] # NoLine => q.pending[u] \in ToSet(q.shown.body)

LEMMA WaitsParts ==
  ASSUME NEW p, NEW q, NEW u, NEW turns
  PROVE  /\ Waits(p, q, u) => WaitsUnless(p, q, u, turns)
         /\ \A r : Waits(p, q, u) /\ Waits(q, r, u) => Waits(p, r, u)
         /\ \A r : Waits(p, q, u) /\ WaitsUnless(q, r, u, turns) => WaitsUnless(p, r, u, turns)
         /\ \A r : WaitsUnless(p, q, u, turns) /\ Waits(q, r, u) => WaitsUnless(p, r, u, turns)
  BY Zenon DEF Waits, WaitsUnless, OthersWait

\* A thread that is remembered keeps its reply; who is evicted is not listed.
LEMMA RememberedWaits ==
  ASSUME NEW p, NEW t \in Threads, NEW a, KeptBut(p, t, a)
  PROVE  LET q == RememberDetailThread(p, t)
         IN  /\ Waits(p, q, t) /\ q.shown = p.shown /\ q.cache[t] = p.cache[t]
             /\ q.body[t] = p.body[t] /\ \A u \in Threads : q.body[u] \in {p.body[u], <<>>}
<1> DEFINE m == MovedToEnd(p.order, t)
           h == Head(m)
<1>0. Shaped(p) /\ p.order \in Seq(Threads) /\ Distinct(p.order)
  BY Zenon DEF KeptBut, Shaped
<1>1. /\ m \in Seq(Threads) /\ Len(m) >= 1 /\ ToSet(m) \subseteq ToSet(p.order) \cup {t}
      /\ Distinct(m)
  BY <1>0, MovedToEndProperties, Zenon
<1>2. RememberDetailThread(p, t) = IF Len(m) <= CacheLimit THEN [p EXCEPT !.order = m]
        ELSE [(IF h = t THEN p ELSE PruneDetailThread(p, h)) EXCEPT !.order = Tail(m)]
  BY Zenon DEF RememberDetailThread
<1> HIDE DEF m
<1>3. /\ h \in Threads
      /\ \A u \in ToSet(Tail(m)) : u \in ToSet(m) /\ u # h
  <2>1. /\ m # <<>> /\ Len(Tail(m)) = Len(m) - 1 /\ DOMAIN Tail(m) = 1..(Len(m) - 1)
        /\ \A j \in 1..Len(Tail(m)) : Tail(m)[j] = m[j + 1]
        /\ h = m[1] /\ h \in Threads /\ DOMAIN m = 1..Len(m) /\ Len(m) \in Nat
    BY <1>1, HeadTailProperties
  <2> SUFFICES ASSUME NEW j \in DOMAIN Tail(m)
               PROVE  Tail(m)[j] \in ToSet(m) /\ Tail(m)[j] # h
    BY <2>1 DEF ToSet
  <2>2. j + 1 \in DOMAIN m /\ 1 \in DOMAIN m /\ j + 1 # 1 /\ Tail(m)[j] = m[j + 1]
    BY <2>1
  <2> QED
    BY <1>1, <2>1, <2>2, IsListed DEF Distinct
<1> HIDE DEF h
<1>4. CASE Len(m) <= CacheLimit
  <2> DEFINE q == [p EXCEPT !.order = m]
  <2>1. /\ q.order = m /\ q.pending = p.pending /\ q.shown = p.shown /\ q.cache = p.cache
        /\ q.body = p.body
    BY <1>0 DEF Shaped, Fields
  <2> HIDE DEF q
  <2>2. RememberDetailThread(p, t) = q
    BY <1>2, <1>4 DEF q
  <2> QED
    BY <1>1, <2>1, <2>2 DEF Waits, OthersWait
<1>5. CASE ~(Len(m) <= CacheLimit)
  <2> DEFINE r == IF h = t THEN p ELSE PruneDetailThread(p, h)
             q == [r EXCEPT !.order = Tail(m)]
  <2>1. /\ DOMAIN r = Fields /\ r.shown = p.shown /\ r.cache[t] = p.cache[t]
        /\ \A u \in Threads : u # h \/ u = t => r.pending[u] = p.pending[u]
        /\ r.body[t] = p.body[t] /\ \A u \in Threads : r.body[u] \in {p.body[u], <<>>}
    BY <1>0, <1>3 DEF Shaped, Fields, PruneDetailThread
  <2>2. RememberDetailThread(p, t) = q
    BY <1>2, <1>5
  <2> HIDE DEF r
  <2>3. /\ q.order = Tail(m) /\ q.pending = r.pending /\ q.shown = r.shown /\ q.cache = r.cache
        /\ q.body = r.body
    BY <2>1 DEF Fields
  <2> HIDE DEF q
  <2>4. \A u \in Threads \ {t} :
          u \in ToSet(Tail(m)) => u \in ToSet(p.order) /\ r.pending[u] = p.pending[u]
    BY <1>1, <1>3, <2>1
  <2> QED
    BY <2>1, <2>2, <2>3, <2>4 DEF Waits, OthersWait
<1> QED
  BY <1>4, <1>5

\* cacheThreadDetail shows nothing, and caches the reply that is pending.
LEMMA CachedWaits ==
  ASSUME NEW p, NEW t \in Threads, NEW a, KeptBut(p, t, a), NEW turns \in Seq(Turn)
  PROVE  LET q == CacheThreadDetail(p, t, turns)
         IN  /\ Waits(p, q, t) /\ q.shown = p.shown
             /\ q.pending[t] # NoLine => q.pending[t] \in ToSet(q.cache[t].sections)
             /\ q.cache[t].sections = DetailSections(p, t, turns)
             /\ q.body[t] = p.body[t] /\ \A u \in Threads : q.body[u] \in {p.body[u], <<>>}
<1> DEFINE r == RememberDetailThread(p, t)
           q == CacheThreadDetail(p, t, turns)
           entry == [sections |-> DetailSections(p, t, turns), known |-> TRUE,
                     turn |-> LatestInProgressTurn(turns)]
<1>1. /\ Shaped(r) /\ Waits(p, r, t) /\ r.shown = p.shown
      /\ r.body[t] = p.body[t] /\ \A u \in Threads : r.body[u] \in {p.body[u], <<>>}
  BY Remembered, RememberedWaits, KeptParts
<1>2. q = [r EXCEPT !.cache[t] = entry]
  BY Zenon DEF CacheThreadDetail
<1>3. entry.sections = DetailSections(p, t, turns)
  OBVIOUS
<1> HIDE DEF r, q, entry
<1>4. /\ q.pending = r.pending /\ q.order = r.order /\ q.shown = r.shown /\ q.cache[t] = entry
      /\ q.body = r.body
  BY <1>1, <1>2 DEF Shaped, Fields
<1>5. Waits(p, q, t)
  BY <1>1, <1>4 DEF Waits, OthersWait
<1>6. q.pending[t] # NoLine => q.pending[t] \in ToSet(q.cache[t].sections)
  BY <1>3, <1>4, <1>5, SectionsHaveReply DEF Waits
<1> QED
  BY <1>1, <1>3, <1>4, <1>5, <1>6 DEF q

\* sendDetailBody shows what it is given,
LEMMA BodyWaits ==
  ASSUME NEW p, NEW t \in Threads, NEW a, KeptBut(p, t, a), NEW body
  PROVE  LET q == SendDetailBody(p, t, body)
         IN  Waits(p, q, t) /\ q.shown.thread = t /\ q.shown.body = body /\ q.body[t] = body
<1> DEFINE r == RememberDetailThread(p, t)
           q == SendDetailBody(p, t, body)
           what == [thread |-> t, body |-> body]
<1>1. Shaped(r) /\ Waits(p, r, t)
  BY Remembered, RememberedWaits, KeptParts
<1>2. q = [r EXCEPT !.body[t] = body, !.shown = what]
  BY Zenon DEF SendDetailBody
<1>3. what.thread = t /\ what.body = body
  OBVIOUS
<1> HIDE DEF r, q, what
<1>4. q.pending = r.pending /\ q.order = r.order /\ q.body[t] = body
  BY <1>1, <1>2 DEF Shaped, Fields
<1>5. q.shown = what
  <2>1. "shown" \in DOMAIN r
    BY <1>1 DEF Shaped, Fields
  <2> QED
    BY <1>2, <2>1
<1>6. Waits(p, q, t)
  BY <1>1, <1>4 DEF Waits, OthersWait
<1> QED
  BY <1>3, <1>4, <1>5, <1>6 DEF q

\* and sendDetailPage what is cached, or caches it first.
LEMMA PageWaits ==
  ASSUME NEW p, NEW t \in Threads, NEW a, KeptBut(p, t, a)
  PROVE  LET q == SendDetailPage(p, t)
         IN  /\ Waits(p, q, t) /\ q.shown.thread = t
             /\ (p.pending[t] # NoLine /\ p.cache[t].sections # <<>> =>
                   p.pending[t] \in ToSet(p.cache[t].sections)) => Shows(q, t)
<1> DEFINE r == IF p.cache[t].sections = <<>> THEN CacheThreadDetail(p, t, <<>>) ELSE p
           q == SendDetailBody(r, t, r.cache[t].sections)
<1>1. /\ KeptBut(r, t, a) /\ Waits(p, r, t)
      /\ p.cache[t].sections # <<>> => r = p
      /\ p.cache[t].sections = <<>> /\ r.pending[t] # NoLine =>
           r.pending[t] \in ToSet(r.cache[t].sections)
  <2>1. CASE p.cache[t].sections = <<>>
    <3>1. <<>> \in Seq(Turn)
      OBVIOUS
    <3>2. r = CacheThreadDetail(p, t, <<>>)
      BY <2>1, Zenon
    <3> HIDE DEF r
    <3> QED
      BY <2>1, <3>1, <3>2, Cached, CachedWaits, KeptParts
  <2>2. CASE p.cache[t].sections # <<>>
    <3>1. r = p
      BY <2>2, Zenon
    <3> HIDE DEF r
    <3> QED
      BY <2>2, <3>1 DEF Waits, OthersWait
  <2> QED
    BY <2>1, <2>2
<1>2. SendDetailPage(p, t) = q
  BY Zenon DEF SendDetailPage
<1> HIDE DEF r
<1>3. Waits(r, q, t) /\ q.shown.thread = t /\ q.shown.body = r.cache[t].sections
  BY <1>1, BodyWaits
<1> HIDE DEF q
<1>4. Waits(p, q, t) /\ q.pending[t] = r.pending[t] /\ r.pending[t] = p.pending[t]
  BY <1>1, <1>3, WaitsParts, Zenon DEF Waits
<1> QED
  BY <1>1, <1>2, <1>3, <1>4 DEF Shows

\* A reply is forgotten when the turns have what came of it.
LEMMA ReconciledWaits ==
  ASSUME NEW p, NEW t \in Threads, NEW a, KeptBut(p, t, a), NEW turns
  PROVE  LET q == ReconcilePendingReply(p, t, turns)
         IN  /\ WaitsUnless(p, q, t, turns) /\ q.shown = p.shown /\ q.cache[t] = p.cache[t]
             /\ q.pending[t] \in {p.pending[t], NoLine}
<1> DEFINE x == p.pending[t]
           q == [p EXCEPT !.pending[t] = NoLine]
<1>1. Shaped(p)
  BY KeptParts
<1>2. ThreadHasReplyResult(turns, x) => UserText(turns, x)
  BY DEF ThreadHasReplyResult, UserText
<1>3. WaitsUnless(p, p, t, turns)
  BY DEF WaitsUnless, OthersWait
<1>4. UserText(turns, x) => WaitsUnless(p, q, t, turns)
  BY <1>1 DEF WaitsUnless, OthersWait, Shaped, Fields
<1>5. q.shown = p.shown /\ q.cache = p.cache /\ q.pending[t] = NoLine
  BY <1>1 DEF Shaped, Fields
<1>6. \/ ReconcilePendingReply(p, t, turns) = p
      \/ UserText(turns, x) /\ ReconcilePendingReply(p, t, turns) = q
  BY <1>2, Zenon DEF ReconcilePendingReply
<1> HIDE DEF q
<1> QED
  BY <1>3, <1>4, <1>5, <1>6

\* The two updates show the reply as long as it is pending.
LEMMA UpdateWaits ==
  ASSUME NEW p, NEW t \in Threads, NEW a, KeptBut(p, t, a), NEW turns \in Seq(Turn)
  PROVE  LET q == SendDetailUpdate(p, t, turns)
         IN  WaitsUnless(p, q, t, turns) /\ Shows(q, t)
<1> DEFINE r == CacheThreadDetail(p, t, turns)
           s == SendDetailPage(r, t)
           q == ReconcilePendingReply(s, t, turns)
<1>1. /\ KeptBut(r, t, a) /\ Waits(p, r, t)
      /\ r.pending[t] # NoLine => r.pending[t] \in ToSet(r.cache[t].sections)
  BY Cached, CachedWaits, KeptParts
<1>2. SendDetailUpdate(p, t, turns) = q
  BY Zenon DEF SendDetailUpdate
<1> HIDE DEF r
<1>3. KeptBut(s, t, a) /\ Waits(r, s, t) /\ Shows(s, t)
  BY <1>1, PageSent, PageWaits, KeptParts
<1> HIDE DEF s
<1>4. /\ WaitsUnless(s, q, t, turns) /\ q.shown = s.shown
      /\ q.pending[t] \in {s.pending[t], NoLine}
  BY <1>3, ReconciledWaits
<1> HIDE DEF q
<1>5. WaitsUnless(p, q, t, turns)
  BY <1>1, <1>3, <1>4, WaitsParts, Zenon
<1> QED
  BY <1>2, <1>3, <1>4, <1>5 DEF Shows

LEMMA ChangeWaits ==
  ASSUME NEW p, NEW t \in Threads, NEW a, KeptBut(p, t, a), NEW turns \in Seq(Turn)
  PROVE  LET q == SendDetailUpdateIfChanged(p, t, turns)
         IN  WaitsUnless(p, q, t, turns) /\ (q.shown = p.shown \/ Shows(q, t))
<1> DEFINE r == CacheThreadDetail(p, t, turns)
           s == ReconcilePendingReply(r, t, turns)
           q == SendDetailPage(s, t)
<1>1. /\ KeptWith(r, t, a) /\ KeptBut(r, t, a) /\ Waits(p, r, t) /\ r.shown = p.shown
      /\ r.pending[t] # NoLine => r.pending[t] \in ToSet(r.cache[t].sections)
  <2>1. KeptWith(r, t, a) /\ KeptBut(r, t, a)
    BY Cached, KeptParts
  <2> QED
    BY <2>1, CachedWaits
<1>2. SendDetailUpdateIfChanged(p, t, turns) \in {s, q}
  BY Zenon DEF SendDetailUpdateIfChanged
<1> HIDE DEF r
<1>3. KeptBut(s, t, a)
  BY <1>1, Reconciled, KeptParts
<1>4. /\ WaitsUnless(r, s, t, turns) /\ s.shown = p.shown
      /\ s.pending[t] # NoLine => s.pending[t] \in ToSet(s.cache[t].sections)
  BY <1>1, ReconciledWaits
<1> HIDE DEF s
<1>5. Waits(s, q, t) /\ Shows(q, t)
  BY <1>3, <1>4, PageWaits
<1> HIDE DEF q
<1>6. WaitsUnless(p, s, t, turns) /\ WaitsUnless(p, q, t, turns)
  BY <1>1, <1>4, <1>5, WaitsParts, Zenon
<1> QED
  BY <1>2, <1>4, <1>5, <1>6

\* Memory q has the list, the replies and the screen of memory p.
SameReplies(p, q) == q.order = p.order /\ q.pending = p.pending /\ q.shown = p.shown

LEMMA SameWaits ==
  ASSUME NEW p, NEW q, NEW t, SameReplies(p, q)
  PROVE  Waits(p, q, t) /\ \A r : Waits(q, r, t) => Waits(p, r, t)
  BY DEF SameReplies, Waits, OthersWait

\* Live progress is shown with the reply that is pending,
LEMMA ProgressWaits ==
  ASSUME NEW p, NEW t \in Threads, NEW a, KeptBut(p, t, a), NEW line
  PROVE  LET q == SendLiveProgress(p, t, line) IN Waits(p, q, t) /\ Shows(q, t)
<1>0. Shaped(p)
  BY KeptParts
<1>1. CASE p.pending[t] # NoLine
  <2> DEFINE r == [p EXCEPT !.progress[t] = line]
             body == <<p.pending[t], line>>
             q == SendDetailBody(r, t, body)
  <2>1. SameBut(p, r, t) /\ SameReplies(p, r)
    BY <1>0 DEF SameBut, SameReplies, Shaped, Fields
  <2>2. p.pending[t] \in ToSet(body)
    BY DEF ToSet
  <2>3. SendLiveProgress(p, t, line) = q
    BY <1>1, Zenon DEF SendLiveProgress
  <2> HIDE DEF r, body
  <2>4. KeptBut(r, t, a)
    BY <2>1, SameKept
  <2>5. Waits(r, q, t) /\ q.shown.thread = t /\ q.shown.body = body
    BY <2>4, BodyWaits
  <2> HIDE DEF q
  <2>6. Waits(p, q, t)
    BY <2>1, <2>5, SameWaits
  <2> QED
    BY <2>2, <2>3, <2>5, <2>6 DEF Shows, Waits
<1>2. CASE p.pending[t] = NoLine /\ p.cache[t].known
  <2> DEFINE new == Append(Without(p.cache[t].sections, p.progress[t]), line)
             r == [p EXCEPT !.cache[t].sections = new, !.progress[t] = line]
             q == SendDetailPage(r, t)
  <2>0. IsSeq(new)
    BY <1>0, WithoutIsSeq, SeqParts DEF Shaped
  <2>2. SendLiveProgress(p, t, line) = q
    BY <1>2 DEF SendLiveProgress
  <2> HIDE DEF new
  <2>1. SameBut(p, r, t) /\ SameReplies(p, r)
    BY <1>0, <2>0 DEF SameBut, SameReplies, Shaped, Fields
  <2> HIDE DEF r
  <2>3. KeptBut(r, t, a) /\ r.pending[t] = NoLine
    BY <1>2, <2>1, SameKept DEF SameReplies
  <2>4. Waits(r, q, t) /\ Shows(q, t)
    BY <2>3, PageWaits
  <2> HIDE DEF q
  <2> QED
    BY <2>1, <2>2, <2>4, SameWaits
<1>3. CASE p.pending[t] = NoLine /\ ~p.cache[t].known
  <2> DEFINE r == ClearLiveProgress(p, t)
             s == [r EXCEPT !.progress[t] = line]
             q == SendDetailBody(s, t, AppendLine(r.body[t], line))
  <2>1. KeptBut(r, t, a) /\ Shaped(r)
    BY ProgressCleared, KeptParts
  <2>2. SameReplies(p, r)
    BY <1>0 DEF SameReplies, Shaped, Fields, ClearLiveProgress
  <2>3. SendLiveProgress(p, t, line) = q
    BY <1>3, Zenon DEF SendLiveProgress
  <2> HIDE DEF r
  <2>4. SameBut(r, s, t) /\ SameReplies(r, s)
    BY <2>1 DEF SameBut, SameReplies, Shaped, Fields
  <2> HIDE DEF s
  <2>5. KeptBut(s, t, a) /\ SameReplies(p, s)
    BY <2>1, <2>2, <2>4, SameKept DEF SameReplies
  <2>6. Waits(s, q, t) /\ q.shown.thread = t
    BY <2>5, BodyWaits
  <2> HIDE DEF q
  <2>7. Waits(p, q, t) /\ q.pending[t] = NoLine
    BY <1>3, <2>5, <2>6, SameWaits DEF Waits
  <2> QED
    BY <2>3, <2>6, <2>7 DEF Shows
<1> QED
  BY <1>1, <1>2, <1>3

\* and so is a completed item, unless it is another message of the user.
LEMMA ItemWaits ==
  ASSUME NEW p, NEW t \in Threads, Kept(p, t), NEW item \in Texts \cup Answers
  PROVE  LET q == HandleItemCompleted(p, t, item)
         IN  /\ Waits(p, q, t)
             /\ \/ q.shown = p.shown \/ Shows(q, t)
                \/ q.shown.thread = t /\ item \in Texts \ {p.pending[t]}
<1> DEFINE x == [CancelQueued(p, t) EXCEPT !.texts = IF item \in Answers THEN @ \ {t} ELSE @]
           r == ClearLiveProgress(x, t)
           known == item \in ToSet(r.cache[t].sections)
           new == IF known THEN r.cache[t].sections ELSE Append(r.cache[t].sections, item)
           y == [r EXCEPT !.cache[t].sections = new]
           z == AppendLine(r.body[t], item)
           short == <<r.pending[t], item>>
           q == HandleItemCompleted(p, t, item)
<1>0. Shaped(p) /\ p.active = t
  BY KeptParts
<1>1. SameBut(p, x, t) /\ SameReplies(p, x)
  BY <1>0 DEF SameBut, SameReplies, Shaped, Fields, CancelQueued
<1>2. KeptBut(x, t, t) /\ Shaped(x)
  <2> HIDE DEF x
  <2> QED
    BY <1>1, SameKept, KeptParts
<1>3. \/ q = r
      \/ r.pending[t] # NoLine /\ q = SendDetailBody(r, t, short)
      \/ /\ r.pending[t] = NoLine \/ item \notin Answers
         /\ q = SendDetailPage(y, t) \/ q = SendDetailBody(r, t, z)
  BY Zenon DEF HandleItemCompleted
<1> SUFFICES /\ Waits(p, q, t)
             /\ \/ q.shown = p.shown \/ Shows(q, t)
                \/ q.shown.thread = t /\ item \in Texts \ {p.pending[t]}
  OBVIOUS
<1> HIDE DEF x, q
<1>4. KeptBut(r, t, t) /\ Shaped(r) /\ SameReplies(x, r)
  <2>1. KeptBut(r, t, t) /\ Shaped(r)
    BY <1>2, ProgressCleared, KeptParts
  <2>2. SameReplies(x, r)
    BY <1>2 DEF SameReplies, Shaped, Fields, ClearLiveProgress
  <2> QED
    BY <2>1, <2>2
<1> HIDE DEF r
<1>5. SameReplies(p, r) /\ r.pending[t] = p.pending[t]
  BY <1>1, <1>4 DEF SameReplies
<1>6. /\ IsSeq(new) /\ item \in ToSet(new) /\ item \in ToSet(z)
      /\ r.pending[t] \in ToSet(short)
  <2>1. IsSeq(new) /\ item \in ToSet(new)
    BY <1>4, SeqParts DEF Shaped
  <2>2. item \in ToSet(z)
    BY <1>4, LineAppended DEF Shaped
  <2>3. r.pending[t] \in ToSet(short)
    BY DEF ToSet
  <2> QED
    BY <2>1, <2>2, <2>3
<1> HIDE DEF new, z, short
<1>7. SameBut(r, y, t) /\ SameReplies(r, y) /\ y.cache[t].sections = new
  BY <1>4, <1>6 DEF SameBut, SameReplies, Shaped, Fields
<1> HIDE DEF y
<1>8. KeptBut(y, t, t) /\ SameReplies(p, y) /\ y.pending[t] = p.pending[t]
  BY <1>4, <1>5, <1>7, SameKept DEF SameReplies
<1>9. CASE q = r
  BY <1>5, <1>9, SameWaits DEF SameReplies, Waits, OthersWait
<1>10. CASE r.pending[t] # NoLine /\ q = SendDetailBody(r, t, short)
  <2>1. Waits(r, q, t) /\ q.shown.thread = t /\ q.shown.body = short
    BY <1>4, <1>6, <1>10, BodyWaits
  <2> QED
    BY <1>5, <1>6, <2>1, SameWaits DEF Shows, Waits
<1>11. CASE /\ r.pending[t] = NoLine \/ item \notin Answers
            /\ q = SendDetailPage(y, t)
  <2>1. Waits(y, q, t) /\ q.shown.thread = t
    BY <1>8, <1>11, PageWaits
  <2>2. p.pending[t] = NoLine \/ item = p.pending[t] => Shows(q, t)
    BY <1>6, <1>7, <1>8, <1>11, PageWaits
  <2> QED
    BY <1>5, <1>8, <1>11, <2>1, <2>2, SameWaits
<1>12. CASE /\ r.pending[t] = NoLine \/ item \notin Answers
            /\ q = SendDetailBody(r, t, z)
  <2>1. Waits(r, q, t) /\ q.shown.thread = t /\ q.shown.body = z
    BY <1>4, <1>6, <1>12, BodyWaits
  <2>2. p.pending[t] = NoLine \/ item = p.pending[t] => Shows(q, t)
    BY <1>5, <1>6, <2>1 DEF Shows, Waits
  <2> QED
    BY <1>5, <1>12, <2>1, <2>2, SameWaits
<1> QED
  BY <1>3, <1>9, <1>10, <1>11, <1>12

\* Another thread is looked at: nothing changes but which is active.
LEMMA ActiveWaits ==
  ASSUME NEW p, Shaped(p), NEW t \in Threads
  PROVE  SameReplies(p, SetActiveDetailThread(p, t))
  BY DEF SameReplies, SetActiveDetailThread, Shaped, Fields

-----------------------------------------------------------------------------
(***************************************************************************)
(* The steps: what each does to the replies that are pending.              *)
(***************************************************************************)

\* What is shown of thread u is not the reply that is pending but another.
OtherReply(q, u) ==
  /\ q.shown.thread = u
  /\ \E y \in Texts \ {q.pending[u]} :
       \/ q.shown.body = <<y, Failed>>
       \/ wire # <<>> /\ Head(wire) = Message("item", u, <<>>, y)

\* A step of the phone from p to q that is about thread u.
ReplyStep(p, q, u) ==
  /\ OthersWait(p, q, u)
  /\ p.pending[u] # NoLine /\ q.pending[u] = NoLine => UserText(server[u], p.pending[u])
  /\ q.shown = p.shown \/ Shows(q, u) \/ OtherReply(q, u)

\* The ways in which a step is one.
LEMMA StepParts ==
  ASSUME NEW p, NEW q, NEW u, q.shown = p.shown \/ Shows(q, u) \/ OtherReply(q, u)
  PROVE  /\ Waits(p, q, u) => ReplyStep(p, q, u)
         /\ \A turns : WaitsUnless(p, q, u, turns) /\ Known(turns, server[u]) => ReplyStep(p, q, u)
  BY DEF Waits, WaitsUnless, Known, ReplyStep

\* A reply is submitted: it replaces the one that was pending.
LEMMA SubmitStep ==
  ASSUME IInv, NEW t \in Threads, NEW x \in Texts, SubmitReply(t, x)
  PROVE  ReplyStep(phone, phone', t)
<1> DEFINE p == SetActiveDetailThread(phone, t)
           q == [p EXCEPT !.pending[t] = x]
           body == <<x, Working>>
           r == SendDetailBody(q, t, body)
<1>1. KeptBut(p, t, t) /\ Shaped(p) /\ SameReplies(phone, p)
  BY ActiveSet, ActiveWaits, KeptParts DEF IInv
<1>2. phone' = r
  BY Zenon DEF SubmitReply
<1> HIDE DEF p
<1>3. SameBut(p, q, t)
  BY <1>1 DEF SameBut, Shaped, Fields
<1>4. /\ q.order = p.order /\ q.pending[t] = x
      /\ \A u \in Threads \ {t} : q.pending[u] = p.pending[u]
  BY <1>1 DEF Shaped, Fields
<1>5. x \in ToSet(body) /\ x # NoLine
  BY TextsAssumption DEF ToSet
<1> HIDE DEF q, body
<1>6. Waits(q, r, t) /\ r.shown.thread = t /\ r.shown.body = body
  BY <1>1, <1>3, SameKept, BodyWaits
<1> HIDE DEF r
<1>7. OthersWait(phone, r, t) /\ r.pending[t] = x
  BY <1>1, <1>4, <1>6 DEF Waits, OthersWait, SameReplies
<1> QED
  BY <1>2, <1>5, <1>6, <1>7 DEF ReplyStep, Shows

\* A reply failed: it is shown as failed.
LEMMA FailedStep ==
  ASSUME IInv, NEW t \in Threads, NEW x \in Texts, ReplyFailed(t, x)
  PROVE  ReplyStep(phone, phone', t)
<1> DEFINE body == <<x, Failed>>
           q == SendDetailBody(phone, t, body)
<1>1. KeptBut(phone, t, phone.active)
  BY KeptParts DEF IInv
<1>2. phone' = q
  BY Zenon DEF ReplyFailed
<1>3. x \in ToSet(body)
  BY DEF ToSet
<1>4. body = <<x, Failed>>
  OBVIOUS
<1> HIDE DEF body
<1>5. Waits(phone, q, t) /\ q.shown.thread = t /\ q.shown.body = body
  BY <1>1, BodyWaits
<1> HIDE DEF q
<1>6. CASE q.pending[t] = x
  BY <1>2, <1>3, <1>5, <1>6, StepParts DEF Shows
<1>7. CASE q.pending[t] # x
  BY <1>2, <1>4, <1>5, <1>7, StepParts DEF OtherReply
<1> QED
  BY <1>6, <1>7

\* An answer or a notification arrives.
LEMMA DeliverStep ==
  ASSUME IInv, Deliver
  PROVE  \E u \in Threads : ReplyStep(phone, phone', u)
<1> DEFINE m == Head(wire)
           t == m.thread
           a == phone.active
<1>1. MessageOk(m, a, server) /\ wire # <<>>
  BY MessageTaken DEF Deliver, IInv
<1>2. /\ t \in Threads /\ KeptBut(phone, t, a) /\ Kept(phone, a)
      /\ m.turns \in Seq(Turn) /\ Known(m.turns, server[t])
  BY <1>1, KeptParts DEF MessageOk, IInv
<1> SUFFICES ReplyStep(phone, phone', t)
  BY <1>2
<1>3. ASSUME phone' = phone PROVE ReplyStep(phone, phone', t)
  BY <1>3 DEF ReplyStep, OthersWait
<1>4. ASSUME phone' = SendDetailUpdate(phone, t, m.turns) PROVE ReplyStep(phone, phone', t)
  <2>1. WaitsUnless(phone, phone', t, m.turns) /\ Shows(phone', t)
    BY <1>2, <1>4, UpdateWaits
  <2> QED
    BY <1>2, <2>1, StepParts
<1>5. ASSUME phone' = SendDetailUpdateIfChanged(phone, t, m.turns)
      PROVE  ReplyStep(phone, phone', t)
  <2>1. /\ WaitsUnless(phone, phone', t, m.turns)
        /\ phone'.shown = phone.shown \/ Shows(phone', t)
    BY <1>2, <1>5, ChangeWaits
  <2> QED
    BY <1>2, <2>1, StepParts
<1>6. CASE m.kind \in {"resume", "detail", "refresh", "poll", "sent"}
  <2>1. \/ phone' = phone \/ phone' = SendDetailUpdate(phone, t, m.turns)
        \/ phone' = SendDetailUpdateIfChanged(phone, t, m.turns)
    BY <1>6 DEF Deliver, Resumed, DetailRead, Refreshed, Polled, Sent
  <2> QED
    BY <1>3, <1>4, <1>5, <2>1
<1>7. CASE m.kind = "resolve"
  <2>1. phone' = CacheThreadDetail(phone, t, m.turns)
    BY <1>7 DEF Deliver, Resolved
  <2>2. Waits(phone, phone', t) /\ phone'.shown = phone.shown
    BY <1>2, <2>1, CachedWaits
  <2> QED
    BY <2>2, StepParts
<1>8. CASE m.kind = "refused"
  <2>1. ReplyFailed(t, m.text) /\ m.text \in Texts
    BY <1>1, <1>8 DEF Deliver, MessageOk
  <2> QED
    BY <1>2, <2>1, FailedStep
<1>9. CASE m.kind = "ended"
  <2> DEFINE p == ClearLiveProgress(phone, t)
             q == [p EXCEPT !.texts = @ \ {t}]
  <2>1. phone' = SendDetailUpdate(q, t, m.turns)
    BY <1>9 DEF Deliver, HandleTurnCompleted
  <2>2. KeptBut(p, t, a) /\ Shaped(p)
    BY <1>2, ProgressCleared, KeptParts
  <2>3. SameReplies(phone, p)
    <3>1. Shaped(phone)
      BY <1>2, KeptParts
    <3> QED
      BY <3>1 DEF SameReplies, Shaped, Fields, ClearLiveProgress
  <2> HIDE DEF p
  <2>4. SameBut(p, q, t) /\ SameReplies(p, q)
    BY <2>2 DEF SameBut, SameReplies, Shaped, Fields
  <2> HIDE DEF q
  <2>5. KeptBut(q, t, a) /\ SameReplies(phone, q)
    BY <1>2, <2>2, <2>3, <2>4, SameKept DEF SameReplies
  <2>6. WaitsUnless(q, phone', t, m.turns) /\ Shows(phone', t)
    BY <1>2, <2>1, <2>5, UpdateWaits
  <2>7. WaitsUnless(phone, phone', t, m.turns)
    BY <2>5, <2>6, SameWaits, WaitsParts
  <2> QED
    BY <1>2, <2>6, <2>7, StepParts
<1>10. CASE m.kind \in {"started", "line", "delta", "item", "unheard"}
  <2>0. Notified(m) /\ Shaped(phone)
    BY <1>2, <1>10, KeptParts DEF Deliver
  <2>1. CASE m.kind = "started"
    <3> DEFINE q == CancelQueued(phone, t)
    <3>1. phone' = SendLiveProgress(q, t, Working)
      BY <2>0, <2>1 DEF Notified, SendLiveProgressNow
    <3>2. KeptBut(q, t, a)
      BY <1>2, QueueCancelled
    <3>3. SameReplies(phone, q)
      BY <2>0 DEF SameReplies, CancelQueued, Shaped, Fields
    <3> HIDE DEF q
    <3>4. Waits(q, phone', t) /\ Shows(phone', t)
      BY <1>2, <3>1, <3>2, ProgressWaits
    <3>5. Waits(phone, phone', t)
      BY <3>3, <3>4, SameWaits
    <3> QED
      BY <3>4, <3>5, StepParts
  <2>2. CASE m.kind \in {"line", "delta"}
    <3>1. phone' \in {QueueLiveProgress(phone, t, Progress),
                      [QueueLiveProgress(phone, t, Progress) EXCEPT !.texts = @ \cup {t}]}
      BY <2>0, <2>2 DEF Notified
    <3>2. SameReplies(phone, phone')
      BY <2>0, <3>1 DEF SameReplies, QueueLiveProgress, Shaped, Fields
    <3>3. Waits(phone, phone', t) /\ phone'.shown = phone.shown
      BY <3>2, SameWaits DEF SameReplies
    <3> QED
      BY <3>3, StepParts
  <2>3. CASE m.kind = "item"
    <3>1. phone' = HandleItemCompleted(phone, t, m.text)
      BY <2>0, <2>3 DEF Notified
    <3>2. /\ t = a /\ Kept(phone, t) /\ m.text \in Texts \cup Answers
          /\ Head(wire) = Message("item", t, <<>>, m.text)
      BY <1>1, <1>2, <2>3 DEF MessageOk, Answered
    <3>3. /\ Waits(phone, phone', t)
          /\ \/ phone'.shown = phone.shown \/ Shows(phone', t)
             \/ phone'.shown.thread = t /\ m.text \in Texts \ {phone.pending[t]}
      BY <1>2, <3>1, <3>2, ItemWaits
    <3>4. phone'.pending[t] = phone.pending[t]
      BY <3>3 DEF Waits
    <3>5. \/ phone'.shown = phone.shown \/ Shows(phone', t)
          \/ OtherReply(phone', t)
      BY <1>1, <3>2, <3>3, <3>4 DEF OtherReply
    <3> QED
      BY <3>3, <3>5, StepParts
  <2>4. CASE m.kind = "unheard"
    BY <1>3, <2>0, <2>4 DEF Notified
  <2> QED
    BY <1>10, <2>1, <2>2, <2>3, <2>4
<1> QED
  BY <1>1, <1>6, <1>7, <1>8, <1>9, <1>10 DEF MessageOk, Answered, Heard

\* Every step is about one thread at most.
LEMMA NextStep ==
  ASSUME IInv, Next
  PROVE  UNCHANGED phone \/ \E u \in Threads : ReplyStep(phone, phone', u)
<1>1. ASSUME NEW t \in Threads, SameReplies(phone, phone')
      PROVE  ReplyStep(phone, phone', t)
  <2>1. Waits(phone, phone', t) /\ phone'.shown = phone.shown
    BY <1>1, SameWaits DEF SameReplies
  <2> QED
    BY <2>1, StepParts
<1>2. ASSUME NEW t \in Threads, RequestThreadDetail(t) PROVE ReplyStep(phone, phone', t)
  BY <1>1, <1>2, ActiveWaits, KeptParts DEF RequestThreadDetail, IInv
<1>3. ASSUME NEW t \in Threads, FlushLiveProgress(t) PROVE ReplyStep(phone, phone', t)
  <2> DEFINE q == CancelQueued(phone, t)
  <2>1. phone' = q \/ phone' = SendLiveProgress(q, t, phone.queued[t])
    BY <1>3 DEF FlushLiveProgress
  <2>2. Shaped(phone) /\ KeptBut(q, t, phone.active)
    BY QueueCancelled, KeptParts DEF IInv
  <2>3. SameReplies(phone, q)
    BY <2>2 DEF SameReplies, CancelQueued, Shaped, Fields
  <2> HIDE DEF q
  <2>4. CASE phone' = q
    BY <1>1, <2>3, <2>4
  <2>5. CASE phone' = SendLiveProgress(q, t, phone.queued[t])
    <3>1. Waits(q, phone', t) /\ Shows(phone', t)
      BY <2>2, <2>5, ProgressWaits
    <3>2. Waits(phone, phone', t)
      BY <2>3, <3>1, SameWaits
    <3> QED
      BY <3>1, <3>2, StepParts
  <2> QED
    BY <2>1, <2>4, <2>5
<1>4. ASSUME NEW c \in calls, CallFails(c)
      PROVE  \E u \in Threads : ReplyStep(phone, phone', u)
  <2>1. c.thread \in Threads /\ CallOk(c)
    BY DEF IInv, CallsOk, CallOk
  <2>2. CASE c.kind \in {"reply", "resolve", "send"}
    BY <1>4, <2>1, <2>2, FailedStep DEF CallFails, CallOk
  <2>3. CASE c.kind \notin {"reply", "resolve", "send"}
    BY <1>1, <1>4, <2>1, <2>3 DEF CallFails, SameReplies
  <2> QED
    BY <2>2, <2>3
<1>5. ASSUME NEW t \in Threads,
             \/ TurnStarts(t) \/ \E x \in Answers : ItemCompletes(t, x)
             \/ \E kind \in {"line", "delta"} : Progresses(t, kind)
             \/ \E status \in {"completed", "interrupted"} : TurnEnds(t, status)
      PROVE  UNCHANGED phone
  BY <1>5 DEF TurnStarts, ItemCompletes, Progresses, TurnEnds
<1>6. ASSUME NEW c \in calls, AnswerRead(c) \/ AnswerSend(c) PROVE UNCHANGED phone
  BY <1>6 DEF AnswerRead, AnswerSend
<1>7. CASE PollThreadDetail \/ PollingStops \/ ConnectionLost
  BY <1>7 DEF PollThreadDetail, PollingStops, ConnectionLost
<1> QED
  BY <1>2, <1>3, <1>4, <1>5, <1>6, <1>7, SubmitStep, DeliverStep DEF Next

-----------------------------------------------------------------------------
(***************************************************************************)
(* The screen: what the phone's operators leave of what the watch was sent *)
(* of the active thread.                                                   *)
(***************************************************************************)

\* If thread a is shown, it is shown as it is in the turns, but for a reply that
\* is pending; and it is what the phone remembers to have sent.
ShowsThread(p, a, turns) ==
  p.shown.thread = a =>
    /\ p.body[a] \in {p.shown.body, <<>>}
    /\ p.pending[a] # NoLine \/ p.shown.body = ThreadSections(turns)

\* Memory q shows of thread a what memory p shows of it, or another thread.
Steady(p, q, a) ==
  \/ q.shown.thread # a
  \/ q.shown = p.shown /\ q.body[a] \in {p.body[a], <<>>} /\ q.pending[a] = p.pending[a]

LEMMA SteadyShows ==
  ASSUME NEW p, NEW q, NEW a, NEW turns, Steady(p, q, a), ShowsThread(p, a, turns)
  PROVE  ShowsThread(q, a, turns)
  BY DEF Steady, ShowsThread

\* What is shown of a thread that is read is never empty.
LEMMA SectionsOfRead ==
  ASSUME NEW p, NEW t, NEW turns \in Seq(Turn)
  PROVE  /\ DetailSections(p, t, turns) # <<>>
         /\ LatestInProgressTurn(turns) = 0 =>
              \/ DetailSections(p, t, turns) = ThreadSections(turns)
              \/ p.pending[t] # NoLine /\ ~ThreadHasReplyResult(turns, p.pending[t])
<1> DEFINE x == p.pending[t]
           sections == ThreadSections(turns)
           all == DetailSections(p, t, turns)
<1>1. /\ x # NoLine => all = IF ~UserText(turns, x) THEN <<x, Working>>
                            ELSE IF ~ThreadHasReplyResult(turns, x) THEN Append(sections, Working)
                            ELSE sections
      /\ x = NoLine => all = IF LatestInProgressTurn(turns) # 0 THEN Append(sections, Working)
                            ELSE sections
  BY Zenon DEF DetailSections
<1>2. ThreadHasReplyResult(turns, x) => UserText(turns, x)
  BY DEF ThreadHasReplyResult, UserText
<1>3. sections # <<>>
  <2>1. \A e : (IF e = <<>> THEN <<Empty>> ELSE e) # <<>>
    OBVIOUS
  <2> QED
    BY <2>1, Zenon DEF ThreadSections
<1>4. Append(sections, Working) # <<>> /\ <<x, Working>> # <<>>
  <2>1. sections \in Seq(Line)
    BY SectionsSayItems
  <2> HIDE DEF sections
  <2>2. sections \in Seq(Line \cup {Working})
    BY <2>1, SeqMonotonic
  <2>3. Len(Append(sections, Working)) = Len(sections) + 1 /\ Len(sections) \in Nat
    BY <2>2, AppendProperties
  <2> QED
    BY <2>3
<1> HIDE DEF x, sections, all
<1>5. all # <<>>
  BY <1>1, <1>3, <1>4
<1>6. LatestInProgressTurn(turns) = 0 =>
        all = sections \/ (x # NoLine /\ ~ThreadHasReplyResult(turns, x))
  BY <1>1, <1>2
<1> QED
  BY <1>5, <1>6 DEF x, sections, all

\* What becomes of the reply that is pending when the thread is read.
LEMMA ReconciledPending ==
  ASSUME NEW p, Shaped(p), NEW t \in Threads, NEW turns
  PROVE  LET q == ReconcilePendingReply(p, t, turns)
         IN  /\ q.shown = p.shown /\ q.body = p.body /\ q.cache = p.cache
             /\ ~ThreadHasReplyResult(turns, p.pending[t]) => q.pending[t] = p.pending[t]
  BY DEF ReconcilePendingReply, Shaped, Fields

\* An update shows the thread that was read.
LEMMA UpdateShows ==
  ASSUME NEW p, NEW t \in Threads, NEW a, KeptBut(p, t, a), NEW turns \in Seq(Turn)
  PROVE  LET q == SendDetailUpdate(p, t, turns)
         IN  /\ q.shown.thread = t
             /\ LatestInProgressTurn(turns) = 0 => ShowsThread(q, t, turns)
<1> DEFINE r == CacheThreadDetail(p, t, turns)
           sections == DetailSections(p, t, turns)
           s == SendDetailBody(r, t, r.cache[t].sections)
           q == ReconcilePendingReply(s, t, turns)
<1>1. KeptWith(r, t, a) /\ KeptBut(r, t, a)
  BY Cached, KeptParts
<1>2. Waits(p, r, t) /\ r.cache[t].sections = sections
  BY CachedWaits
<1>3. sections # <<>> /\ IsSeq(sections)
      /\ (LatestInProgressTurn(turns) = 0 =>
            \/ sections = ThreadSections(turns)
            \/ p.pending[t] # NoLine /\ ~ThreadHasReplyResult(turns, p.pending[t]))
  BY SectionsOfRead, SectionsHaveReply
<1>4. SendDetailUpdate(p, t, turns) = q
  <2> HIDE DEF r
  <2>1. SendDetailPage(r, t) = s
    BY <1>2, <1>3 DEF SendDetailPage
  <2> QED
    BY <2>1, Zenon DEF SendDetailUpdate, r
<1> HIDE DEF r, sections
<1>5. /\ KeptWith(s, t, a) /\ Waits(r, s, t) /\ s.shown.thread = t
      /\ s.shown.body = sections /\ s.body[t] = sections
  BY <1>1, <1>2, <1>3, BodySent, BodyWaits
<1> HIDE DEF s
<1>6. /\ q.shown = s.shown /\ q.body = s.body
      /\ ~ThreadHasReplyResult(turns, s.pending[t]) => q.pending[t] = s.pending[t]
  <2>1. Shaped(s)
    BY <1>5, KeptParts
  <2> QED
    BY <2>1, ReconciledPending
<1> HIDE DEF q
<1>7. s.pending[t] = p.pending[t]
  BY <1>2, <1>5 DEF Waits
<1> QED
  BY <1>3, <1>4, <1>5, <1>6, <1>7 DEF ShowsThread

\* A poll shows it, or it is shown already.
LEMMA ChangeShows ==
  ASSUME NEW p, NEW t \in Threads, NEW a, KeptBut(p, t, a), NEW turns \in Seq(Turn),
         LatestInProgressTurn(turns) = 0, ShowsThread(p, t, turns)
  PROVE  ShowsThread(SendDetailUpdateIfChanged(p, t, turns), t, turns)
<1> DEFINE r == CacheThreadDetail(p, t, turns)
           sections == DetailSections(p, t, turns)
           s == ReconcilePendingReply(r, t, turns)
           u == SendDetailBody(s, t, s.cache[t].sections)
           q == SendDetailUpdateIfChanged(p, t, turns)
<1>1. KeptWith(r, t, a) /\ KeptBut(r, t, a)
  BY Cached, KeptParts
<1>2. /\ Waits(p, r, t) /\ r.cache[t].sections = sections
      /\ r.shown = p.shown /\ r.body[t] = p.body[t]
  BY CachedWaits
<1>3. sections # <<>> /\ IsSeq(sections)
      /\ (\/ sections = ThreadSections(turns)
          \/ p.pending[t] # NoLine /\ ~ThreadHasReplyResult(turns, p.pending[t]))
  BY SectionsOfRead, SectionsHaveReply
<1>4. q = IF s.body[t] = s.cache[t].sections THEN s ELSE SendDetailPage(s, t)
  BY Zenon DEF SendDetailUpdateIfChanged
<1> HIDE DEF r, sections, q
<1>5. /\ s.shown = p.shown /\ s.body[t] = p.body[t] /\ s.cache[t].sections = sections
      /\ ~ThreadHasReplyResult(turns, p.pending[t]) => s.pending[t] = p.pending[t]
  <2>1. Shaped(r) /\ r.pending[t] = p.pending[t]
    BY <1>1, <1>2, KeptParts DEF Waits
  <2> QED
    BY <1>2, <2>1, ReconciledPending
<1>6. KeptBut(s, t, a)
  BY <1>1, Reconciled, KeptParts
<1> HIDE DEF s
<1>7. SendDetailPage(s, t) = u
  BY <1>3, <1>5 DEF SendDetailPage
<1>8. u.shown.thread = t /\ u.shown.body = sections /\ u.body[t] = sections
      /\ u.pending[t] = s.pending[t]
  BY <1>3, <1>5, <1>6, BodyWaits DEF Waits
<1> HIDE DEF u
<1>9. CASE s.body[t] = sections
  <2>1. q = s
    BY <1>4, <1>5, <1>9
  <2> QED
    BY <1>3, <1>5, <1>9, <2>1 DEF ShowsThread, q
<1>10. CASE s.body[t] # sections
  <2>1. q = u
    BY <1>4, <1>5, <1>7, <1>10
  <2> QED
    BY <1>3, <1>5, <1>8, <2>1 DEF ShowsThread, q
<1> QED
  BY <1>9, <1>10

-----------------------------------------------------------------------------
(***************************************************************************)
(* What is under way for a thread that is looked at: calls, answers and    *)
(* notifications.                                                          *)
(***************************************************************************)
\* Calls whose answers show the thread as it was read.
Fetching == {"resume", "detail", "refresh"}

Running(turns) == LatestInProgressTurn(turns) # 0

\* A message that brings thread a as it is in the turns, or has it read again.
Brings(m, a, turns) ==
  m.kind = "ended" \/ (m.kind \in Fetching /\ m.thread = a /\ m.turns = turns)

\* A message that changes what is shown of thread a into something else.
Stirs(m, a, turns) ==
  \/ m.kind \in {"started", "item"}
  \/ m.kind \in Fetching \cup {"poll"} /\ m.thread = a /\ m.turns # turns

Brought(w, a, turns) == \E i \in DOMAIN w : Brings(w[i], a, turns)

\* After each message that stirs comes one that brings.
Followed(w, a, turns) ==
  \A i \in DOMAIN w : Stirs(w[i], a, turns) => \E j \in DOMAIN w : j > i /\ Brings(w[j], a, turns)

Fetched(cs, a) == \E c \in cs : c.kind \in Fetching /\ c.thread = a

Resuming(cs, a) == Call("resume", a, NoLine, 0, "asked") \in cs

\* A message more that does not stir, or one that brings.
LEMMA FollowedMore ==
  ASSUME NEW w, IsSeq(w), NEW m, NEW a, NEW turns
  PROVE  LET v == Append(w, m)
         IN  /\ Brought(w, a, turns) => Brought(v, a, turns)
             /\ Followed(w, a, turns) /\ ~Stirs(m, a, turns) => Followed(v, a, turns)
             /\ Brings(m, a, turns) => Brought(v, a, turns) /\ Followed(v, a, turns)
             /\ w \o <<m>> = v /\ v \o <<>> = v /\ IsSeq(v)
<1> DEFINE v == Append(w, m)
           n == Len(w) + 1
<1>1. PICK S : w \in Seq(S)
  BY DEF IsSeq
<1>2. w \in Seq(S \cup {m})
  BY <1>1, SeqMonotonic
<1>3. /\ v \in Seq(S \cup {m}) /\ DOMAIN v = 1..n /\ v[n] = m /\ n \in Nat
      /\ DOMAIN w = 1..(n - 1) /\ \A i \in DOMAIN w : v[i] = w[i]
  BY <1>2, AppendProperties
<1>4. w \o <<m>> = v /\ v \o <<>> = v
  BY <1>2, <1>3, AppendIsConcat, ConcatEmptySeq
<1> HIDE DEF v, n
<1>5. IsSeq(v)
  BY <1>3, Zenon DEF IsSeq
<1>6. Brings(m, a, turns) => ~Stirs(m, a, turns)
  BY DEF Brings, Stirs, Fetching
<1>7. Brought(w, a, turns) => Brought(v, a, turns)
  BY <1>3 DEF Brought
<1>8. Followed(w, a, turns) /\ ~Stirs(m, a, turns) => Followed(v, a, turns)
  BY <1>3 DEF Followed
<1>9. ASSUME Brings(m, a, turns) PROVE Brought(v, a, turns) /\ Followed(v, a, turns)
  <2>1. n \in DOMAIN v /\ Brings(v[n], a, turns) /\ ~Stirs(v[n], a, turns)
    <3>1. n \in 1..n
      BY <1>2 DEF n
    <3> QED
      BY <1>3, <1>6, <1>9, <3>1
  <2>2. \A i \in DOMAIN v : i = n \/ n > i
    BY <1>3
  <2>3. Followed(v, a, turns)
    BY <2>1, <2>2 DEF Followed
  <2> QED
    BY <2>1, <2>3 DEF Brought
<1> QED
  BY <1>4, <1>5, <1>7, <1>8, <1>9 DEF v

\* A message that arrives.
LEMMA FollowedRest ==
  ASSUME NEW w, IsSeq(w), w # <<>>, NEW a, NEW turns
  PROVE  /\ Followed(w, a, turns) => Followed(Tail(w), a, turns)
         /\ Followed(w, a, turns) /\ Stirs(Head(w), a, turns) => Brought(Tail(w), a, turns)
         /\ Brought(w, a, turns) => Brings(Head(w), a, turns) \/ Brought(Tail(w), a, turns)
<1> DEFINE v == Tail(w)
           m == Head(w)
<1>1. PICK S : w \in Seq(S)
  BY DEF IsSeq
<1>2. /\ Len(w) \in Nat \ {0} /\ DOMAIN w = 1..Len(w) /\ m = w[1]
      /\ v \in Seq(S) /\ Len(v) = Len(w) - 1 /\ \A i \in 1..Len(v) : v[i] = w[i + 1]
  BY <1>1, HeadTailProperties, EmptySeq
<1>3. DOMAIN v = 1..(Len(w) - 1)
  BY <1>2
<1> HIDE DEF v, m
<1>4. \A j \in DOMAIN w : j > 1 => j - 1 \in DOMAIN v /\ v[j - 1] = w[j]
  <2> SUFFICES ASSUME NEW j \in 1..Len(w), j > 1 PROVE j - 1 \in DOMAIN v /\ v[j - 1] = w[j]
    BY <1>2
  <2>1. j - 1 \in 1..Len(v) /\ (j - 1) + 1 = j
    BY <1>2
  <2>2. v[j - 1] = w[(j - 1) + 1]
    BY <1>2, <2>1
  <2> QED
    BY <1>2, <1>3, <2>1, <2>2
<1>5. ASSUME Followed(w, a, turns) PROVE Followed(v, a, turns)
  <2> SUFFICES ASSUME NEW i \in DOMAIN v, Stirs(v[i], a, turns)
               PROVE  \E j \in DOMAIN v : j > i /\ Brings(v[j], a, turns)
    BY DEF Followed
  <2>1. i + 1 \in DOMAIN w /\ v[i] = w[i + 1] /\ i \in Nat
    BY <1>2, <1>3
  <2>2. PICK j \in DOMAIN w : j > i + 1 /\ Brings(w[j], a, turns)
    BY <1>5, <2>1 DEF Followed
  <2>3. j - 1 \in DOMAIN v /\ v[j - 1] = w[j] /\ j - 1 > i
    BY <1>2, <1>4, <2>1, <2>2
  <2> QED
    BY <2>2, <2>3
<1>6. ASSUME Followed(w, a, turns), Stirs(m, a, turns) PROVE Brought(v, a, turns)
  <2>1. 1 \in DOMAIN w
    BY <1>2
  <2>2. PICK j \in DOMAIN w : j > 1 /\ Brings(w[j], a, turns)
    BY <1>2, <1>6, <2>1 DEF Followed
  <2> QED
    BY <1>4, <2>2 DEF Brought
<1>7. ASSUME Brought(w, a, turns) PROVE Brings(m, a, turns) \/ Brought(v, a, turns)
  <2>1. PICK j \in DOMAIN w : Brings(w[j], a, turns)
    BY <1>7 DEF Brought
  <2>2. j = 1 \/ j > 1
    BY <1>2
  <2> QED
    BY <1>2, <1>4, <2>1, <2>2 DEF Brought
<1> QED
  BY <1>5, <1>6, <1>7 DEF v, m

\* What runDetailRequest makes of the calls and the client.
LEMMA RunFetches ==
  ASSUME NEW p, NEW k \in {"none", "setup", "resumed", "open"}, NEW cs, NEW c, Run(p, k, cs, c)
  PROVE  /\ client' = IF k = "none" THEN "setup" ELSE k
         /\ cs \subseteq calls'
         /\ k = "none" => Resuming(calls', c.thread)
         /\ CallOk(c) /\ c.kind \in Fetching => Fetched(calls', c.thread)
<1>1. CallOk(c) /\ c.kind \in Fetching =>
        Asked(p, c).kind = c.kind /\ Asked(p, c).thread = c.thread
  BY DEF Asked, CallOk, Fetching
<1>2. Asked(p, c) \in calls' \/ c \in calls'
  BY DEF Run
<1>3. CallOk(c) /\ c.kind \in Fetching => Fetched(calls', c.thread)
  BY <1>1, <1>2 DEF Fetched
<1> QED
  BY <1>3 DEF Run, Resuming

\* The thread is fetched while it is resumed; calls that are added, and calls
\* that are asked, leave what is fetched.
LEMMA FetchedParts ==
  ASSUME NEW cs, NEW a
  PROVE  /\ Resuming(cs, a) => Fetched(cs, a)
         /\ \A ds : cs \subseteq ds => (Fetched(cs, a) => Fetched(ds, a))
                                    /\ (Resuming(cs, a) => Resuming(ds, a))
  BY DEF Resuming, Fetched, Fetching, Call

-----------------------------------------------------------------------------
(***************************************************************************)
(* The inductive invariant of the screen.  A client that is connected has  *)
(* a call that resumes its thread; one that hears the app-server hears of  *)
(* the end of each turn.  So what is under way brings the active thread as *)
(* the app-server has it, or that is what is shown.                        *)
(***************************************************************************)
\* What is under way for thread a brings the turns, or they are shown.
Comes(cs, w, p, a, turns) ==
  Running(turns) \/ Fetched(cs, a) \/ Brought(w, a, turns) \/ ShowsThread(p, a, turns)

QInv ==
  /\ client \in {"none", "setup", "resumed", "open"}
  /\ client # "none" => phone.active \in Threads
  /\ client = "setup" => Resuming(calls, phone.active)
  /\ client \in {"resumed", "open"} =>
       Running(server[phone.active]) \/ Followed(wire, phone.active, server[phone.active])
  /\ excused = {} /\ phone.active # NoThread =>
       client # "none" /\ Comes(calls, wire, phone, phone.active, server[phone.active])

LEMMA InitQInv == Init => QInv
  BY DEF Init, QInv

\* The user looks at a thread: the one that is shown, or one that is resumed.
LEMMA LookAtQInv ==
  ASSUME IInv, QInv, NEW t \in Threads, NEW c, c.thread = t, CallOk(c), phone'.active = t,
         LookAt(t, phone', c), UNCHANGED server,
         t = phone.active => phone' = phone \/ ShowsThread(phone', t, server[t])
  PROVE  QInv'
<1>1. CASE t = phone.active
  <2>1. Run(phone', client, calls, c) /\ UNCHANGED <<wire, excused>>
    BY <1>1 DEF LookAt
  <2>2. /\ client' = IF client = "none" THEN "setup" ELSE client
        /\ calls \subseteq calls' /\ (client = "none" => Resuming(calls', t))
    BY <2>1, RunFetches DEF QInv
  <2>3. client' = "setup" => Resuming(calls', t)
    BY <1>1, <2>2, FetchedParts DEF QInv
  <2>4. excused' = {} => Comes(calls', wire, phone', t, server[t])
    <3> SUFFICES ASSUME excused = {} PROVE Comes(calls', wire, phone', t, server[t])
      BY <2>1
    <3>1. Comes(calls, wire, phone, t, server[t])
      BY <1>1, NoThreadAssumption DEF QInv
    <3> QED
      BY <1>1, <2>2, <3>1, FetchedParts DEF Comes
  <2> QED
    BY <1>1, <2>1, <2>2, <2>3, <2>4 DEF QInv
<1>2. CASE t # phone.active
  <2>1. PICK cs \in (IF client = "setup" THEN Abandoned ELSE {calls}) : Run(phone', "none", cs, c)
    BY <1>2 DEF LookAt
  <2>2. client' = "setup" /\ Resuming(calls', t)
    BY <2>1, RunFetches
  <2>3. Fetched(calls', t)
    BY <2>2, FetchedParts
  <2> QED
    BY <2>2, <2>3 DEF QInv, Comes
<1> QED
  BY <1>1, <1>2

LEMMA RequestQInv ==
  ASSUME IInv, QInv, NEW t \in Threads, RequestThreadDetail(t)
  PROVE  QInv'
<1> DEFINE c == Call("detail", t, NoLine, 0, "setup")
<1>1. Kept(phone', t)
  BY ActiveSet DEF RequestThreadDetail, IInv
<1>2. phone'.active = t
  BY <1>1, KeptParts
<1>3. CallOk(c) /\ c.thread = t
  <2>1. c.thread = t
    BY DEF Call
  <2> QED
    BY <2>1, CallIsOk, Zenon
<1>4. t = phone.active => phone' = phone
  BY DEF RequestThreadDetail, SetActiveDetailThread
<1>5. LookAt(t, phone', c) /\ UNCHANGED server
  BY DEF RequestThreadDetail
<1> HIDE DEF c
<1> QED
  BY <1>2, <1>3, <1>4, <1>5, LookAtQInv

LEMMA ReplyQInv ==
  ASSUME IInv, QInv, NEW t \in Threads, NEW x \in Texts, SubmitReply(t, x)
  PROVE  QInv'
<1> DEFINE c == Call("reply", t, x, 0, "setup")
           p == SetActiveDetailThread(phone, t)
           q == [p EXCEPT !.pending[t] = x]
           body == <<x, Working>>
<1>1. KeptBut(p, t, t) /\ Shaped(p)
  BY ActiveSet, KeptParts DEF IInv
<1>2. phone' = SendDetailBody(q, t, body)
  BY Zenon DEF SubmitReply
<1> HIDE DEF p
<1>3. SameBut(p, q, t) /\ q.pending[t] = x
  BY <1>1 DEF SameBut, Shaped, Fields
<1>4. KeptBut(q, t, t) /\ IsSeq(body)
  BY <1>1, <1>3, SameKept, ShortSeqs
<1> HIDE DEF q, body
<1>5. /\ phone'.shown.thread = t /\ phone'.shown.body = body /\ phone'.body[t] = body
      /\ phone'.pending[t] = x
  BY <1>2, <1>3, <1>4, BodyWaits DEF Waits
<1>6. KeptWith(phone', t, t)
  BY <1>2, <1>4, BodySent
<1>7. phone'.active = t
  BY <1>6, KeptParts
<1>8. ShowsThread(phone', t, server[t])
  BY <1>5, TextsAssumption DEF ShowsThread
<1>9. CallOk(c) /\ c.thread = t
  <2>1. c.thread = t
    BY DEF Call
  <2> QED
    BY <2>1, CallIsOk, Zenon
<1>10. LookAt(t, phone', c) /\ UNCHANGED server
  BY DEF SubmitReply
<1> HIDE DEF c
<1> QED
  BY <1>7, <1>8, <1>9, <1>10, LookAtQInv

\* What an action of the app-server may do: thread t changes, and runs if it is
\* the one that is shown; or a message more that does not stir is sent.
LEMMA RunsQInv ==
  ASSUME QInv, UNCHANGED <<phone, client, excused>>, IsSeq(wire),
         phone.active \in Threads => Running(server'[phone.active])
                                    \/ server'[phone.active] = server[phone.active],
         \/ wire' = wire
         \/ Running(server'[phone.active])
         \/ \E m : wire' = Append(wire, m) /\ ~Stirs(m, phone.active, server[phone.active]),
         Fetched(calls, phone.active) => Fetched(calls', phone.active),
         Resuming(calls, phone.active) => Resuming(calls', phone.active)
  PROVE  QInv'
<1> DEFINE a == phone.active
<1>1. CASE a \notin Threads
  BY <1>1 DEF QInv
<1>2. CASE a \in Threads /\ Running(server'[a])
  BY <1>2 DEF QInv, Comes
<1>3. CASE a \in Threads /\ ~Running(server'[a])
  <2>1. /\ Followed(wire, a, server[a]) => Followed(wire', a, server[a])
        /\ Brought(wire, a, server[a]) => Brought(wire', a, server[a])
    BY <1>3, FollowedMore
  <2> QED
    BY <1>3, <2>1 DEF QInv, Comes
<1> QED
  BY <1>1, <1>2, <1>3

LEMMA WireIsSeq == IInv => IsSeq(wire)
  BY Zenon DEF IInv, WireOk, IsSeq

LEMMA TurnStartsQInv ==
  ASSUME IInv, QInv, NEW t \in Threads, TurnStarts(t)
  PROVE  QInv'
<1> DEFINE turn == [items |-> <<>>, status |-> "inProgress"]
           turns == Append(server[t], turn)
           a == phone.active
<1>1. /\ server' = [server EXCEPT ![t] = turns]
      /\ UNCHANGED <<phone, client, calls, excused>> /\ IsSeq(wire)
  BY WireIsSeq DEF TurnStarts
<1>2. turn \in Turn /\ server[t] \in Seq(Turn) /\ turn.status = "inProgress"
  <2>1. <<>> \in Seq(Texts \cup Answers)
    OBVIOUS
  <2> QED
    BY <2>1, TurnParts DEF IInv
<1> HIDE DEF turn
<1>3. /\ turns \in Seq(Turn) /\ Len(server[t]) + 1 \in DOMAIN turns
      /\ turns[Len(server[t]) + 1].status = "inProgress"
  BY <1>2, AppendProperties
<1> HIDE DEF turns
<1>4. Running(turns)
  BY <1>3, SomeTurnRuns DEF Running
<1>5. CASE t = a
  <2>1. Running(server'[a])
    BY <1>1, <1>4, <1>5 DEF IInv
  <2> QED
    BY <1>1, <2>1, RunsQInv DEF QInv
<1>6. CASE t # a
  <2>1. a \in Threads => server'[a] = server[a]
    BY <1>1, <1>6 DEF IInv
  <2>2. wire' = wire
    BY <1>6 DEF TurnStarts, Notify
  <2> QED
    BY <1>1, <2>1, <2>2, RunsQInv DEF QInv
<1> QED
  BY <1>5, <1>6

\* A turn that gets an item goes on.
LEMMA ItemRuns ==
  ASSUME IInv, NEW t \in Threads, NEW x, Running(server[t]),
         server' = [server EXCEPT ![t][LatestInProgressTurn(server[t])].items = Append(@, x)],
         server'[t] \in Seq(Turn)
  PROVE  Running(server'[t]) /\ \A a \in Threads \ {t} : server'[a] = server[a]
<1> DEFINE i == LatestInProgressTurn(server[t])
           turn == [server[t][i] EXCEPT !.items = Append(@, x)]
<1>1. server[t] \in Seq(Turn) /\ i \in DOMAIN server[t] /\ server[t][i].status = "inProgress"
  BY RunningTurn DEF IInv, Running
<1>2. server' = [server EXCEPT ![t] = [server[t] EXCEPT ![i] = turn]]
  OBVIOUS
<1> HIDE DEF i
<1>3. turn.status = "inProgress"
  BY <1>1 DEF Turn
<1> HIDE DEF turn
<1>4. /\ server'[t] = [server[t] EXCEPT ![i] = turn]
      /\ \A a \in Threads \ {t} : server'[a] = server[a]
  BY <1>2 DEF IInv
<1>5. i \in DOMAIN server'[t] /\ server'[t][i] = turn
  BY <1>1, <1>4
<1> QED
  BY <1>3, <1>4, <1>5, SomeTurnRuns DEF Running

LEMMA ItemCompletesQInv ==
  ASSUME IInv, QInv, NEW t \in Threads, NEW x \in Answers, ItemCompletes(t, x)
  PROVE  QInv'
<1> DEFINE a == phone.active
<1>1. UNCHANGED <<phone, client, calls, excused>> /\ Running(server[t]) /\ IsSeq(wire)
  BY WireIsSeq DEF ItemCompletes, Running
<1>2. server' \in [Threads -> Seq(Turn)]
  BY ItemAdded DEF ItemCompletes
<1>3. Running(server'[t]) /\ (a \in Threads \ {t} => server'[a] = server[a])
  BY <1>1, <1>2, ItemRuns DEF ItemCompletes
<1>4. t # a => wire' = wire
  BY DEF ItemCompletes, Notify
<1> QED
  BY <1>1, <1>3, <1>4, RunsQInv DEF QInv

LEMMA ProgressesQInv ==
  ASSUME IInv, QInv, NEW t \in Threads, NEW kind \in {"line", "delta"}, Progresses(t, kind)
  PROVE  QInv'
<1> DEFINE m == Message(kind, t, <<>>, NoLine)
           a == phone.active
<1>1. UNCHANGED <<server, phone, client, calls, excused>> /\ IsSeq(wire)
  BY WireIsSeq DEF Progresses
<1>2. ~Stirs(m, a, server[a])
  BY DEF Stirs, Message, Fetching
<1>3. wire' = wire \/ wire' = wire \o <<m>>
  BY DEF Progresses, Notify
<1> HIDE DEF m
<1>4. wire' = wire \/ wire' = Append(wire, m)
  BY <1>1, <1>3, FollowedMore
<1> QED
  BY <1>1, <1>2, <1>4, RunsQInv DEF QInv

\* The client that is resumed hears of the end; one that connects reads the
\* thread when it is resumed.
LEMMA TurnEndsQInv ==
  ASSUME IInv, QInv, NEW t \in Threads, NEW status \in {"completed", "interrupted"},
         TurnEnds(t, status)
  PROVE  QInv'
<1> DEFINE a == phone.active
<1>1. UNCHANGED <<phone, client, calls, excused>> /\ IsSeq(wire)
  BY WireIsSeq DEF TurnEnds
<1>2. CASE t # a
  <2>1. (a \in Threads => server'[a] = server[a]) /\ wire' = wire
    BY <1>2 DEF TurnEnds, Notify, IInv
  <2> QED
    BY <1>1, <2>1, RunsQInv DEF QInv
<1>3. CASE t = a
  <2>1. PICK turns : Notify(t, <<Message("ended", t, turns, NoLine)>>)
    BY DEF TurnEnds
  <2> DEFINE m == Message("ended", t, turns, NoLine)
  <2>2. m.kind = "ended"
    BY DEF Message
  <2>3. client \in {"resumed", "open"} => wire' = wire \o <<m>>
    BY <1>3, <2>1 DEF Notify
  <2> HIDE DEF m
  <2>4. client \in {"resumed", "open"} =>
          Followed(wire', a, server'[a]) /\ Brought(wire', a, server'[a])
    BY <1>1, <2>2, <2>3, FollowedMore DEF Brings
  <2>5. client = "setup" => Fetched(calls, a)
    BY FetchedParts DEF QInv
  <2> QED
    BY <1>1, <2>4, <2>5 DEF QInv, Comes
<1> QED
  BY <1>2, <1>3

\* The thread that is read arrives as it is now, but for the turns that end
\* until then.
LEMMA AnswerReadQInv ==
  ASSUME IInv, QInv, NEW c \in calls, AnswerRead(c)
  PROVE  QInv'
<1> DEFINE m == Message(c.kind, c.thread, server[c.thread], c.text)
           a == phone.active
           now == server[a]
<1>1. /\ UNCHANGED <<server, phone, excused>> /\ calls' = calls \ {c} /\ IsSeq(wire)
      /\ wire' = Append(wire, m)
      /\ client' = IF c.kind = "resume" /\ c.thread = a /\ client = "setup"
                   THEN "resumed" ELSE client
  BY WireIsSeq DEF AnswerRead
<1>2. m.kind = c.kind /\ m.thread = c.thread /\ m.turns = server[c.thread]
      /\ c.kind \in {"resume", "detail", "poll", "refresh", "resolve"}
  BY DEF AnswerRead, Message
<1> HIDE DEF m
<1>3. ~Stirs(m, a, now) /\ (c.kind \in Fetching /\ c.thread = a => Brings(m, a, now))
  BY <1>2 DEF Stirs, Brings
<1> HIDE DEF now
<1>4. /\ Followed(wire, a, now) => Followed(wire', a, now)
      /\ Brought(wire, a, now) => Brought(wire', a, now)
      /\ Brings(m, a, now) => Brought(wire', a, now) /\ Followed(wire', a, now)
  BY <1>1, <1>3, FollowedMore
<1>5. Fetched(calls, a) => Fetched(calls', a) \/ Brought(wire', a, now)
  BY <1>1, <1>3, <1>4 DEF Fetched
<1>6. client' = "setup" => Resuming(calls', a)
  BY <1>1 DEF QInv, Resuming, Call
<1>7. client' = "resumed" /\ client = "setup" => Followed(wire', a, now) /\ Brought(wire', a, now)
  BY <1>1, <1>3, <1>4 DEF Fetching
<1> QED
  BY <1>1, <1>4, <1>5, <1>6, <1>7 DEF QInv, Comes, now

\* A reply that is taken is in a turn that runs.
LEMMA AnswerSendQInv ==
  ASSUME IInv, QInv, NEW c \in calls, AnswerSend(c)
  PROVE  QInv'
<1> DEFINE t == c.thread
           a == phone.active
           sent == Message("sent", t, <<>>, c.text)
           refused == Message("refused", t, <<>>, c.text)
           item == Message("item", t, <<>>, c.text)
           started == Message("started", t, <<>>, NoLine)
           running == LatestInProgressTurn(server[t])
           told == t = a /\ client \in {"resumed", "open"}
           turn == [items |-> <<c.text>>, status |-> "inProgress"]
<1>1. /\ UNCHANGED <<phone, client, excused>> /\ calls' = calls \ {c} /\ c.kind = "send"
      /\ IsSeq(wire) /\ c.text \in Texts /\ t \in Threads
  BY WireIsSeq DEF AnswerSend, IInv, CallsOk, CallOk
<1>2. /\ Fetched(calls, a) => Fetched(calls', a)
      /\ Resuming(calls, a) => Resuming(calls', a)
  BY <1>1 DEF Fetched, Fetching, Resuming, Call
<1>3. ~Stirs(sent, a, server[a]) /\ ~Stirs(refused, a, server[a])
  BY DEF Stirs, Message, Fetching
<1>4. \/ /\ running # 0
         /\ server' = [server EXCEPT ![t][running].items = Append(@, c.text)]
         /\ wire' = wire \o <<sent>> \o (IF told THEN <<item>> ELSE <<>>)
      \/ /\ server' = [server EXCEPT ![t] = Append(@, turn)]
         /\ wire' = wire \o <<sent>> \o (IF told THEN <<started>> \o <<item>> ELSE <<>>)
      \/ UNCHANGED server /\ wire' = Append(wire, refused)
  BY DEF AnswerSend
<1>5. \/ Running(server'[t]) /\ \A u \in Threads \ {t} : server'[u] = server[u]
      \/ UNCHANGED server /\ wire' = Append(wire, refused)
  <2>1. CASE running # 0 /\ server' = [server EXCEPT ![t][running].items = Append(@, c.text)]
    <3>1. server' \in [Threads -> Seq(Turn)]
      BY <1>1, <2>1, ItemAdded
    <3> QED
      BY <1>1, <2>1, <3>1, ItemRuns DEF Running
  <2>2. CASE server' = [server EXCEPT ![t] = Append(@, turn)]
    <3> DEFINE turns == Append(server[t], turn)
    <3>1. turn \in Turn /\ server[t] \in Seq(Turn) /\ turn.status = "inProgress"
      <4>1. <<c.text>> \in Seq(Texts \cup Answers)
        BY <1>1
      <4> QED
        BY <1>1, <4>1, TurnParts DEF IInv
    <3> HIDE DEF turn
    <3>2. /\ turns \in Seq(Turn) /\ Len(server[t]) + 1 \in DOMAIN turns
          /\ turns[Len(server[t]) + 1].status = "inProgress"
      BY <3>1, AppendProperties
    <3>3. server'[t] = turns /\ \A u \in Threads \ {t} : server'[u] = server[u]
      BY <1>1, <2>2 DEF IInv
    <3> HIDE DEF turns
    <3> QED
      BY <3>2, <3>3, SomeTurnRuns DEF Running
  <2> QED
    BY <1>4, <2>1, <2>2
<1> HIDE DEF sent, refused, item, started, turn
<1>6. CASE t = a /\ Running(server'[t])
  BY <1>1, <1>2, <1>6, RunsQInv
<1>7. CASE t # a \/ (UNCHANGED server /\ wire' = Append(wire, refused))
  <2>1. wire' = Append(wire, refused) \/ wire' = Append(wire, sent)
    <3>1. wire \o <<sent>> = Append(wire, sent) /\ Append(wire, sent) \o <<>> = Append(wire, sent)
      BY <1>1, FollowedMore
    <3> QED
      BY <1>4, <1>7, <3>1
  <2>2. a \in Threads => server'[a] = server[a]
    BY <1>5, <1>7
  <2> QED
    BY <1>1, <1>2, <1>3, <2>1, <2>2, RunsQInv
<1> QED
  BY <1>5, <1>6, <1>7

-----------------------------------------------------------------------------
(***************************************************************************)
(* The phone: timers and failures.                                         *)
(***************************************************************************)

\* A line that is shown late is an excuse; one of another thread is not shown.
LEMMA FlushQInv ==
  ASSUME IInv, QInv, NEW t \in Threads, FlushLiveProgress(t)
  PROVE  QInv'
<1> DEFINE a == phone.active
<1>1. /\ UNCHANGED <<server, client, calls, wire>> /\ phone'.active = a
      /\ excused' = IF ~Running(server[t]) THEN excused \cup {"late"} ELSE excused
  BY FlushIInv DEF FlushLiveProgress, Running
<1>2. t = a \/ Steady(phone, phone', a)
  <2>1. Shaped(phone)
    BY KeptParts DEF IInv
  <2>2. t = a \/ phone' = CancelQueued(phone, t)
    BY DEF FlushLiveProgress
  <2> QED
    BY <2>1, <2>2 DEF CancelQueued, Steady, Shaped, Fields
<1>3. Steady(phone, phone', a) => (ShowsThread(phone, a, server[a]) => ShowsThread(phone', a, server[a]))
  BY SteadyShows
<1> QED
  BY <1>1, <1>2, <1>3 DEF QInv, Comes

LEMMA PollQInv ==
  ASSUME IInv, QInv, PollThreadDetail \/ PollingStops
  PROVE  QInv'
<1>1. CASE PollThreadDetail
  <2> DEFINE c == Call("poll", phone.active, NoLine, 0, "setup")
  <2>1. /\ UNCHANGED <<server, phone, wire, excused>> /\ Run(phone, client, calls, c)
        /\ phone.active \in Threads /\ c.thread = phone.active
    BY <1>1 DEF PollThreadDetail, IInv, Call
  <2> HIDE DEF c
  <2>2. /\ client' = IF client = "none" THEN "setup" ELSE client
        /\ calls \subseteq calls' /\ (client = "none" => Resuming(calls', phone.active))
    BY <2>1, RunFetches DEF QInv
  <2>3. /\ Fetched(calls, phone.active) => Fetched(calls', phone.active)
        /\ Resuming(calls, phone.active) => Resuming(calls', phone.active)
    BY <2>2, FetchedParts
  <2> QED
    BY <2>1, <2>2, <2>3 DEF QInv, Comes
<1>2. CASE PollingStops
  BY <1>2 DEF PollingStops, QInv
<1> QED
  BY <1>1, <1>2

\* A call about another thread that fails shows that thread at most.
LEMMA FailureQInv ==
  ASSUME IInv, QInv, NEW c \in calls, CallFails(c)
  PROVE  QInv'
<1> DEFINE a == phone.active
<1>1. /\ UNCHANGED <<server, wire>> /\ phone'.active = a
      /\ c.thread \in Threads /\ KeptBut(phone, c.thread, a)
  BY FailureIInv, KeptParts DEF CallFails, IInv, CallsOk, CallOk
<1>2. /\ excused' = IF c.thread = a THEN excused \cup {"failed"} ELSE excused
      /\ client' = IF c.kind = "resume" /\ c.step = "asked" /\ c.thread = a
                   THEN "none" ELSE client
  BY DEF CallFails, FailedFor
<1>3. /\ client' = "setup" => Resuming(calls', a)
      /\ c.thread # a /\ Fetched(calls, a) => Fetched(calls', a)
  <2>1. \A d \in calls \ {c} : d.step # "setup" \/ d.thread # c.thread => d \in calls'
    BY DEF CallFails
  <2> DEFINE r == Call("resume", a, NoLine, 0, "asked")
  <2>2. r.kind = "resume" /\ r.thread = a /\ r.step = "asked"
    BY DEF Call
  <2> HIDE DEF r
  <2>3. client # "none" /\ client' = client /\ r \in calls => r \in calls'
    BY <1>2, <2>1, <2>2
  <2>4. c.thread # a /\ Fetched(calls, a) => Fetched(calls', a)
    BY <2>1 DEF Fetched
  <2> QED
    BY <1>2, <2>3, <2>4 DEF QInv, Resuming, r
<1>4. c.thread # a => Steady(phone, phone', a)
  <2>1. phone' = phone \/ phone' = SendDetailBody(phone, c.thread, <<c.text, Failed>>)
    BY DEF CallFails, ReplyFailed
  <2>2. SendDetailBody(phone, c.thread, <<c.text, Failed>>).shown.thread = c.thread
    BY <1>1, BodyWaits
  <2> QED
    BY <2>1, <2>2 DEF Steady
<1>5. c.thread # a /\ ShowsThread(phone, a, server[a]) => ShowsThread(phone', a, server[a])
  BY <1>4, SteadyShows
<1> QED
  BY <1>1, <1>2, <1>3, <1>5 DEF QInv, Comes

LEMMA ConnectionQInv ==
  ASSUME QInv, ConnectionLost
  PROVE  QInv'
  BY DEF ConnectionLost, QInv

-----------------------------------------------------------------------------
(***************************************************************************)
(* The messages that reach the phone.                                      *)
(***************************************************************************)

\* What is fetched is fetched until it arrives, and a turn that ended has the
\* thread read.
LEMMA DeliverFetches ==
  ASSUME IInv, QInv, Deliver
  PROVE  /\ \/ client' = client
            \/ client = "resumed" /\ client' = "open"
            \/ client = "none" /\ client' = "setup" /\ phone.active \in Threads
         /\ client' = "setup" => Resuming(calls', phone.active)
         /\ Fetched(calls, phone.active) => Fetched(calls', phone.active)
         /\ Head(wire).kind = "ended" => Fetched(calls', phone.active)
         /\ UNCHANGED server
         /\ excused' = {} =>
              \/ excused = {}
              \/ /\ Head(wire).kind \in Fetching /\ Head(wire).thread = phone.active
                 /\ client # "none"
<1> DEFINE m == Head(wire)
           t == m.thread
           a == phone.active
<1>0. excused' = {} => excused = {} \/ (m.kind \in Fetching /\ t = a /\ client # "none")
  BY DEF Deliver, Resumed, DetailRead, Polled, Refreshed, Resolved, Sent, HandleTurnCompleted,
         Notified, Excused, FailedFor, Fetching
<1>1. MessageOk(m, a, server)
  BY MessageTaken DEF Deliver, IInv
<1>2. UNCHANGED server
  BY DEF Deliver, Resumed, DetailRead, Polled, Refreshed, Resolved, Sent, HandleTurnCompleted,
         Notified
<1>3. CASE m.kind = "resume"
  <2>1. /\ client' = client \/ (client = "resumed" /\ client' = "open")
        /\ \A c \in calls : c \in calls' \/ (c.step = "setup" /\ Asked(phone', c) \in calls')
    <3>1. Resumed(t, m.turns)
      BY <1>3 DEF Deliver
    <3> DEFINE Next1(c) == IF c.thread = t /\ c.step = "setup" THEN Asked(phone', c) ELSE c
    <3>2. calls' = {Next1(c) : c \in calls}
      BY <3>1, Zenon DEF Resumed
    <3>3. client' = client \/ (client = "resumed" /\ client' = "open")
      BY <3>1 DEF Resumed
    <3>4. \A c \in calls : Next1(c) \in calls'
      <4> HIDE DEF Next1
      <4> QED
        BY <3>2
    <3> QED
      BY <3>3, <3>4
  <2>2. \A c \in calls : c.kind \in Fetching =>
          Asked(phone', c).kind = c.kind /\ Asked(phone', c).thread = c.thread
    BY DEF Asked, Fetching, IInv, CallsOk, CallOk
  <2>3. Fetched(calls, a) => Fetched(calls', a)
    BY <2>1, <2>2 DEF Fetched
  <2>4. Resuming(calls, a) => Resuming(calls', a)
    BY <2>1 DEF Resuming, Call
  <2> QED
    BY <1>0, <1>2, <1>3, <2>1, <2>3, <2>4 DEF QInv
<1>4. CASE m.kind = "ended"
  <2> DEFINE c == Call("refresh", t, NoLine, 0, "setup")
  <2>1. Run(phone', client, calls, c)
    BY <1>4 DEF Deliver, HandleTurnCompleted
  <2>2. t = a /\ a \in Threads
    BY <1>1, <1>4 DEF MessageOk, Answered
  <2>3. CallOk(c) /\ c.thread = a /\ c.kind \in Fetching
    <3>1. c.thread = a /\ c.kind = "refresh"
      BY <2>2 DEF Call
    <3>2. CallOk(c)
      BY <2>2, CallIsOk
    <3> QED
      BY <3>1, <3>2 DEF Fetching
  <2> HIDE DEF c
  <2>4. /\ client' = IF client = "none" THEN "setup" ELSE client
        /\ calls \subseteq calls' /\ (client = "none" => Resuming(calls', a))
        /\ Fetched(calls', a)
    BY <2>1, <2>3, RunFetches DEF QInv
  <2>5. Resuming(calls, a) => Resuming(calls', a)
    BY <2>4, FetchedParts
  <2> QED
    BY <1>0, <1>2, <2>2, <2>4, <2>5 DEF QInv
<1>5. CASE m.kind \notin {"resume", "ended"}
  <2>1. client' = client /\ calls \subseteq calls'
    BY <1>5 DEF Deliver, DetailRead, Polled, Refreshed, Resolved, Sent, Notified
  <2>2. /\ Resuming(calls, a) => Resuming(calls', a)
        /\ Fetched(calls, a) => Fetched(calls', a)
    BY <2>1, FetchedParts
  <2> QED
    BY <1>0, <1>2, <1>5, <2>1, <2>2 DEF QInv
<1> QED
  BY <1>3, <1>4, <1>5

\* What arrives leaves the screen as it is, shows another thread, or shows this
\* one as it is; unless it stirs, and more is to come.
LEMMA DeliverShows ==
  ASSUME IInv, Deliver, ~Running(server[phone.active]), excused' = {}, phone.active \in Threads
  PROVE  LET m == Head(wire)
             a == phone.active
             now == server[a]
         IN  /\ m.kind \in Fetching /\ m.thread = a =>
                  Stirs(m, a, now) \/ ShowsThread(phone', a, now)
             /\ excused = {} /\ ShowsThread(phone, a, now) =>
                  m.kind = "ended" \/ Stirs(m, a, now) \/ ShowsThread(phone', a, now)
<1> DEFINE m == Head(wire)
           t == m.thread
           a == phone.active
           now == server[a]
<1>1. MessageOk(m, a, server)
  BY MessageTaken DEF Deliver, IInv
<1>2. /\ t \in Threads /\ KeptBut(phone, t, a) /\ Kept(phone, a) /\ Shaped(phone)
      /\ m.turns \in Seq(Turn)
  BY <1>1, KeptParts DEF MessageOk, IInv
<1>3. ASSUME Steady(phone, phone', a), ShowsThread(phone, a, now)
      PROVE  ShowsThread(phone', a, now)
  BY <1>3, SteadyShows
<1>4. ASSUME phone' = SendDetailUpdate(phone, t, m.turns)
      PROVE  /\ t # a => ShowsThread(phone', a, now)
             /\ t = a /\ m.turns = now => ShowsThread(phone', a, now)
  <2>1. /\ phone'.shown.thread = t
        /\ LatestInProgressTurn(m.turns) = 0 => ShowsThread(phone', t, m.turns)
    BY <1>2, <1>4, UpdateShows
  <2> QED
    BY <2>1 DEF ShowsThread, Running
<1>5. CASE m.kind \in Fetching
  <2>1. phone' = SendDetailUpdate(phone, t, m.turns) \/ (phone' = phone /\ t # a)
    BY <1>5 DEF Deliver, Fetching, Resumed, DetailRead, Refreshed
  <2>2. t = a => Stirs(m, a, now) \/ ShowsThread(phone', a, now)
    BY <1>4, <1>5, <2>1 DEF Stirs
  <2>3. t # a /\ ShowsThread(phone, a, now) => ShowsThread(phone', a, now)
    BY <1>4, <2>1
  <2> QED
    BY <1>5, <2>1, <2>2, <2>3
<1>6. CASE m.kind = "poll"
  <2>1. phone' = IF t = a THEN SendDetailUpdateIfChanged(phone, t, m.turns) ELSE phone
    BY <1>6 DEF Deliver, Polled
  <2>2. t = a /\ ~Stirs(m, a, now) /\ ShowsThread(phone, a, now) => ShowsThread(phone', a, now)
    <3> SUFFICES ASSUME t = a, m.turns = now, ShowsThread(phone, a, now)
                 PROVE  ShowsThread(phone', a, now)
      BY <1>6 DEF Stirs
    <3>1. LatestInProgressTurn(m.turns) = 0
      BY DEF Running
    <3>2. ShowsThread(SendDetailUpdateIfChanged(phone, t, m.turns), t, m.turns)
      BY <1>2, <3>1, ChangeShows
    <3> QED
      BY <2>1, <3>2
  <2> QED
    BY <1>6, <2>1, <2>2 DEF Fetching
<1>7. CASE m.kind = "resolve"
  <2>1. /\ phone' = CacheThreadDetail(phone, t, m.turns)
        /\ a \in Threads \ {t} => phone'.pending[a] = phone.pending[a]
    BY <1>7 DEF Deliver, Resolved
  <2>2. /\ phone'.shown = phone.shown /\ phone'.pending[t] = phone.pending[t]
        /\ \A u \in Threads : phone'.body[u] \in {phone.body[u], <<>>}
    BY <1>2, <2>1, CachedWaits DEF Waits
  <2>3. Steady(phone, phone', a)
    BY <2>1, <2>2 DEF Steady
  <2> QED
    BY <1>3, <1>7, <2>3 DEF Fetching
<1>8. CASE m.kind = "sent"
  <2>1. UNCHANGED phone
    BY <1>8 DEF Deliver, Sent
  <2> QED
    BY <1>8, <2>1 DEF Fetching
<1>9. CASE m.kind = "refused"
  <2>1. ReplyFailed(t, m.text) /\ t # a
    BY <1>9 DEF Deliver, FailedFor
  <2>2. phone'.shown.thread = t
    <3>1. phone' = SendDetailBody(phone, t, <<m.text, Failed>>)
      BY <2>1 DEF ReplyFailed
    <3> QED
      BY <1>2, <3>1, BodyWaits
  <2> QED
    BY <1>9, <2>1, <2>2 DEF Fetching, ShowsThread
<1>10. CASE m.kind = "ended"
  BY <1>10 DEF Fetching
<1>11. CASE m.kind \in {"started", "line", "delta", "item", "unheard"}
  <2>1. Notified(m)
    BY <1>11 DEF Deliver
  <2>2. CASE m.kind \in {"started", "item"}
    BY <2>2 DEF Fetching, Stirs
  <2>3. CASE m.kind \in {"line", "delta", "unheard"}
    <3>1. \/ phone' = phone
          \/ phone' = QueueLiveProgress(phone, t, Progress)
          \/ phone' = [QueueLiveProgress(phone, t, Progress) EXCEPT !.texts = @ \cup {t}]
      BY <2>1, <2>3 DEF Notified
    <3>2. Steady(phone, phone', a)
      BY <1>2, <3>1 DEF Steady, QueueLiveProgress, Shaped, Fields
    <3> QED
      BY <1>3, <2>3, <3>2 DEF Fetching
  <2> QED
    BY <1>11, <2>2, <2>3
<1> QED
  BY <1>1, <1>5, <1>6, <1>7, <1>8, <1>9, <1>10, <1>11 DEF MessageOk, Answered, Heard, Fetching

LEMMA DeliverQInv ==
  ASSUME IInv, QInv, Deliver
  PROVE  QInv'
<1> DEFINE m == Head(wire)
           a == phone.active
           now == server[a]
<1>1. phone'.active = a /\ UNCHANGED server /\ wire' = Tail(wire) /\ wire # <<>> /\ IsSeq(wire)
  BY DeliverIInv, DeliverFetches, WireIsSeq DEF Deliver
<1>2. /\ \/ client' = client
         \/ client = "resumed" /\ client' = "open"
         \/ client = "none" /\ client' = "setup" /\ a \in Threads
      /\ client' = "setup" => Resuming(calls', a)
      /\ Fetched(calls, a) => Fetched(calls', a)
      /\ m.kind = "ended" => Fetched(calls', a)
      /\ excused' = {} => excused = {} \/ (m.kind \in Fetching /\ m.thread = a /\ client # "none")
  BY DeliverFetches
<1>3. /\ Followed(wire, a, now) => Followed(wire', a, now)
      /\ Followed(wire, a, now) /\ Stirs(m, a, now) => Brought(wire', a, now)
      /\ Brought(wire, a, now) => Brings(m, a, now) \/ Brought(wire', a, now)
  BY <1>1, FollowedRest
<1>4. ASSUME ~Running(now), excused' = {}, a \in Threads
      PROVE  /\ m.kind \in Fetching /\ m.thread = a =>
                  Stirs(m, a, now) \/ ShowsThread(phone', a, now)
             /\ excused = {} /\ ShowsThread(phone, a, now) =>
                  m.kind = "ended" \/ Stirs(m, a, now) \/ ShowsThread(phone', a, now)
  BY <1>4, DeliverShows
<1> HIDE DEF m, now
<1>5. ASSUME excused' = {}, a # NoThread, ~Running(now)
      PROVE  client' # "none" /\ Comes(calls', wire', phone', a, now)
  <2>1. excused = {} => client # "none" /\ Comes(calls, wire, phone, a, now)
    BY <1>5 DEF QInv, now
  <2>2. client # "none" /\ client' # "none" /\ a \in Threads
    BY <1>2, <1>5, <2>1 DEF QInv
  <2>3. CASE client = "setup"
    <3>1. Fetched(calls', a)
      BY <1>2, <2>3, FetchedParts
    <3> QED
      BY <2>2, <3>1 DEF Comes
  <2>4. CASE client # "setup"
    <3>1. Followed(wire, a, now)
      BY <1>5, <2>2, <2>4 DEF QInv, now
    <3>2. Stirs(m, a, now) => Comes(calls', wire', phone', a, now)
      BY <1>3, <3>1 DEF Comes
    <3>3. CASE m.kind \in Fetching /\ m.thread = a
      BY <1>4, <1>5, <2>2, <3>2, <3>3 DEF Comes
    <3>4. CASE ~(m.kind \in Fetching /\ m.thread = a)
      <4>1. Comes(calls, wire, phone, a, now)
        BY <1>2, <1>5, <2>1, <3>4
      <4>2. Brings(m, a, now) => Fetched(calls', a)
        BY <1>2, <3>4 DEF Brings
      <4> QED
        BY <1>2, <1>3, <1>4, <1>5, <2>2, <3>2, <3>4, <4>1, <4>2 DEF Comes
    <3> QED
      BY <3>3, <3>4
  <2> QED
    BY <2>3, <2>4
<1>6. CASE Running(now)
  BY <1>1, <1>2, <1>6 DEF QInv, Comes, now
<1>7. CASE ~Running(now)
  BY <1>1, <1>2, <1>3, <1>5, <1>7 DEF QInv, now
<1> QED
  BY <1>6, <1>7

LEMMA NextQInv == IInv /\ QInv /\ [Next]_vars => QInv'
<1> SUFFICES ASSUME IInv, QInv, [Next]_vars PROVE QInv'
  OBVIOUS
<1>1. CASE UNCHANGED vars
  BY <1>1 DEF vars, QInv
<1>2. ASSUME NEW t \in Threads,
             \/ RequestThreadDetail(t) \/ \E x \in Texts : SubmitReply(t, x)
             \/ TurnStarts(t) \/ \E x \in Answers : ItemCompletes(t, x)
             \/ \E kind \in {"line", "delta"} : Progresses(t, kind)
             \/ \E status \in {"completed", "interrupted"} : TurnEnds(t, status)
             \/ FlushLiveProgress(t)
      PROVE  QInv'
  BY <1>2, RequestQInv, ReplyQInv, TurnStartsQInv, ItemCompletesQInv, ProgressesQInv,
     TurnEndsQInv, FlushQInv
<1>3. ASSUME NEW c \in calls, AnswerRead(c) \/ AnswerSend(c) \/ CallFails(c) PROVE QInv'
  BY <1>3, AnswerReadQInv, AnswerSendQInv, FailureQInv
<1>4. CASE Deliver \/ PollThreadDetail \/ PollingStops \/ ConnectionLost
  BY <1>4, DeliverQInv, PollQInv, ConnectionQInv
<1> QED
  BY <1>1, <1>2, <1>3, <1>4 DEF Next

-----------------------------------------------------------------------------
(***************************************************************************)
(* The strengthened invariant holds in every reachable state: what is kept *)
(* with the calls, the messages and the poll timer that change it.         *)
(***************************************************************************)
THEOREM Inductive == Spec => []IInv
<1> QED
  BY InitIInv, NextIInv, PTL DEF Spec

(***************************************************************************)
(* What the phone keeps of threads is bounded by the size of the cache,    *)
(* through any replies, turns, failures and switches of the thread.        *)
(***************************************************************************)
THEOREM MemoryBounded == Spec => []KeptIsRemembered
<1>1. IInv => KeptIsRemembered
  BY Zenon DEF IInv, Kept, Forgotten, KeptIsRemembered
<1> QED
  BY <1>1, Inductive, PTL

\* Only threads have fresh replies.
Fresh == fresh \subseteq Threads

LEMMA FreshInv == Spec => []Fresh
<1>1. Init => Fresh
  BY DEF Init, Fresh
<1>2. Fresh /\ [Next]_vars => Fresh'
  <2> SUFFICES ASSUME Fresh, [Next]_vars PROVE Fresh'
    OBVIOUS
  <2>1. UNCHANGED fresh \/ \E t \in Threads : fresh' \in {fresh \ {t}, fresh \cup {t}}
    BY DEF Next, vars, RequestThreadDetail, SubmitReply, TurnStarts, ItemCompletes, Progresses,
           TurnEnds, FlushLiveProgress, AnswerRead, AnswerSend, CallFails, PollThreadDetail,
           PollingStops, ConnectionLost, Deliver, Resumed, DetailRead, Polled, Refreshed,
           Resolved, Sent, HandleTurnCompleted, Notified
  <2> QED
    BY <2>1 DEF Fresh
<1> QED
  BY <1>1, <1>2, PTL DEF Spec

(***************************************************************************)
(* A read that is older than the reply never ends the wait: a pending      *)
(* reply that said something new is forgotten only when the app-server has *)
(* it, or its thread is evicted.                                           *)
(***************************************************************************)
THEOREM RepliesOutlive == Spec => ReplyOutlivesStaleReads
<1>1. IInv /\ Fresh /\ [Next]_vars =>
        [\A t \in fresh :
           phone.pending[t] # NoLine /\ phone'.pending[t] = NoLine =>
             \/ UserText(server[t], phone.pending[t])
             \/ t \notin ToSet(phone'.order)]_vars
  <2> SUFFICES ASSUME IInv, Fresh, Next, NEW t \in fresh,
                      phone.pending[t] # NoLine, phone'.pending[t] = NoLine
               PROVE  UserText(server[t], phone.pending[t]) \/ t \notin ToSet(phone'.order)
    OBVIOUS
  <2>1. PICK u \in Threads : ReplyStep(phone, phone', u)
    BY NextStep
  <2> QED
    BY <2>1 DEF ReplyStep, OthersWait, Fresh
<1> QED
  BY <1>1, Inductive, FreshInv, PTL DEF Spec, ReplyOutlivesStaleReads

(***************************************************************************)
(* While a reply is pending, what is shown of its thread has the reply in  *)
(* it, or is another reply's failure or its item.                          *)
(***************************************************************************)
THEOREM RepliesShown == Spec => PendingReplyIsShown
<1> DEFINE Shown ==
      \A t \in Threads :
        phone'.shown # phone.shown /\ phone'.shown.thread = t /\ phone'.pending[t] # NoLine =>
          \/ phone'.pending[t] \in ToSet(phone'.shown.body)
          \/ \E y \in Texts \ {phone'.pending[t]} :
               \/ phone'.shown.body = <<y, Failed>>
               \/ wire # <<>> /\ Head(wire) = Message("item", t, <<>>, y)
<1>1. ASSUME IInv, Next PROVE Shown
  <2> SUFFICES ASSUME phone' # phone PROVE Shown
    OBVIOUS
  <2>1. PICK u \in Threads : ReplyStep(phone, phone', u)
    BY <1>1, NextStep
  <2> QED
    BY <2>1 DEF ReplyStep, Shows, OtherReply
<1>2. IInv /\ [Next]_vars => [Shown]_vars
  BY <1>1
<1> QED
  BY <1>2, Inductive, PTL DEF Spec, PendingReplyIsShown

(***************************************************************************)
(* When nothing is under way any more, the watch was last sent the active  *)
(* thread as the app-server has it: whatever turns, replies, failures,     *)
(* lost connections and switches of the thread went before, as long as     *)
(* none of the excuses the code gives is left.                             *)
(***************************************************************************)
THEOREM QuietShowsThread == Spec => []QuietIsCurrent
<1>1. QInv => QuietIsCurrent
  <2> SUFFICES ASSUME QInv, Quiet, excused = {}, phone.shown.thread = phone.active,
                      phone.pending[phone.active] = NoLine
               PROVE  phone.shown.body = ThreadSections(server[phone.active])
    BY Zenon DEF QuietIsCurrent
  <2>1. Comes({}, <<>>, phone, phone.active, server[phone.active])
    BY DEF QInv, Quiet
  <2>2. ~Running(server[phone.active])
    BY DEF Quiet, Running
  <2>3. ~Brought(<<>>, phone.active, server[phone.active]) /\ ~Fetched({}, phone.active)
    BY DEF Brought, Fetched
  <2> QED
    BY <2>1, <2>2, <2>3 DEF Comes, ShowsThread
<1>2. Spec => []QInv
  BY InitQInv, NextQInv, Inductive, PTL DEF Spec
<1> QED
  BY <1>1, <1>2, PTL

=============================================================================
