--------------------------------- MODULE Text ---------------------------------
(***************************************************************************)
(* Text on its way to the watch, whose buffers count bytes while the phone *)
(* counts UTF-16 code units (src/pkjs/index.js, utf8ByteLength, the        *)
(* truncations, sanitizeField and sanitizeDetailBody; prv_copy_string and  *)
(* prv_next_field in src/c/main.c).                                        *)
(*                                                                         *)
(* A text is a sequence of code units, one for each length of UTF-8 there  *)
(* is; a body is a sequence of sections, of which only the speaker and the *)
(* bytes matter.  Text is typed unit by unit and a body grows section by   *)
(* section; the properties hold of every text and body on the way.         *)
(***************************************************************************)
EXTENDS Integers, Sequences, FiniteSets, FiniteSetsExt

CONSTANTS
  FieldLimit,  \* ProtocolByteLimit.title
  BodyLimit,   \* ProtocolByteLimit.body
  MaxUnits,    \* bound: units of a text
  MaxBytes,    \* bound: limits a text is cut to
  MaxSections, \* bound: sections of a body
  Sizes        \* bytes a section may have

ASSUME LimitAssumption ==
  /\ FieldLimit \in Nat /\ BodyLimit \in Nat \ {0} /\ MaxBytes \in Nat
  /\ Sizes \subseteq Nat \ {0}

VARIABLES
  text,  \* a text
  body   \* sections of a thread

textVars == <<text, body>>

\* A letter of one, two and three bytes, the halves of a surrogate pair, and
\* what a field may not have in it.
Units == {"a", "e", "k", "High", "Low", "|", "\n", " "}

Section == [you : BOOLEAN, bytes : Sizes]

-----------------------------------------------------------------------------
(* Bytes. *)

\* The code unit at i and the next are one character of four bytes.
Pair(s, i) == i < Len(s) /\ s[i] = "High" /\ s[i + 1] = "Low"

BytesOfUnit(unit) ==
  CASE unit \in {"a", "|", "\n", " ", "."} -> 1
    [] unit = "e" -> 2
    [] unit \in {"k", "High", "Low"} -> 3

\* The character that starts at i: its units and its bytes.
UnitsAt(s, i) == IF Pair(s, i) THEN 2 ELSE 1
BytesAt(s, i) == IF Pair(s, i) THEN 4 ELSE BytesOfUnit(s[i])

\* utf8ByteLength
Utf8ByteLength(s) ==
  LET from[i \in 1..(Len(s) + 1)] ==
        IF i > Len(s) THEN 0 ELSE BytesAt(s, i) + from[i + UnitsAt(s, i)]
  IN  from[1]

\* Mutant: a pair of surrogates is cut like two characters.
TruncateUnits(s, maxBytes) ==
  LET end[at \in (1..(Len(s) + 1)) \X (0..maxBytes)] ==
        LET i == at[1]
            length == at[2]
        IN  IF i > Len(s) THEN Len(s)
            ELSE IF length + BytesOfUnit(s[i]) > maxBytes THEN i - 1
            ELSE end[<<i + 1, length + BytesOfUnit(s[i])>>]
  IN  SubSeq(s, 1, end[<<1, 0>>])

\* truncateUtf8: where the text is cut, once the characters before the one at i
\* have taken length bytes.
TruncateUtf8(s, maxBytes) ==
  LET end[at \in (1..(Len(s) + 1)) \X (0..maxBytes)] ==
        LET i == at[1]
            length == at[2]
        IN  IF i > Len(s) THEN Len(s)
            ELSE IF length + BytesAt(s, i) > maxBytes THEN i - 1
            ELSE end[<<i + UnitsAt(s, i), length + BytesAt(s, i)>>]
  IN  SubSeq(s, 1, end[<<1, 0>>])

\* Where the character starts that ends at i, less one.
Before(s, i) == IF i > 1 /\ Pair(s, i - 1) THEN i - 2 ELSE i - 1

\* truncateUtf8FromEnd: the characters are found from the end.
TruncateUtf8FromEnd(s, maxBytes) ==
  LET prefix == <<".", ".", ".">>
      target == maxBytes - Utf8ByteLength(prefix)
      start[at \in (0..Len(s)) \X (0..target)] ==
        LET i == at[1]
            length == at[2] + BytesAt(s, Before(s, i) + 1)
        IN  IF i = 0 THEN 1
            ELSE IF length > target THEN i + 1
            ELSE start[<<Before(s, i), length>>]
  IN  IF Utf8ByteLength(s) <= maxBytes THEN s
      ELSE IF maxBytes <= Utf8ByteLength(prefix) THEN TruncateUtf8(s, maxBytes)
      ELSE prefix \o SubSeq(s, start[<<Len(s), 0>>], Len(s))

-----------------------------------------------------------------------------
(* Fields. *)

Trim(s) ==
  LET solid == {i \in DOMAIN s : s[i] \notin {" ", "\n"}}
  IN  IF solid = {} THEN <<>> ELSE SubSeq(s, Min(solid), Max(solid))

\* Mutant: a separator in a field stays.
FieldWithSeparators(value, maxBytes) ==
  TruncateUtf8(Trim([i \in DOMAIN value |-> IF value[i] = "\n" THEN " " ELSE value[i]]), maxBytes)

\* sanitizeField: "/" for a separator, which is a letter here.
SanitizeField(value, maxBytes) ==
  TruncateUtf8(
    Trim([i \in DOMAIN value |->
            IF value[i] = "|" THEN "a" ELSE IF value[i] = "\n" THEN " " ELSE value[i]]),
    maxBytes)

\* The bytes of a text as the watch gets them: each names its character.
Encoded(s) ==
  LET from[i \in 1..(Len(s) + 1)] ==
        IF i > Len(s) THEN <<>>
        ELSE [b \in 1..BytesAt(s, i) |-> <<i, s[i]>>] \o from[i + UnitsAt(s, i)]
  IN  from[1]

\* prv_copy_string to a buffer of n bytes, the last of them a zero.
CopyString(bytes, n) == SubSeq(bytes, 1, Min({Len(bytes), n - 1}))

\* prv_next_field on the watch: what stands before the first separator.
NextField(bytes) ==
  SubSeq(bytes, 1, Min({Len(bytes)} \cup {i - 1 : i \in {j \in DOMAIN bytes : bytes[j][2] = "|"}}))

\* splitPayload on the phone: that, and the rest.
SplitPayload(s) ==
  LET separators == {i \in DOMAIN s : s[i] = "|"}
  IN  IF separators = {} THEN <<s, <<>>>>
      ELSE <<SubSeq(s, 1, Min(separators) - 1), SubSeq(s, Min(separators) + 1, Len(s))>>

\* prv_copy_payload_field, of a reply that fits its buffer.
PayloadField(s) == [i \in DOMAIN s |-> IF s[i] \in {"|", "\n"} THEN " " ELSE s[i]]

-----------------------------------------------------------------------------
(* Bodies: sections joined by a separator of two bytes.                    *)

Joined(sections) ==
  LET sum[i \in 0..Len(sections)] ==
        IF i = 0 THEN 0 ELSE sum[i - 1] + sections[i].bytes + (IF i > 1 THEN 2 ELSE 0)
  IN  sum[Len(sections)]

\* truncateUtf8 of the joined sections, and trim.
Cut(sections, maxBytes) ==
  LET whole == Max({0} \cup {i \in DOMAIN sections : Joined(SubSeq(sections, 1, i)) <= maxBytes})
      used == IF whole = 0 THEN 0 ELSE Joined(SubSeq(sections, 1, whole)) + 2
  IN  SubSeq(sections, 1, whole)
        \o (IF whole < Len(sections) /\ used < maxBytes
            THEN <<[sections[whole + 1] EXCEPT !.bytes = maxBytes - used]>> ELSE <<>>)

\* joinPreservingPrefix
JoinPreservingPrefix(head, tail, maxBytes) ==
  IF maxBytes - head.bytes - 2 <= 0 THEN Cut(<<head>>, maxBytes)
  ELSE <<head>> \o Cut(tail, maxBytes - head.bytes - 2)

\* hasLaterUserSection
HasLaterUserSection(sections) == \E i \in DOMAIN sections : i > 1 /\ sections[i].you

\* fitRecentDetailBody
FitRecentDetailBody(sections, maxBytes) ==
  LET n == Len(sections)
      fitting == {i \in DOMAIN sections : Joined(SubSeq(sections, i, n)) <= maxBytes}
  IN  IF sections[1].you /\ n > 1 /\ ~HasLaterUserSection(sections)
      THEN JoinPreservingPrefix(sections[1], Tail(sections), maxBytes)
      ELSE IF fitting = {} THEN Cut(<<sections[n]>>, maxBytes)
      ELSE SubSeq(sections, Min(fitting), n)

\* sanitizeDetailBody
SanitizeDetailBody(sections, maxBytes) ==
  IF Joined(sections) <= maxBytes THEN sections
  ELSE FitRecentDetailBody(sections, maxBytes)

\* Mutant: no room is reserved for the line.
AppendSuffix(sections, line) == Append(sections, line)

\* appendWithReservedSuffix
AppendWithReservedSuffix(sections, line) ==
  IF sections = <<>> \/ BodyLimit - line.bytes - 2 <= 0 THEN <<line>>
  ELSE Append(Cut(sections, BodyLimit - line.bytes - 2), line)

-----------------------------------------------------------------------------
TextInit == text = <<>> /\ body = <<>>

Type(unit) ==
  /\ body = <<>> /\ Len(text) < MaxUnits
  /\ text' = Append(text, unit)
  /\ UNCHANGED body

Grow(section) ==
  /\ text = <<>> /\ Len(body) < MaxSections
  /\ body' = Append(body, section)
  /\ UNCHANGED text

TextNext == (\E unit \in Units : Type(unit)) \/ (\E section \in Section : Grow(section))

-----------------------------------------------------------------------------
(* Properties. *)

\* Reference: the bytes of a text, counted by kind of character.
ByteCount(s) ==
  LET all(units) == Cardinality({i \in DOMAIN s : s[i] \in units})
      pairs == Cardinality({i \in DOMAIN s : Pair(s, i)})
  IN  all({"a", "|", "\n", " ", "."}) + 2 * all({"e"}) + 3 * all({"k", "High", "Low"}) - 2 * pairs

\* Reference: the places where a text can be cut without splitting a pair.
Cuts(s) == {k \in 0..Len(s) : k = 0 \/ ~Pair(s, k)}

\* What truncateUtf8 keeps is the longest beginning, and what
\* truncateUtf8FromEnd keeps after its dots the longest end, that fits the bytes
\* and splits no character, also when halves of pairs stand alone.
TruncationIsLongest ==
  \A limit \in 0..MaxBytes :
    LET head(n) == SubSeq(text, 1, Max({k \in Cuts(text) : ByteCount(SubSeq(text, 1, k)) <= n}))
        end(n) == SubSeq(text, Len(text) + 1 - Max({Len(text) - k : k \in
                    {k \in Cuts(text) : ByteCount(SubSeq(text, k + 1, Len(text))) <= n}}), Len(text))
    IN  /\ TruncateUtf8(text, limit) = head(limit)
        /\ TruncateUtf8FromEnd(text, limit) =
             IF ByteCount(text) <= limit THEN text
             ELSE IF limit <= 3 THEN head(limit)
             ELSE <<".", ".", ".">> \o end(limit - 3)

\* A field arrives as it was sent: the watch finds its end although more fields
\* follow, and its buffer holds it without cutting a character; a row's last
\* field is the exception, which the phone gives 180 bytes and the watch 95
\* (sendJobItem, prv_handle_job_item).  A reply reaches the phone with the thread
\* it is for, whatever was dictated (prv_send_reply_text, splitPayload).
FieldsArriveWhole ==
  LET field == SanitizeField(text, FieldLimit)
      payload == Encoded(field \o <<"|">> \o SanitizeField(text, FieldLimit))
      reply == PayloadField(text)
  IN  /\ CopyString(NextField(payload), FieldLimit + 1) = Encoded(field)
      /\ SplitPayload(field \o <<"|">> \o reply) = <<field, reply>>

\* A line of live progress is seen: whatever the body was, the body that is sent
\* with the line at its end fits the limit and ends with the line, whole if it
\* fits at all (appendWithReservedSuffix, sanitizeDetailBody).
LiveLineIsShown ==
  \A line \in [you : {FALSE}, bytes : Sizes] :
    LET sent == SanitizeDetailBody(AppendWithReservedSuffix(body, line), BodyLimit)
    IN  /\ Joined(sent) <= BodyLimit
        /\ sent[Len(sent)].bytes = Min({line.bytes, BodyLimit})
        /\ line.bytes <= BodyLimit => sent[Len(sent)] = line

=============================================================================
