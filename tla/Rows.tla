--------------------------------- MODULE Rows ---------------------------------
(***************************************************************************)
(* What a row and a section say (src/pkjs/index.js, sendJobItem to         *)
(* firstLine, threadItemSummary, itemStartedSummary), of threads and items *)
(* as app-server's protocol defines them (schemas/v2).                     *)
(*                                                                         *)
(* A string of the protocol is "some" or empty, a value that may be null   *)
(* may be Null; a path may be "/" and a text may begin with a line break.  *)
(* What is composed of strings is the sequence of its parts.               *)
(* Times are minutes, of days as long as the constants say.                *)
(***************************************************************************)
EXTENDS Integers, Sequences, FiniteSets, FiniteSetsExt

CONSTANTS
  Hour,    \* minutes of an hour
  Day,     \* minutes of a day
  MaxTime  \* bound: minutes that pass

ASSUME TimeAssumption == Hour \in Nat \ {0} /\ Day \in Nat \ {0} /\ MaxTime \in Nat

VARIABLES
  thread,  \* a thread of the list
  item,    \* an item of a turn
  now      \* the time on the phone

rowsVars == <<thread, item, now>>

Null == "null"
String == {"", "some"}
Nullable == {Null, "some"}

-----------------------------------------------------------------------------
(* The protocol, as far as the phone reads it. *)

ThreadActiveFlag == {"waitingOnApproval", "waitingOnUserInput"}

ThreadStatus ==
  [type : {"notLoaded", "idle", "systemError"}, activeFlags : {{}}]
    \cup [type : {"active"}, activeFlags : SUBSET ThreadActiveFlag]

SubAgentSource == {"review", "compact", "thread_spawn", "memory_consolidation", "other"}

SessionSource ==
  [kind : {"cli", "vscode", "exec", "appServer", "unknown", "custom"}]
    \cup [kind : {"subAgent"}, of : SubAgentSource]

GitInfo == [branch : Nullable, originUrl : Nullable \cup {"/"}]

\* Without gitInfo both parts of it are null.
Thread == [status : ThreadStatus, cwd : String \cup {"/"}, gitInfo : GitInfo,
           source : SessionSource, agentRole : Nullable, agentNickname : Nullable,
           preview : String \cup {"\n"}, name : Nullable]

\* What syncJobs asks app-server for: no custom source.
SourceKinds ==
  {"cli", "vscode", "appServer", "exec", "subAgent", "subAgentReview", "subAgentCompact",
   "subAgentThreadSpawn", "subAgentOther", "unknown"}

ListedThread == {th \in Thread : th.source.kind \in SourceKinds}

UserInput == {"text", "image", "localImage", "skill", "mention"}

TurnPlanStep == [step : String]
TurnPlanUpdatedNotification ==
  [explanation : Nullable, plan : {<<>>} \cup (TurnPlanStep \X TurnPlanStep)]

CommandExecutionStatus == {"inProgress", "completed", "failed", "declined"}

ThreadItem ==
  [type : {"agentMessage", "plan"}, text : String]
    \cup [type : {"userMessage"}, content : {<<>>} \cup (UserInput \X UserInput)]
    \cup [type : {"reasoning"}, summary : {<<>>, <<"some">>}]
    \cup [type : {"commandExecution"}, command : String, status : CommandExecutionStatus]
    \cup [type : {"fileChange"}, status : CommandExecutionStatus]
    \cup [type : {"mcpToolCall"}, server : String, tool : String,
          status : {"inProgress", "completed", "failed"}]
    \cup [type : {"dynamicToolCall"}, namespace : Nullable, tool : String]
    \cup [type : {"hookPrompt", "collabAgentToolCall", "webSearch", "imageView",
                  "imageGeneration", "enteredReviewMode", "exitedReviewMode",
                  "contextCompaction"}]

-----------------------------------------------------------------------------
(* Rows. *)

\* What || takes of two values, the empty string and null being no value.
Or(a, b) == IF a \in {"", Null} THEN b ELSE a
Part(value) == IF value \in {"", Null} THEN <<>> ELSE <<value>>

\* basename, and what repoNameFromOrigin takes of a URL: nothing of a bare "/".
BaseName(path) == IF path = "/" THEN "" ELSE path

\* firstLine
FirstLine(lines) == IF lines \in {"\n", Null} THEN "" ELSE lines

\* threadProjectName and repoNameFromOrigin
ThreadProjectName(th) ==
  Or(BaseName(th.cwd), Or(BaseName(th.gitInfo.originUrl), "Codex"))

\* threadStateLabel, activeFlags and hasFlag
ThreadStateLabel(th) ==
  LET status == th.status.type IN
  CASE "waitingOnApproval" \in th.status.activeFlags -> "approval"
    [] "waitingOnApproval" \notin th.status.activeFlags
         /\ "waitingOnUserInput" \in th.status.activeFlags -> "input"
    [] status = "active" /\ th.status.activeFlags = {} -> "working"
    [] status = "systemError" -> "error"
    [] status = "notLoaded" -> "saved"
    [] status = "idle" -> "idle"

\* sessionSourceContext, sessionSourceText and subAgentSourceText
SessionSourceContext(source) ==
  CASE source.kind \in {"cli", "vscode", "appServer"} -> ""
    [] source.kind \in {"exec", "unknown"} -> source.kind
    [] source.kind = "custom" -> "some"
    [] source.kind = "subAgent" ->
         CASE source.of = "thread_spawn" -> "spawn"
           [] source.of = "other" -> "some"
           [] source.of \in {"review", "compact", "memory_consolidation"} -> source.of

\* Mutant: the context is shown although its parts may be missing.
ContextOfAll(th) ==
  <<th.gitInfo.branch, Or(th.agentRole, th.agentNickname)>>

\* listContext and shortBranch
ListContext(th) ==
  Part(th.gitInfo.branch) \o Part(Or(th.agentRole, th.agentNickname))
    \o Part(SessionSourceContext(th.source))

\* listPrompt
ListPrompt(th) == Or(FirstLine(th.preview), FirstLine(th.name))

\* listTitle
ListTitle(th) == <<ThreadProjectName(th), ThreadStateLabel(th)>>

\* listDetail, without the time
ListDetail(th) ==
  LET parts == ListContext(th) \o Part(ListPrompt(th))
  IN  IF parts = <<>> THEN <<"Open for latest content">> ELSE parts

-----------------------------------------------------------------------------
(* Sections. *)

\* userInputText
UserInputText(content) ==
  LET parts[i \in 0..Len(content)] ==
        IF i = 0 THEN <<>>
        ELSE IF content[i] = "text" THEN Append(parts[i - 1], content[i]) ELSE parts[i - 1]
  IN  parts[Len(content)]

\* threadItemSummary; <<>> for an item that is not shown.
ThreadItemSummary(it) ==
  CASE it.type = "agentMessage" -> <<"Codex: ", it.text>>
    [] it.type = "userMessage" -> <<"You: ">> \o UserInputText(it.content)
    [] it.type = "plan" -> <<"Plan: ", it.text>>
    [] it.type = "commandExecution" -> <<"$ ", it.command, it.status>>
    [] it.type = "fileChange" -> <<"Files changed: ", it.status>>
    [] it.type = "mcpToolCall" -> <<"Tool: ", it.server, it.tool, it.status>>
    [] it.type = "dynamicToolCall" ->
         <<"Tool: ">> \o Part(it.namespace) \o <<it.tool>>
    [] it.type = "reasoning" -> IF it.summary = <<>> THEN <<>> ELSE <<"Reasoning: ">> \o it.summary
    [] it.type = "contextCompaction" -> <<"Context compacted">>
    [] it.type \in {"hookPrompt", "collabAgentToolCall", "webSearch", "imageView",
                    "imageGeneration", "enteredReviewMode", "exitedReviewMode"} -> <<>>

\* itemStartedSummary
ItemStartedSummary(it) ==
  CASE it.type = "agentMessage" -> <<"Codex: writing...">>
    [] it.type = "commandExecution" -> <<"$ ", it.command, "(running)">>
    [] it.type = "dynamicToolCall" ->
         <<"Tool: ">> \o Part(it.namespace) \o <<it.tool, "(running)">>
    [] it.type = "mcpToolCall" -> <<"Tool: ", it.server, it.tool, "(running)">>
    [] it.type = "plan" -> IF it.text = "" THEN <<"Plan updated">> ELSE <<"Plan: ", it.text>>
    [] OTHER -> <<"Codex: working...">>

\* planNotificationSummary: the last step that has a text.
PlanNotificationSummary(params) ==
  LET said == {i \in DOMAIN params.plan : params.plan[i].step # ""}
  IN  IF said # {} THEN <<"Plan: ", params.plan[Max(said)].step>>
      ELSE IF params.explanation # Null THEN <<"Plan: ", params.explanation>>
      ELSE <<"Plan updated">>

-----------------------------------------------------------------------------
(* Times. *)

Week == 7 * Day
DayOf(time) == time \div Day
ClockTime(time) == <<(time % Day) \div Hour, (time % Day) % Hour>>

\* Mutant: a weekday names one of two weeks.
TimeOfTwoWeeks(time, at) ==
  IF at - time < 1 THEN <<"now">>
  ELSE IF at - time < Hour THEN <<"ago", at - time>>
  ELSE IF DayOf(time) = DayOf(at) THEN <<"today">> \o ClockTime(time)
  ELSE IF at - time < 2 * Week THEN <<"day", DayOf(time) % 7>> \o ClockTime(time)
  ELSE <<"date", DayOf(time)>> \o ClockTime(time)

\* listThreadTime, sameLocalDay, weekdayName and clockTime: what is said, at a
\* time, of another; "today" is not said, it tells a clock alone from the others.
ListThreadTime(time, at) ==
  IF time > at THEN <<"date", DayOf(time)>> \o ClockTime(time)
  ELSE IF at - time < 1 THEN <<"now">>
  ELSE IF at - time < Hour THEN <<"ago", at - time>>
  ELSE IF DayOf(time) = DayOf(at) THEN <<"today">> \o ClockTime(time)
  ELSE IF at - time < Week THEN <<"day", DayOf(time) % 7>> \o ClockTime(time)
  ELSE <<"date", DayOf(time)>> \o ClockTime(time)

-----------------------------------------------------------------------------
FirstThread == CHOOSE th \in ListedThread : TRUE
FirstItem == CHOOSE it \in ThreadItem : TRUE

RowsInit ==
  /\ now = 0
  /\ \/ thread \in ListedThread /\ item = FirstItem
     \/ thread = FirstThread /\ item \in ThreadItem

Tick ==
  /\ thread = FirstThread /\ item = FirstItem
  /\ now < MaxTime /\ now' = now + 1
  /\ UNCHANGED <<thread, item>>

-----------------------------------------------------------------------------
(* Properties. *)

Said(parts) == {parts[i] : i \in DOMAIN parts}

\* No row and no section says "null", and none is blank, whatever of a thread
\* and an item the protocol leaves out (listDetail, threadItemSummary).
NothingIsNull ==
  /\ Null \notin Said(ListTitle(thread)) \cup Said(ListDetail(thread))
                   \cup Said(ThreadItemSummary(item)) \cup Said(ItemStartedSummary(item))
  /\ \A params \in TurnPlanUpdatedNotification : Null \notin Said(PlanNotificationSummary(params))
  /\ ListDetail(thread) # <<>>

\* Two threads that were last used in different minutes say so, whether minutes,
\* hours, days or weeks ago (listThreadTime).
TimesAreDistinct ==
  Cardinality({ListThreadTime(time, now) : time \in 0..now}) = now + 1

=============================================================================
