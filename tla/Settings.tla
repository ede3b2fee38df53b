------------------------------- MODULE Settings -------------------------------
(***************************************************************************)
(* The settings' way through two programs: the phone opens the             *)
(* configuration page with what it has stored (src/pkjs/index.js), the     *)
(* page fills its form, keeps a copy of what is submitted and answers      *)
(* (src/config/app.js), and the phone stores the answer.  The page may     *)
(* also be opened by itself, and left at any time; its answer may be lost. *)
(***************************************************************************)
EXTENDS Integers

CONSTANTS
  UpperLimit,  \* upper bound of displayLimit
  MaxVisits    \* bound: times the page is opened

ASSUME VisitsAssumption == MaxVisits \in Nat /\ UpperLimit \in Nat \ {0}

VARIABLES
  phone,   \* codexJobsSettings in the phone's storage
  stored,  \* codex_jobs:config_state in the page's
  page,    \* the open page: what its form shows
  answer,  \* what webviewclosed is given
  opened,  \* history: the phone's settings when the page was opened
  visits   \* number of visits so far

settingsVars == <<phone, stored, page, answer, opened, visits>>

Nothing == <<>>

\* What is typed: blanks around a URL, a URL with an escape in it, no URL.
Addresses == {"", "ws", " ws ", "ws%2F", "ws/", "http"}

\* A number as it is typed; what is no number leaves the field blank.
Blank == <<>>
Number == [number : -1..(UpperLimit + 1)]

Typed == [wsUrl : Addresses, displayLimit : Number \cup {Blank}]

Defaults == [wsUrl |-> "", displayLimit |-> 3]

-----------------------------------------------------------------------------
(* Both programs clamp and trim alike. *)

Trimmed(url) == IF url = " ws " THEN "ws" ELSE url

\* clamp: Number("") is 0.
Clamp(number, low, high) == IF number < low THEN low ELSE IF number > high THEN high ELSE number

SanitizeSettings(wsUrl, number) ==
  [wsUrl |-> Trimmed(wsUrl), displayLimit |-> Clamp(number, 1, UpperLimit)]

\* validateSettings
ValidSettings(s) == s.wsUrl \notin {"", "http"}

\* decodeURIComponent of a URL
Decoded(url) == IF url = "ws%2F" THEN "ws/" ELSE url

\* loadSettings of the phone
PhoneSettings == IF phone = Nothing THEN Defaults ELSE phone

\* Mutant: the page prefers its own copy.
PageSettingsOfItsOwn(embedded) ==
  IF stored # Nothing THEN stored ELSE IF embedded # Nothing THEN embedded ELSE Defaults

\* loadSettings of the page: those in its query come first.
PageSettings(embedded) ==
  IF embedded # Nothing THEN embedded ELSE IF stored # Nothing THEN stored ELSE Defaults

-----------------------------------------------------------------------------
SettingsInit ==
  /\ phone = Nothing /\ stored = Nothing
  /\ page = Nothing /\ answer = Nothing /\ opened = Nothing
  /\ visits = 0

\* openConfiguration, or by itself, and bootstrap: the form is filled and the
\* page's copy replaced.
Open(embedded) ==
  /\ page = Nothing /\ answer = Nothing /\ visits < MaxVisits
  /\ visits' = visits + 1
  /\ page' = PageSettings(embedded)
  /\ stored' = page'
  /\ opened' = embedded
  /\ UNCHANGED <<phone, answer>>

\* The form is submitted as it was typed: what is invalid stays on the page; the
\* bridge may fail, which leaves the page's copy saved and the phone untold.
Submit(typed) ==
  LET digits == typed.displayLimit
      next == SanitizeSettings(typed.wsUrl, IF digits = Blank THEN 0 ELSE digits.number)
  IN  /\ page # Nothing /\ answer = Nothing
      /\ ValidSettings(next)
      /\ stored' = next
      /\ answer' \in {next, Nothing}
      /\ UNCHANGED <<phone, page, opened, visits>>

\* webviewclosed: the answer is decoded, also one that was decoded before.
Close ==
  /\ page # Nothing
  /\ page' = Nothing /\ answer' = Nothing
  /\ phone' \in IF answer = Nothing THEN {phone}
                ELSE {SanitizeSettings(url, answer.displayLimit) :
                        url \in {answer.wsUrl, Decoded(answer.wsUrl)}}
  /\ UNCHANGED <<stored, opened, visits>>

\* The answer is lost: the page is left open, or the app is.
LoseAnswer ==
  /\ answer # Nothing
  /\ page' = Nothing /\ answer' = Nothing
  /\ UNCHANGED <<phone, stored, opened, visits>>

SettingsNext ==
  \/ \E embedded \in {PhoneSettings, Nothing} : Open(embedded)
  \/ \E typed \in Typed : Submit(typed)
  \/ Close
  \/ LoseAnswer

-----------------------------------------------------------------------------
(* Properties. *)

\* The page that is opened from the watch shows the phone's settings, whatever it
\* had kept of visits whose answers were lost, and what the phone stores is what
\* the page stored last (openConfiguration, loadSettings and saveSettings of both
\* programs); but an answer that arrives decoded loses the escapes of its URL.
PageAndPhoneAgree ==
  [][/\ opened' # Nothing /\ page' # Nothing => page' = PhoneSettings
     /\ phone' # phone => phone' = stored \/ stored.wsUrl # Decoded(stored.wsUrl)]_settingsVars

=============================================================================
