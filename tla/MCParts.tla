------------------------------- MODULE MCParts -------------------------------
(***************************************************************************)
(* Four parts that share nothing: what rows say, how text is cut, how the  *)
(* settings travel and the smoke test.  Each steps while the others are at *)
(* their first state, so that their states add up.                         *)
(***************************************************************************)
EXTENDS Text, Rows, Settings, Smoke

AtText == text = <<>> /\ body = <<>>
AtRows == thread = FirstThread /\ item = FirstItem /\ now = 0
AtSettings == visits = 0
AtSmoke == socket = "idle"

Init == TextInit /\ RowsInit /\ SettingsInit /\ SmokeInit

Next ==
  \/ /\ AtRows /\ AtSettings /\ AtSmoke
     /\ TextNext /\ UNCHANGED <<rowsVars, settingsVars, smokeVars>>
  \/ /\ AtText /\ AtSettings /\ AtSmoke
     /\ Tick /\ UNCHANGED <<textVars, settingsVars, smokeVars>>
  \/ /\ AtText /\ AtRows /\ AtSmoke
     /\ SettingsNext /\ UNCHANGED <<textVars, rowsVars, smokeVars>>
  \/ /\ AtText /\ AtRows /\ AtSettings
     /\ SmokeNext /\ UNCHANGED <<textVars, rowsVars, settingsVars>>

Spec == Init /\ [][Next]_<<textVars, rowsVars, settingsVars, smokeVars>>

=============================================================================
