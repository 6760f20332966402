----------------------------- MODULE FileRelocation -----------------------------
(***************************************************************************)
(* What a journalled relocation promises about each file, whatever crashes *)
(* and errors happen on the way (docs/adr/0002-file-transaction-protocol): *)
(* a file is at its source, hidden under its operation's temporary name,   *)
(* or at its destination; it is reported completed only at the             *)
(* destination and failed only at the source; a report is final and a      *)
(* reported file is not touched again.  A cancelled batch reports skipped  *)
(* files: those still at their source, and those an error has stopped,     *)
(* wherever that was.  Another application may overwrite a file at any     *)
(* time; nothing is promised about that one any more.                      *)
(***************************************************************************)
CONSTANT Moves

VARIABLES
    place, report,
    stopped         \* moves the running batch met an error with

Init ==
    /\ place = [m \in Moves |-> "source"]
    /\ report = [m \in Moves |-> "none"]
    /\ stopped = {}

Hide(m) ==
    /\ report[m] = "none" /\ place[m] = "source"
    /\ place' = [place EXCEPT ![m] = "hidden"]
    /\ UNCHANGED <<report, stopped>>

Restore(m) ==
    /\ report[m] = "none" /\ place[m] = "hidden"
    /\ place' = [place EXCEPT ![m] = "source"]
    /\ UNCHANGED <<report, stopped>>

Place(m) ==
    /\ report[m] = "none" /\ place[m] = "hidden"
    /\ place' = [place EXCEPT ![m] = "destination"]
    /\ UNCHANGED <<report, stopped>>

Outcomes(m) ==
    (CASE place[m] = "source" -> {"failed", "skipped"}
       [] place[m] = "destination" -> {"completed"}
       [] place[m] = "overwritten" -> {"failed", "completed", "skipped"}
       [] OTHER -> {})
    \cup (IF m \in stopped THEN {"skipped"} ELSE {})

Report(m) ==
    /\ report[m] = "none"
    /\ \E result \in Outcomes(m) : report' = [report EXCEPT ![m] = result]
    /\ UNCHANGED <<place, stopped>>

Overwrite(m) ==
    /\ place' = [place EXCEPT ![m] = "overwritten"]
    /\ UNCHANGED <<report, stopped>>

\* An error, of one move or of the check that comes before them all.
Stop(group) == stopped' = stopped \cup group /\ UNCHANGED <<place, report>>

\* The end of the batch, or of the process.
Forget == stopped' = {} /\ UNCHANGED <<place, report>>

Next ==
    \/ \E m \in Moves : Hide(m) \/ Restore(m) \/ Place(m) \/ Report(m) \/ Overwrite(m)
    \/ \E group \in SUBSET Moves : Stop(group)
    \/ Forget

Spec == Init /\ [][Next]_<<place, report, stopped>>
=============================================================================
