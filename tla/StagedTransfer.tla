----------------------------- MODULE StagedTransfer -----------------------------
(***************************************************************************)
(* One file of a copy, a cross-volume move, a move to the Trash or a        *)
(* replacing rename, from the planned row to its last journal write, with a *)
(* crash possible between any two steps and the recovery pass of the next   *)
(* project open:                                                            *)
(*   operation/service/execution.rs   execute_prepared_item and the routes  *)
(*   operation/copy/*.rs              the staged copy and its lease         *)
(*   operation/conflict.rs            ReplaceExecutor                       *)
(*   operation/executor.rs            CopyExecutor::resume                  *)
(*   operation/service/results.rs     mark_failed, settle_recovery_required *)
(*   operation/recovery.rs            recover_copy, _trash, _replace and    *)
(*                                    recover_cross_volume_move             *)
(* The four routes move content through two hidden places: the part a copy  *)
(* is written to next to the destination, and the part a file is set aside  *)
(* in next to its source before it goes to the Trash or replaces another.   *)
(*                                                                         *)
(* Files: "orig" is the file of the command, "copy" its staged copy while   *)
(* and "partial" before it is complete, "old" the destination's previous    *)
(* file, "foreign" a file of another application.                           *)
(***************************************************************************)
EXTENDS Naturals, FiniteSets, Sequences

CONSTANTS
    Routes,         \* which routes to explore
    Lookalike,      \* whether the foreign file has the bytes of the original
    MaxOutside, MaxCrashes, MaxFaults

ASSUME TransferAssumption ==
    /\ Routes \subseteq {"Copy", "CrossMove", "Trash", "Replace"}
    /\ Lookalike \in BOOLEAN
    /\ {MaxOutside, MaxCrashes, MaxFaults} \subseteq Nat

VARIABLES
    batches, items,     \* the journal, with one batch of one row
    temp,               \* which place the row's registered temporary names
    route, policy,      \* how the item was prepared
    disk,               \* the file at each place
    trash, gone,        \* what is in the Trash; what another application took
    mode, step,         \* what the program is doing
    armed,              \* a live lease will unlink the copy's part when dropped
    told,               \* what the caller has been told
    reviewed,           \* recovery asked for review and nothing happened since
    refused,            \* why the project could last not be opened
    outside, crashes, faults

journal == <<batches, items, temp>>
prepared == <<route, policy>>
files == <<disk, trash, gone>>
control == <<mode, step, armed>>
bounds == <<outside, crashes, faults>>
vars == <<journal, prepared, files, control, told, reviewed, refused, bounds>>

Places == {"src", "dst", "copyPart", "sidePart"}
Hidden == {"copyPart", "sidePart"}
Contents == {"orig", "old", "copy", "partial", "foreign"}
NoFile == "none"

Journal == INSTANCE OperationJournal WITH
    Batches <- {"batch"}, Ops <- {1}, BatchOf <- [o \in {1} |-> "batch"],
    Policies <- {"Skip", "Replace"}, Destinations <- {"planned"}, MaxRequested <- 1

row == items[1]

Init ==
    /\ Journal!Init
    /\ temp = NoFile
    /\ route \in Routes
    /\ policy \in (CASE route = "Replace" -> {"Replace"}
                     [] route = "Trash" -> {"Skip"}
                     [] OTHER -> {"Skip", "Replace"})
    /\ disk = [p \in Places |-> IF p = "src" THEN "orig"
                                ELSE IF p = "dst" /\ policy = "Replace" THEN "old"
                                ELSE NoFile]
    /\ trash = {} /\ gone = {}
    /\ mode = "idle" /\ step = "none" /\ armed = FALSE
    /\ told = "nothing" /\ reviewed = FALSE /\ refused = "no"
    /\ outside = 0 /\ crashes = 0 /\ faults = 0

-----------------------------------------------------------------------------
(* Where the worker goes next. *)

Finish == <<"metadata", "index", "complete", "close">>
Stages ==
    [Copy |-> <<"begin", "create", "write", "stage", "apply", "verify", "clear", "place">>
              \o Finish,
     CrossMove |-> <<"begin", "create", "write", "stage", "apply", "verify", "clear", "place",
                     "compare", "aside", "discard">> \o Finish,
     Trash |-> <<"begin", "aside", "stage", "discard", "apply", "verify">> \o Finish,
     Replace |-> <<"begin", "aside", "stage", "clear", "place", "apply", "verify">> \o Finish]

Following ==
    IF mode = "recovering" /\ step = "verify"
    THEN IF route = "Copy" /\ disk["copyPart"] # NoFile THEN "place" ELSE "metadata"
    ELSE LET path == Stages[route]
             i == CHOOSE n \in DOMAIN path : path[n] = step
         IN path[i + 1]

GoTo(s) == step' = s /\ UNCHANGED mode

Executing(s) == mode = "executing" /\ step = s
Recovering(s) == mode = "recovering" /\ step = s
Working(s) == mode \in {"executing", "recovering"} /\ step = s

Shutdown == mode' = "closed" /\ step' = "none" /\ armed' = FALSE /\ told' = "nothing"

\* The bound a fault is counted against; n is 0 for an error that is nobody's fault.
Charge(n) == faults + n <= MaxFaults /\ faults' = faults + n /\ UNCHANGED <<outside, crashes>>

Move(from, to) == disk' = [disk EXCEPT ![to] = disk[from], ![from] = NoFile]
Vacate(p) == disk' = [disk EXCEPT ![p] = NoFile]

\* An error of the executing route.  The dropped lease unlinks the part it is bound
\* to and ignores a failure to do so.
Error(n) ==
    /\ \E kept \in IF armed THEN {0, 1} ELSE {0} :
          /\ Charge(n + kept)
          /\ IF armed /\ kept = 0 THEN Vacate("copyPart") ELSE UNCHANGED disk
    /\ armed' = FALSE
    /\ GoTo("fail")
    /\ UNCHANGED <<journal, prepared, trash, gone, told, reviewed, refused>>

\* Mutant: the copy at the destination is not compared with the one that was placed.
Compensate_Unverified(n) ==
    /\ \/ disk["dst"] # NoFile /\ trash' = trash \cup {disk["dst"]} /\ Vacate("dst") /\ Charge(n)
       \/ UNCHANGED <<disk, trash>> /\ (IF disk["dst"] = "copy" THEN Charge(n + 1) ELSE Charge(n))
    /\ GoTo("fail")
    /\ UNCHANGED <<journal, prepared, gone, armed, told, reviewed, refused>>

\* A cross-volume move that cannot get rid of its source first tries to trash the
\* copy it has placed, if that is still the file at the destination.
Compensate(n) ==
    /\ \/ disk["dst"] = "copy" /\ trash' = trash \cup {"copy"} /\ Vacate("dst") /\ Charge(n)
       \/ UNCHANGED <<disk, trash>> /\ (IF disk["dst"] = "copy" THEN Charge(n + 1) ELSE Charge(n))
    /\ GoTo("fail")
    /\ UNCHANGED <<journal, prepared, gone, armed, told, reviewed, refused>>

Refuse(n, why) ==
    /\ Charge(n) /\ Shutdown /\ refused' = why
    /\ UNCHANGED <<journal, prepared, files, reviewed>>

\* The journal call written in the action is all this step does.
JournalStep ==
    /\ GoTo(Following)
    /\ UNCHANGED <<prepared, files, armed, told, reviewed, refused, bounds>>

\* The files moved by the action are all this step does.
DiskStep ==
    /\ GoTo(Following)
    /\ UNCHANGED <<journal, prepared, gone, told, reviewed, refused, bounds>>

-----------------------------------------------------------------------------
(* Starting the item and staging its content. *)

Start ==
    /\ mode = "idle" /\ row.state = "Absent"
    /\ Journal!BeginPlan("batch", {1}, policy, "planned")
    /\ mode' = "executing" /\ step' = "begin"
    /\ UNCHANGED <<temp, prepared, files, armed, told, reviewed, refused, bounds>>

\* revalidate_source, revalidate_replace_destination and the route's own look.
StillAsPrepared ==
    /\ disk["src"] = "orig"
    /\ IF policy = "Replace" THEN disk["dst"] = "old"
       ELSE route = "Trash" \/ disk["dst"] = NoFile

Begin ==
    /\ Executing("begin") /\ StillAsPrepared
    /\ IF route \in {"Copy", "CrossMove"}
       THEN Journal!RegisterTemporary(1, "Prepared") /\ temp' = "copyPart"
       ELSE Journal!RecordPreparedEvidence(1) /\ temp' = "sidePart"
    /\ JournalStep

BeginChanged == Executing("begin") /\ ~StillAsPrepared /\ Error(0)

BeginCancelled ==
    /\ Executing("begin") /\ GoTo("cancel")
    /\ UNCHANGED <<journal, prepared, files, armed, told, reviewed, refused, bounds>>

Create ==
    /\ Executing("create") /\ disk["src"] = "orig"
    /\ disk' = [disk EXCEPT !["copyPart"] = "partial"] /\ armed' = TRUE
    /\ UNCHANGED trash /\ DiskStep

CreateChanged == Executing("create") /\ disk["src"] # "orig" /\ Error(0)

\* The file exists but its identity could not be bound: nothing may remove it.
CreateUnbound ==
    /\ Executing("create") /\ disk["src"] = "orig"
    /\ disk' = [disk EXCEPT !["copyPart"] = "partial"]
    /\ Charge(1) /\ GoTo("keepFailed")
    /\ UNCHANGED <<journal, prepared, trash, gone, armed, told, reviewed, refused>>

Write ==
    /\ Executing("write") /\ disk["src"] = "orig"
    /\ disk' = [disk EXCEPT !["copyPart"] = "copy"]
    /\ UNCHANGED <<trash, armed>> /\ DiskStep

\* Mutant: a failed clean-up of the part is reported as an ordinary error.
Unstage_NoObligation(n, clean, keep) ==
    /\ \/ Vacate("copyPart") /\ Charge(n) /\ GoTo(clean)
       \/ (Vacate("copyPart") \/ UNCHANGED disk) /\ Charge(n + 1) /\ GoTo(clean)
    /\ armed' = FALSE
    /\ UNCHANGED <<journal, prepared, trash, gone, told, reviewed, refused>>

\* bound_copy_cleanup_error: the part is unlinked and its directory synced, or the
\* error says that the registered temporary needs cleaning up.
Unstage(n, clean, keep) ==
    /\ \/ Vacate("copyPart") /\ Charge(n) /\ GoTo(clean)
       \/ (Vacate("copyPart") \/ UNCHANGED disk) /\ Charge(n + 1) /\ GoTo(keep)
    /\ armed' = FALSE
    /\ UNCHANGED <<journal, prepared, trash, gone, told, reviewed, refused>>

WriteFails ==
    Executing("write") /\ Unstage(IF disk["src"] = "orig" THEN 1 ELSE 0, "fail", "keepFailed")
WriteCancelled == Executing("write") /\ Unstage(0, "cancel", "keepCancelled")

Stage == Executing("stage") /\ Journal!Advance(1, "Prepared", "Staged") /\ UNCHANGED temp /\ JournalStep

Apply == Working("apply") /\ Journal!RecordFsApplied(1) /\ UNCHANGED temp /\ JournalStep

Verify == Working("verify") /\ Journal!Advance(1, "FsApplied", "Verified") /\ UNCHANGED temp /\ JournalStep

-----------------------------------------------------------------------------
(* Clearing the destination and filling it. *)

Clear ==
    /\ Executing("clear")
    /\ \/ policy = "Replace" /\ disk["dst"] = "old"
          /\ trash' = trash \cup {"old"} /\ Vacate("dst")
       \/ route # "Replace" /\ (policy = "Skip" \/ disk["dst"] = NoFile)
          /\ UNCHANGED <<trash, disk>>
    /\ UNCHANGED armed /\ DiskStep

ClearChanged ==
    /\ Executing("clear") /\ policy = "Replace" /\ disk["dst"] # "old"
    /\ IF route = "Replace"
       THEN /\ GoTo("putBack")
            /\ UNCHANGED <<journal, prepared, files, armed, told, reviewed, refused, bounds>>
       ELSE disk["dst"] # NoFile /\ Error(0)

PutBack ==
    /\ Executing("putBack")
    /\ IF disk["src"] = NoFile
       THEN /\ Move("sidePart", "src") /\ GoTo("giveUp")
            /\ UNCHANGED <<journal, prepared, trash, gone, armed, told, reviewed, refused, bounds>>
       ELSE Error(0)

GiveUp ==
    /\ Executing("giveUp")
    /\ Journal!FailItem(1, "Staged", FALSE) /\ temp' = NoFile
    /\ GoTo("fail")
    /\ UNCHANGED <<prepared, files, armed, told, reviewed, refused, bounds>>

Staging == IF route = "Replace" THEN "sidePart" ELSE "copyPart"

Place ==
    /\ Working("place") /\ disk["dst"] = NoFile
    /\ Move(Staging, "dst") /\ armed' = FALSE
    /\ UNCHANGED trash /\ DiskStep

PlaceOccupied ==
    /\ disk["dst"] # NoFile
    /\ \/ Executing("place") /\ Error(0)
       \/ Recovering("place") /\ Refuse(0, "io")

\* An error before the rename cleans the staged copy up; one after it leaves the
\* file at the destination.
PlaceFails ==
    \/ Executing("place") /\ disk["dst"] = NoFile /\ Charge(1)
       /\ Move(Staging, "dst") /\ armed' = FALSE /\ GoTo("fail")
       /\ UNCHANGED <<journal, prepared, trash, gone, told, reviewed, refused>>
    \/ Executing("place") /\ route # "Replace" /\ Unstage(1, "fail", "keepFailed")
    \/ Executing("place") /\ route = "Replace" /\ Error(1)

\* place_verified meets a staged copy that is no longer the one it has hashed.
PlaceIdentityChanged ==
    /\ Recovering("place") /\ Charge(1)
    /\ Journal!FailItem(1, "Verified", TRUE) /\ UNCHANGED temp
    /\ Shutdown /\ refused' = "io"
    /\ UNCHANGED <<prepared, files, reviewed>>

-----------------------------------------------------------------------------
(* Taking the source away. *)

Compare ==
    /\ Executing("compare") /\ disk["src"] = "orig"
    /\ Journal!RegisterTemporary(1, "Verified") /\ temp' = "sidePart" /\ JournalStep

CompareChanged == Executing("compare") /\ disk["src"] # "orig" /\ Compensate(0)

Aside ==
    /\ Executing("aside") /\ disk["src"] = "orig"
    /\ Move("src", "sidePart") /\ UNCHANGED <<trash, armed>> /\ DiskStep

AsideChanged ==
    /\ Executing("aside") /\ disk["src"] # "orig"
    /\ IF route = "CrossMove" THEN Compensate(0) ELSE Error(0)

\* The file set aside cannot be read back (or its directory not synced): the error
\* is returned at once, without compensation.  That it reads differently, and is put
\* back, takes a writer inside rename_verified, which is one step here.
AsideUnverified ==
    /\ Executing("aside") /\ disk["src"] = "orig"
    /\ Move("src", "sidePart") /\ Charge(1) /\ GoTo("fail")
    /\ UNCHANGED <<journal, prepared, trash, gone, armed, told, reviewed, refused>>

\* Mutant: the last check of a cross-volume move compensates like the earlier ones.
Discard_CompensatesLate ==
    /\ Executing("discard")
    /\ IF disk["src"] = NoFile
       THEN trash' = trash \cup {"orig"} /\ Vacate("sidePart") /\ UNCHANGED armed /\ DiskStep
       ELSE /\ trash' = trash \cup {"orig", disk["dst"]}
            /\ disk' = [disk EXCEPT !["sidePart"] = NoFile, !["dst"] = NoFile]
            /\ GoTo("fail")
            /\ UNCHANGED <<journal, prepared, gone, armed, told, reviewed, refused, bounds>>

Discard ==
    /\ Executing("discard")
    /\ trash' = trash \cup {"orig"} /\ Vacate("sidePart")
    /\ IF disk["src"] = NoFile THEN UNCHANGED armed /\ DiskStep
       ELSE /\ GoTo("fail")
            /\ UNCHANGED <<journal, prepared, gone, armed, told, reviewed, refused, bounds>>

\* An I/O error before the step has changed anything.
StepFails ==
    /\ mode = "executing"
    /\ step \in {"begin", "create", "stage", "apply", "verify", "clear", "compare", "putBack",
                 "giveUp", "aside", "discard", "metadata", "index", "complete"}
    /\ IF route = "CrossMove" /\ step \in {"aside", "discard"} THEN Compensate(1) ELSE Error(1)

-----------------------------------------------------------------------------
(* Ending the item. *)

Metadata ==
    Working("metadata") /\ Journal!Advance(1, "Verified", "MetaCommitted") /\ UNCHANGED temp /\ JournalStep
Index ==
    Working("index") /\ Journal!Advance(1, "MetaCommitted", "IndexSynced") /\ UNCHANGED temp /\ JournalStep

Complete ==
    /\ Working("complete")
    /\ Journal!CompleteItem(1, "IndexSynced") /\ temp' = NoFile
    /\ told' = (IF mode = "executing" THEN "completed" ELSE told)
    /\ GoTo(Following)
    /\ UNCHANGED <<prepared, files, armed, reviewed, refused, bounds>>

\* mark_failed's idea of a row that has had no effect.
Untouched ==
    \/ row.state = "Prepared" /\ disk["src"] # NoFile /\ (temp = NoFile \/ disk[temp] = NoFile)
    \/ row.state = "Staged" /\ disk["src"] # NoFile /\ (temp = NoFile \/ disk[temp] = NoFile)
       /\ (route = "Trash" \/ disk["dst"] = NoFile)

\* Mutant: mark_failed ends every live row.
MarkFailed_Always ==
    /\ Executing("fail")
    /\ IF row.state \in Journal!LiveStates
       THEN Journal!FailItem(1, row.state, FALSE) /\ temp' = NoFile
       ELSE UNCHANGED journal
    /\ told' = "failed" /\ GoTo("close")
    /\ UNCHANGED <<prepared, files, armed, reviewed, refused, bounds>>

MarkFailed ==
    /\ Executing("fail")
    /\ IF Untouched THEN Journal!FailItem(1, row.state, FALSE) /\ temp' = NoFile
                    ELSE UNCHANGED journal
    /\ told' = "failed" /\ GoTo("close")
    /\ UNCHANGED <<prepared, files, armed, reviewed, refused, bounds>>

MarkCancelled ==
    /\ Executing("cancel")
    /\ Journal!SkipItem(1, row.state, FALSE) /\ temp' = NoFile
    /\ told' = "cancelled" /\ GoTo("close")
    /\ UNCHANGED <<prepared, files, armed, reviewed, refused, bounds>>

\* settle_recovery_required: the row is ended and keeps its temporary.
SettleRecoveryRequired ==
    /\ \/ Executing("keepCancelled") /\ Journal!SkipItem(1, row.state, TRUE) /\ told' = "cancelled"
       \/ Executing("keepFailed") /\ Journal!FailItem(1, row.state, TRUE) /\ told' = "failed"
    /\ GoTo("close")
    /\ UNCHANGED <<temp, prepared, files, armed, reviewed, refused, bounds>>

CloseBatch ==
    /\ Working("close")
    /\ IF batches["batch"].state = "Running" /\ Journal!Accounted("batch") = batches["batch"].requested
       THEN Journal!FinishBatch("batch") ELSE UNCHANGED <<batches, items>>
    /\ mode' = "idle" /\ step' = "none"
    /\ UNCHANGED <<temp, prepared, files, armed, told, reviewed, refused, bounds>>

-----------------------------------------------------------------------------
(* Recovery. *)

\* candidate_status compares the size and hash the row recorded.
Same == {"orig", "copy"} \cup (IF Lookalike THEN {"foreign"} ELSE {})
Status(p) == IF p = NoFile \/ disk[p] = NoFile THEN "Missing"
             ELSE IF disk[p] \in Same THEN "Match" ELSE "Conflict"

SourceStatus == Status("src")
DestinationStatus == Status("dst")
TempStatus == Status(temp)

OnlyAt(place) ==
    /\ SourceStatus = (IF place = "src" THEN "Match" ELSE "Missing")
    /\ DestinationStatus = (IF place = "dst" THEN "Match" ELSE "Missing")
    /\ TempStatus = "Missing"

\* finish_from: what is left to do for a row whose files are in place.
FinishFrom == CASE row.state = "FsApplied" -> "verify"
                [] row.state = "Verified" -> "metadata"
                [] row.state = "MetaCommitted" -> "index"
                [] row.state = "IndexSynced" -> "complete"
                [] row.state \in Journal!Terminal -> "close"

Early == {"Prepared", "Staged"}

RecoverCopy ==
    IF temp # "copyPart" THEN "review"
    ELSE CASE row.state \in Early ->
                IF disk["src"] # NoFile /\ disk["copyPart"] = NoFile THEN "fail" ELSE "review"
           [] row.state \in Journal!Terminal ->
                IF disk["copyPart"] = NoFile THEN "resolve" ELSE "review"
           [] OTHER ->
                IF {TempStatus, DestinationStatus} # {"Match", "Missing"} THEN "review"
                ELSE IF TempStatus = "Missing" THEN FinishFrom
                ELSE CASE row.state = "FsApplied" -> "verify"
                       [] row.state = "Verified" -> "place"
                       [] OTHER -> "review"

\* Mutant: a file set aside for the Trash is not put back.
RecoverTrash_NoRestore ==
    IF ~row.evidence \/ temp # "sidePart" THEN "review"
    ELSE CASE row.state \in Early /\ SourceStatus = "Match" /\ TempStatus = "Missing" -> "fail"
           [] SourceStatus = "Missing" /\ TempStatus = "Missing" ->
                IF row.state = "Staged" THEN "apply"
                ELSE IF row.state \in Journal!AppliedStates THEN FinishFrom ELSE "review"
           [] OTHER -> "review"

RecoverTrash ==
    IF ~row.evidence \/ temp # "sidePart" THEN "review"
    ELSE CASE row.state \in Early /\ SourceStatus = "Match" /\ TempStatus = "Missing" -> "fail"
           [] row.state \in Early /\ SourceStatus = "Missing" /\ TempStatus = "Match" -> "restore"
           [] SourceStatus = "Missing" /\ TempStatus = "Missing" ->
                IF row.state = "Staged" THEN "apply"
                ELSE IF row.state \in Journal!AppliedStates THEN FinishFrom ELSE "review"
           [] OTHER -> "review"

\* A move whose rule is Replace comes here on either route, but only the same-volume
\* one has the temporary it expects.
RecoverReplace ==
    IF \/ ~row.evidence \/ temp # "sidePart" \/ route = "CrossMove"
       \/ DestinationStatus = "Match" /\ "Match" \in {SourceStatus, TempStatus}
    THEN "review"
    ELSE CASE row.state = "Prepared" /\ SourceStatus = "Match" /\ TempStatus = "Missing" -> "fail"
           [] row.state \in Early /\ SourceStatus = "Missing" /\ TempStatus = "Match" -> "restore"
           [] OnlyAt("dst") -> IF row.state = "Staged" THEN "apply"
                               ELSE IF row.state \in Journal!AppliedStates THEN FinishFrom
                               ELSE "review"
           [] OTHER -> "review"

\* Mutant: a source that matches is taken for proof that nothing was placed.
RecoverCrossVolumeMove_IgnoresDestination ==
    IF SourceStatus = "Match" /\ TempStatus = "Missing" THEN "fail" ELSE "review"

\* A row that names neither part is recovered as a plain rename, which wants evidence.
RecoverCrossVolumeMove ==
    IF temp = NoFile THEN "review"
    ELSE IF ~row.evidence
    THEN IF disk["src"] # NoFile /\ disk[temp] = NoFile THEN "fail" ELSE "review"
    ELSE CASE /\ SourceStatus = "Match" /\ DestinationStatus = "Missing"
              /\ TempStatus = "Missing" -> "fail"
           [] OnlyAt("dst") -> FinishFrom
           [] OTHER -> "review"

Decision ==
    CASE route = "Copy" -> RecoverCopy
      [] route = "Trash" -> RecoverTrash
      [] OTHER -> IF policy = "Replace" THEN RecoverReplace ELSE RecoverCrossVolumeMove

Open ==
    /\ mode = "closed" /\ refused' = "no"
    /\ IF 1 \in Journal!IncompleteItems
       THEN mode' = "recovering" /\ step' = "choose"
       ELSE mode' = "idle" /\ step' = "none"
    /\ UNCHANGED <<journal, prepared, files, armed, told, reviewed, bounds>>

Choose ==
    /\ Recovering("choose")
    /\ step' = (IF Decision = "review" THEN "close" ELSE Decision) /\ UNCHANGED mode
    /\ reviewed' = (Decision = "review")
    /\ UNCHANGED <<journal, prepared, files, armed, told, refused, bounds>>

\* RecoveryService::mark_failed: the journal refuses a row that has its result.
RecoverFail ==
    /\ Recovering("fail")
    /\ IF row.state \in Journal!LiveStates
       THEN /\ Journal!FailItem(1, row.state, FALSE) /\ temp' = NoFile /\ GoTo("close")
            /\ UNCHANGED <<prepared, files, armed, told, reviewed, refused, bounds>>
       ELSE Refuse(0, "journal")

Resolve ==
    /\ Recovering("resolve")
    /\ Journal!ResolveRecoveryObligation(1, row.state) /\ temp' = NoFile /\ GoTo("close")
    /\ UNCHANGED <<prepared, files, armed, told, reviewed, refused, bounds>>

Restore ==
    /\ Recovering("restore")
    /\ IF disk["src"] = NoFile
       THEN /\ Move("sidePart", "src") /\ GoTo("fail")
            /\ UNCHANGED <<journal, prepared, trash, gone, armed, told, reviewed, refused, bounds>>
       ELSE Refuse(0, "io")

RecoverFaults == mode = "recovering" /\ step # "close" /\ Refuse(1, "io")

-----------------------------------------------------------------------------
(* What happens around the program. *)

CloseProject ==
    /\ mode = "idle" /\ row.state # "Absent" /\ Shutdown
    /\ UNCHANGED <<journal, prepared, files, reviewed, refused, bounds>>

Crash ==
    /\ mode \in {"executing", "recovering"} /\ crashes < MaxCrashes
    /\ crashes' = crashes + 1 /\ Shutdown
    /\ UNCHANGED <<journal, prepared, files, reviewed, refused, outside, faults>>

\* Another application creates a file where there is none, or takes one away; the
\* hidden parts are only touched while the project is closed.
Appear(p) == disk[p] = NoFile /\ disk' = [disk EXCEPT ![p] = "foreign"] /\ UNCHANGED gone
Take(p) == disk[p] # NoFile /\ Vacate(p) /\ gone' = gone \cup {disk[p]}

Interfere ==
    /\ outside < MaxOutside /\ outside' = outside + 1
    /\ \/ \E p \in {"src", "dst"} : Appear(p) \/ Take(p)
       \/ mode = "closed" /\ \E p \in Hidden : Take(p)
    /\ reviewed' = FALSE
    /\ UNCHANGED <<journal, prepared, trash, control, told, refused, crashes, faults>>

-----------------------------------------------------------------------------
StageContent == Begin \/ BeginChanged \/ BeginCancelled \/ Create \/ CreateChanged \/ CreateUnbound
                \/ Write \/ WriteFails \/ WriteCancelled \/ Stage \/ Apply \/ Verify
FillDestination == Clear \/ ClearChanged \/ PutBack \/ GiveUp \/ Place \/ PlaceOccupied
                   \/ PlaceFails \/ PlaceIdentityChanged
RemoveSource == Compare \/ CompareChanged \/ Aside \/ AsideChanged \/ AsideUnverified \/ Discard
EndItem == Metadata \/ Index \/ Complete \/ MarkFailed \/ MarkCancelled
           \/ SettleRecoveryRequired \/ CloseBatch \/ StepFails
Recover == Choose \/ RecoverFail \/ Resolve \/ Restore \/ RecoverFaults

Work == StageContent \/ FillDestination \/ RemoveSource \/ EndItem \/ Recover
Next == Start \/ Work \/ Open \/ CloseProject \/ Crash \/ Interfere

Spec == Init /\ [][Next]_vars
-----------------------------------------------------------------------------
(* What the program owes its user. *)

OnDisk == {disk[p] : p \in Places}
Somewhere(f) == f \in OnDisk \cup gone

\* Whatever goes wrong, the file of the command is on disk; it is in the Trash only for
\* a move to the Trash, or when a cross-volume move has left the copy in its place, and
\* never are both in the Trash (the compensations of execute_copy_route).
SourceSurvives ==
    \/ Somewhere("orig")
    \/ "orig" \in trash /\ (route = "Trash" \/ (route = "CrossMove" /\ Somewhere("copy")))

\* The file that is replaced goes to the Trash only when the user chose Replace, and
\* from then on the replacement is at the source, at the registered temporary or at
\* the destination, also after a failed placement (ADR 0002, conflict policy).
ReplacedOnlyForItsSuccessor ==
    /\ policy = "Replace" => Somewhere("old") \/ "old" \in trash
    /\ "old" \in trash =>
          /\ policy = "Replace"
          /\ \/ {"orig", "copy"} \cap gone # {}
             \/ \E p \in {"src", "dst", temp} \ {NoFile} : disk[p] \in {"orig", "copy"}

\* No step of the program, and no decision of recovery, moves, trashes or overwrites
\* the file of another application, even one with the very bytes it looks for.
ForeignFilesStay ==
    [][outside' = outside =>
          \A p \in Places : disk[p] = "foreign" => disk'[p] = "foreign"]_vars

\* A hidden part is always the registered temporary of a row that the next project
\* open will look at: nothing is left behind that nobody knows of.
HiddenPartIsTracked ==
    \A p \in Hidden : disk[p] # NoFile => temp = p /\ 1 \in Journal!IncompleteItems

\* A result is only recorded when the disk shows it: the content of a completed item has
\* arrived and a moved one has left; a failed or skipped one has its file at the source,
\* or another file stands there (mark_failed only asks for a file), and no copy of it has
\* been left at the destination.  And whatever way an item takes through failures,
\* cancellations and obligations, the caller is told what the row has recorded.
Arrived == IF route = "Trash" THEN "orig" \in trash \cup gone
           ELSE \E f \in {disk["dst"]} \cup gone : f \in Same
Left == route = "Copy" \/ disk["src"] # "orig"
Recorded == CASE told = "completed" -> {"completed"}
              [] told = "cancelled" -> {"skipped"}
              [] told = "failed" -> {"failed", "none"}
              [] OTHER -> {row.result}
ResultsAreTrue ==
    [][/\ row.result = "none" /\ row'.result # "none" =>
            IF row'.result = "completed" THEN Arrived /\ Left
            ELSE /\ {"orig", "foreign"} \cap ({disk["src"]} \cup gone) # {}
                 /\ disk["dst"] \notin {"orig", "copy"}
       /\ mode' = "idle" => row'.result \in Recorded']_vars

\* When nothing but crashes has happened, recovery leaves a row for review only where
\* the disk cannot say what to do: no temporary was registered yet, a copy part of
\* unproven ownership lies there, a cross-volume move has its content in two places or
\* asked to replace a file, or a second crash came after a replacing file was put back
\* and before its row was failed.  And then no call that recovery makes is refused by the
\* journal, which would keep the project from being opened.
Undecidable ==
    \/ temp = NoFile
    \/ row.state \in Early /\ disk["copyPart"] # NoFile
    \/ route = "Copy" /\ policy = "Replace" /\ disk["dst"] = "old"
    \/ route = "Replace" /\ row.state = "Staged" /\ disk["src"] = "orig"
    \/ route = "CrossMove" /\ (policy = "Replace" \/ {"orig", "copy"} \subseteq OnDisk)
CrashAloneIsResolved ==
    faults + outside = 0 => (reviewed => Undecidable) /\ refused # "journal"

=============================================================================
