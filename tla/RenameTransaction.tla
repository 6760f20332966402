--------------------------- MODULE RenameTransaction ---------------------------
(***************************************************************************)
(* One batch of renames (one component of a rename plan), from the prepared *)
(* plan to the last journal write, with a crash possible between any two   *)
(* steps and the recovery pass that the next project open runs:            *)
(*   operation/rename.rs              RenamePlanner, RenameExecutor        *)
(*   operation/service/execution.rs   execute_rename_group,                *)
(*                                    settle_unstarted_item                *)
(*   operation/service/results.rs     mark_failed, mark_cancelled,         *)
(*                                    maybe_finish_batch                   *)
(*   file_commands.rs                 the loop of execute over the batch   *)
(*   operation/recovery.rs            recover_project, recover_rename      *)
(*   src-tauri .../commit.rs          the metadata barrier and sync_index  *)
(*   portable/markers.rs              apply_path_moves                     *)
(*                                                                         *)
(* Every file of the plan is first renamed to a hidden sibling, the "part" *)
(* of its operation, and then to its destination, so cycles are possible.  *)
(* Review markers are stored by path and have to follow their file.        *)
(*                                                                         *)
(* Operation o is the o-th mapping of the plan; the file it renames is     *)
(* called o too.  Foreign is a file of another application.                *)
(***************************************************************************)
EXTENDS Naturals, FiniteSets, Sequences

CONSTANTS
    N,              \* mappings in the plan
    Paths,          \* visible paths of the project
    Src, Dst,       \* source and destination path of each mapping
    HashOf,         \* content hash of each file; two files may have equal bytes
    Marked,         \* the files that carry a review marker
    Dormant,        \* free paths where a trashed file left its marker
    Outside,        \* what other applications do: "appear", "leave", "replace"
    ClockTies,      \* whether updated_at_ms may fail to order journal writes
    Cancels,        \* whether the user may cancel the batch
    MaxOutside, MaxCrashes, MaxFaults

Ops == 1..N
NoFile == 0
Foreign == N + 1
Files == 1..(N + 1)

ASSUME PlanAssumption ==
    /\ N \in Nat \ {0}
    /\ Src \in [Ops -> Paths] /\ Dst \in [Ops -> Paths]
    /\ {"part", "gone"} \cap Paths = {}       \* what index holds instead of a path
    /\ \A o, q \in Ops : o # q => Src[o] # Src[q] /\ Dst[o] # Dst[q]
    /\ \A o \in Ops : Src[o] # Dst[o]
    /\ DOMAIN HashOf = Files
    /\ Marked \subseteq Ops
    /\ Dormant \subseteq Paths \ {Src[o] : o \in Ops}
    /\ Outside \subseteq {"appear", "leave", "replace"}
    /\ {ClockTies, Cancels} \subseteq BOOLEAN
    /\ {MaxOutside, MaxCrashes, MaxFaults} \subseteq Nat

VARIABLES
    batches, items,     \* the journal
    at,                 \* the file at each visible path
    part,               \* the file at each operation's hidden sibling path
    markAt, markPart,   \* whose review marker is stored under those paths
    index,              \* where the session index lists each file
    mode,               \* "closed", "recovering", "idle" or "executing"
    op, step,           \* the operation the worker is at, and its next step
    failed,             \* operations whose status is already Failed
    todo,               \* what recover_project has still to look at
    recency,            \* operations by updated_at_ms
    destroyed,          \* files another application has overwritten
    cancelled,          \* the batch's cancellation token
    outside, crashes, faults

disk == <<at, part>>
markers == <<markAt, markPart>>
journal == <<batches, items, recency>>
worker == <<mode, op, step, failed, todo>>
environment == <<destroyed, cancelled, outside, crashes, faults>>
vars == <<disk, markers, journal, worker, environment, index>>

Batch == "batch"
Journal == INSTANCE OperationJournal WITH
    Batches <- {Batch}, BatchOf <- [o \in Ops |-> Batch],
    Policies <- {"Skip"}, Destinations <- {"planned"}, MaxRequested <- N

Init ==
    /\ Journal!Init
    /\ at = [p \in Paths |-> IF \E o \in Ops : Src[o] = p
                             THEN CHOOSE o \in Ops : Src[o] = p ELSE NoFile]
    /\ part = [o \in Ops |-> NoFile]
    /\ markAt = [p \in Paths |-> IF at[p] \in Marked THEN at[p]
                                 ELSE IF p \in Dormant THEN Foreign ELSE NoFile]
    /\ markPart = [o \in Ops |-> NoFile]
    /\ index = Src
    /\ mode = "idle" /\ op = 1 /\ step = "none" /\ failed = {} /\ todo = {}
    /\ recency = [o \in Ops |-> o]
    /\ destroyed = {} /\ cancelled = FALSE /\ outside = 0 /\ crashes = 0 /\ faults = 0

-----------------------------------------------------------------------------
(* Where the worker goes next. *)

\* The executor's passes: fingerprint everything, move everything aside, move
\* everything in, then decide what to do with the operations that failed.
Passes == <<"prepare", "moveOut", "moveIn", "settle">>
PassOf(s) == IF s \in {"revalidate", "prepare"} THEN 1
             ELSE IF s \in {"moveOut", "stage"} THEN 2
             ELSE IF s = "settle" THEN 4 ELSE 3

Due(pass, o, lost) == CASE pass = 1 -> TRUE
                        [] pass \in {2, 3} -> o \notin lost
                        [] OTHER -> o \in lost

Stops(pass, o, lost) ==
    {s \in (1..4) \X Ops : /\ s[1] > pass \/ (s[1] = pass /\ s[2] > o)
                           /\ Due(s[1], s[2], lost)}

Earliest(stops) == CHOOSE s \in stops :
    \A r \in stops : s[1] < r[1] \/ (s[1] = r[1] /\ s[2] <= r[2])

Stay(next) == step' = next /\ UNCHANGED <<mode, op, failed, todo>>

\* Nothing more is done for op, whose status is Failed when op is in lost.
MoveOn(lost) ==
    /\ UNCHANGED mode
    /\ failed' = lost
    /\ IF mode = "recovering"
       THEN step' = "choose" /\ op' = 1 /\ todo' = todo \ {op}
       ELSE LET stops == Stops(PassOf(step), op, lost) IN
            /\ todo' = todo
            /\ IF stops = {} THEN step' = "turn" /\ op' = 1
               ELSE step' = Passes[Earliest(stops)[1]] /\ op' = Earliest(stops)[2]

Shutdown == mode' = "closed" /\ op' = 1 /\ step' = "none" /\ failed' = {} /\ todo' = {}

\* An error: the executor records the operation as Failed and goes on with the
\* others; recover_project returns it and the project is not opened.
Fails == IF mode = "executing" THEN MoveOn(failed \cup {op}) ELSE Shutdown

\* A journal write stamps the row with the wall clock.
Touch(o) == recency' = IF ClockTies THEN recency
                       ELSE Append(SelectSeq(recency, LAMBDA q : q # o), o)

\* Mutant: a file with other contents is taken for none.
Status_OthersIgnored(file, o) ==
    IF file # NoFile /\ HashOf[file] = HashOf[o] THEN "Match" ELSE "Missing"

\* candidate_status compares size and hash only.
Status(file, o) == IF file = NoFile THEN "Missing"
                   ELSE IF HashOf[file] = HashOf[o] THEN "Match" ELSE "Conflict"
SourceStatus(o) == Status(at[Src[o]], o)
DestinationStatus(o) == Status(at[Dst[o]], o)

\* Mutant: the hidden sibling of a Prepared row is not looked at.
PartStatus_StagedOnly(o) == IF items[o].state = "Staged" THEN Status(part[o], o) ELSE "Missing"

PartStatus(o) == IF items[o].temporary THEN Status(part[o], o) ELSE "Missing"

-----------------------------------------------------------------------------
(* The executor. *)

\* begin_plan, after the planner has checked sources, destinations and parts.
BeginPlan ==
    /\ mode = "idle"
    /\ \A o \in Ops : at[Src[o]] # NoFile /\ part[o] = NoFile
    /\ \A o \in Ops : at[Dst[o]] # NoFile => \E q \in Ops : Src[q] = Dst[o]
    /\ Journal!BeginPlan(Batch, Ops, "Skip", "planned")
    /\ mode' = "executing" /\ step' = "revalidate" /\ op' = 1
    /\ UNCHANGED <<disk, markers, environment, index, recency, failed, todo>>

\* A source that no longer is the previewed file fails the whole component.
Revalidate ==
    /\ step = "revalidate" /\ ~cancelled
    /\ step' = IF \A o \in Ops : at[Src[o]] = o THEN "prepare" ELSE "settle"
    /\ failed' = IF \A o \in Ops : at[Src[o]] = o THEN {} ELSE Ops
    /\ UNCHANGED <<disk, markers, journal, environment, index, mode, op, todo>>

Prepare ==
    /\ step = "prepare"
    /\ IF at[Src[op]] = op
       THEN Journal!RecordPreparedEvidence(op) /\ Touch(op) /\ MoveOn(failed)
       ELSE Fails /\ UNCHANGED journal
    /\ UNCHANGED <<disk, markers, environment, index>>

\* rename_verified: refuses another identity and an occupied destination.
MoveOut ==
    /\ step = "moveOut"
    /\ IF at[Src[op]] = op /\ part[op] = NoFile
       THEN /\ at' = [at EXCEPT ![Src[op]] = NoFile]
            /\ part' = [part EXCEPT ![op] = op]
            /\ Stay("stage")
       ELSE Fails /\ UNCHANGED disk
    /\ UNCHANGED <<markers, journal, environment, index>>

Stage ==
    /\ step = "stage"
    /\ Journal!Advance(op, "Prepared", "Staged") /\ Touch(op)
    /\ MoveOn(failed)
    /\ UNCHANGED <<disk, markers, environment, index>>

\* Mutant: the rename into place replaces whatever occupies the destination.
MoveIn_Replacing ==
    /\ step = "moveIn"
    /\ at' = [at EXCEPT ![Dst[op]] = part[op]]
    /\ part' = [part EXCEPT ![op] = NoFile]
    /\ Stay("confirm")
    /\ UNCHANGED <<markers, journal, environment, index>>

\* execute_final_stage, and place_and_finish in recovery.
MoveIn ==
    /\ step = "moveIn"
    /\ IF at[Dst[op]] = NoFile /\ part[op] # NoFile
       THEN /\ at' = [at EXCEPT ![Dst[op]] = part[op]]
            /\ part' = [part EXCEPT ![op] = NoFile]
            /\ Stay("confirm")
       ELSE Fails /\ UNCHANGED disk
    /\ UNCHANGED <<markers, journal, environment, index>>

\* The destination is read again: the executor wants the same file there, recovery
\* the same size and hash.
Confirm ==
    /\ step = "confirm"
    /\ IF IF mode = "executing" THEN at[Dst[op]] = op ELSE DestinationStatus(op) = "Match"
       THEN Stay("apply") ELSE Fails
    /\ UNCHANGED <<disk, markers, journal, environment, index>>

Apply ==
    /\ step = "apply"
    /\ Journal!RecordFsApplied(op) /\ Touch(op) /\ Stay("verify")
    /\ UNCHANGED <<disk, markers, environment, index>>

Verify ==
    /\ step = "verify"
    /\ Journal!Advance(op, "FsApplied", "Verified") /\ Touch(op)
    /\ Stay("metadata")
    /\ UNCHANGED <<disk, markers, environment, index>>

-----------------------------------------------------------------------------
(* The metadata barrier: commit_metadata and move_paths. *)

\* The other operation whose file was at o's destination, with its marker still
\* there and a registered part to take it to.
Blockers(o) ==
    {b \in Ops \ {o} : /\ Src[b] = Dst[o]
                       /\ b \in Journal!IncompleteItems /\ items[b].temporary
                       /\ markAt[Src[b]] # NoFile}

\* marker_source: the part is looked up before the source path.
MarkerInPart(o) == items[o].temporary /\ markPart[o] # NoFile

\* Mutant: the source path is looked up first.
Carried_SourceFirst(o) == IF markAt[Src[o]] # NoFile THEN markAt[Src[o]] ELSE markPart[o]

Carried(o) == IF MarkerInPart(o) THEN markPart[o] ELSE markAt[Src[o]]
Vacated(o) == {Src[b] : b \in Blockers(o)}
              \cup (IF MarkerInPart(o) THEN {} ELSE {Src[o]})

\* move_paths rejects a move onto a row that is not moving itself.
MarkerCollision(o) ==
    \/ Carried(o) # NoFile /\ markAt[Dst[o]] # NoFile /\ Dst[o] \notin Vacated(o)
    \/ \E b \in Blockers(o) : markPart[b] # NoFile

CommitMetadata ==
    /\ step = "metadata"
    /\ IF MarkerCollision(op)
       THEN Fails /\ UNCHANGED markers
       ELSE /\ markAt' = [p \in Paths |->
                  IF p = Dst[op] /\ Carried(op) # NoFile THEN Carried(op)
                  ELSE IF p \in Vacated(op) THEN NoFile ELSE markAt[p]]
            /\ markPart' = [o \in Ops |->
                  IF o \in Blockers(op) THEN markAt[Src[o]]
                  ELSE IF o = op /\ MarkerInPart(op) THEN NoFile ELSE markPart[o]]
            /\ Stay("barrier")
    /\ UNCHANGED <<disk, journal, environment, index>>

Barrier ==
    /\ step = "barrier"
    /\ Journal!Advance(op, "Verified", "MetaCommitted") /\ Touch(op)
    /\ Stay("index")
    /\ UNCHANGED <<disk, markers, environment, index>>

\* sync_index.  Recovery runs before the first scan: the index knows no file yet.
SyncIndex ==
    /\ step = "index"
    /\ IF mode = "recovering" THEN Stay("synced") /\ UNCHANGED index
       ELSE IF index[op] = "gone" \/ at[Dst[op]] = NoFile THEN Fails /\ UNCHANGED index
       ELSE /\ index' = [o \in Ops |->
                  IF o = op THEN Dst[op]
                  ELSE IF index[o] # Dst[op] THEN index[o]
                  ELSE IF /\ o \in Journal!IncompleteItems
                          /\ Src[o] = Dst[op] /\ items[o].temporary
                       THEN "part" ELSE "gone"]
            /\ Stay("synced")
    /\ UNCHANGED <<disk, markers, journal, environment>>

Synced ==
    /\ step = "synced"
    /\ Journal!Advance(op, "MetaCommitted", "IndexSynced") /\ Touch(op)
    /\ Stay("complete")
    /\ UNCHANGED <<disk, markers, environment, index>>

Complete ==
    /\ step = "complete"
    /\ Journal!CompleteItem(op, "IndexSynced") /\ Touch(op)
    /\ MoveOn(failed)
    /\ UNCHANGED <<disk, markers, environment, index>>

-----------------------------------------------------------------------------
(* After the passes. *)

\* Mutant: a Prepared item is ended without looking for its hidden file.
SafeToFail_IgnoresPart(o) ==
    items[o].state = "Prepared" \/ (items[o].state = "Staged" /\ at[Src[o]] # NoFile)

\* mark_failed ends an item only when its file seems never to have left.
SafeToFail(o) ==
    /\ at[Src[o]] # NoFile
    /\ ~(items[o].temporary /\ part[o] # NoFile)
    /\ \/ items[o].state = "Prepared"
       \/ items[o].state = "Staged" /\ at[Dst[o]] = NoFile

Settle ==
    /\ step = "settle"
    /\ IF SafeToFail(op) THEN Journal!FailItem(op, items[op].state, FALSE) /\ Touch(op)
                         ELSE UNCHANGED journal
    /\ MoveOn(failed)
    /\ UNCHANGED <<disk, markers, environment, index>>

\* The passes ran in the turn of the first operation; the loop of execute goes on with
\* the others, which have their status already.
EndTurn ==
    /\ UNCHANGED <<mode, failed, todo>>
    /\ IF op < N THEN step' = "turn" /\ op' = op + 1 ELSE step' = "close" /\ op' = 1

\* A cancellation that came before the passes: the first operation is ended by the
\* service, or left as it is when only the loop over the components sees the token.
NotStarted ==
    /\ step = "revalidate" /\ cancelled
    /\ \/ Journal!SkipItem(op, "Prepared", FALSE) /\ Touch(op)
       \/ UNCHANGED journal
    /\ step' = "turn" /\ UNCHANGED <<op, mode, failed, todo>>
    /\ UNCHANGED <<disk, markers, environment, index>>

\* settle_unstarted: a turn after the cancellation ends a row that is still Prepared.
Turn ==
    /\ step = "turn"
    /\ IF cancelled /\ op # 1 /\ items[op].state = "Prepared"
       THEN Journal!SkipItem(op, "Prepared", FALSE) /\ Touch(op)
       ELSE UNCHANGED journal
    /\ EndTurn
    /\ UNCHANGED <<disk, markers, environment, index>>

\* mark_cancelled: a cancellation between the loop's look at the token and the
\* service's ends the row of this turn in whatever live state it is.
CancelInTurn ==
    /\ step = "turn" /\ op # 1
    /\ Cancels /\ ~cancelled /\ cancelled' = TRUE
    /\ IF items[op].state \in Journal!LiveStates
       THEN Journal!SkipItem(op, items[op].state, FALSE) /\ Touch(op)
       ELSE UNCHANGED journal
    /\ EndTurn
    /\ UNCHANGED <<disk, markers, index, destroyed, outside, crashes, faults>>

\* maybe_finish_batch; at the end of recovery, finish_batch for the batches of the
\* items it found, and then the scan that fills the new session's index.
Close ==
    /\ \/ step \in {"close", "scan"}
       \/ step = "choose" /\ todo = {}
    /\ IF step # "scan" /\ batches[Batch].state = "Running"
          /\ Journal!Accounted(Batch) = batches[Batch].requested
       THEN Journal!FinishBatch(Batch) ELSE UNCHANGED <<batches, items>>
    /\ mode' = "idle" /\ step' = "none" /\ op' = 1 /\ failed' = {} /\ todo' = {}
    /\ index' = IF mode = "executing" THEN index
                ELSE [o \in Ops |-> IF \E p \in Paths : at[p] = o
                                    THEN CHOOSE p \in Paths : at[p] = o ELSE "gone"]
    /\ UNCHANGED <<disk, markers, environment, recency>>

-----------------------------------------------------------------------------
(* Recovery, when the project is opened. *)

\* Mutant: rows still Prepared are not looked at.
OpenProject_SkipsPrepared ==
    /\ mode = "closed"
    /\ mode' = "recovering"
    /\ todo' = {o \in Journal!IncompleteItems : items[o].state # "Prepared"}
    /\ step' = IF todo' = {} THEN "scan" ELSE "choose"
    /\ UNCHANGED <<disk, markers, journal, environment, index, op, failed>>

OpenProject ==
    /\ mode = "closed"
    /\ mode' = "recovering" /\ todo' = Journal!IncompleteItems
    /\ step' = IF todo' = {} THEN "scan" ELSE "choose"
    /\ UNCHANGED <<disk, markers, journal, environment, index, op, failed>>

Ambiguous(o) ==
    \/ SourceStatus(o) = "Match" /\ "Match" \in {DestinationStatus(o), PartStatus(o)}
    \/ DestinationStatus(o) = "Match" /\ PartStatus(o) = "Match"

OnlyDestinationMatches(o) ==
    DestinationStatus(o) = "Match" /\ SourceStatus(o) = "Missing" /\ PartStatus(o) = "Missing"

Decision(o) ==
    LET src == SourceStatus(o)
        hidden == PartStatus(o)
        state == items[o].state
        destination == DestinationStatus(o)
    IN  IF ~items[o].evidence \/ Ambiguous(o) THEN "review"
        ELSE CASE state = "Prepared" /\ src = "Match" /\ hidden = "Missing" -> "untouched"
               [] state = "Prepared" /\ src = "Missing" /\ hidden = "Match" -> "restore"
               [] state = "Staged" /\ ~items[o].temporary
                     /\ src = "Match" /\ destination = "Missing" -> "untouched"
               [] state = "Staged" /\ hidden = "Match" /\ destination = "Missing" -> "moveIn"
               [] state = "Staged" /\ hidden = "Match" /\ destination = "Conflict"
                     /\ src = "Missing" -> "restore"
               [] state = "Staged" /\ OnlyDestinationMatches(o) -> "apply"
               [] state \in Journal!AppliedStates /\ OnlyDestinationMatches(o) ->
                     [FsApplied |-> "verify", Verified |-> "metadata",
                      MetaCommitted |-> "index", IndexSynced |-> "complete"][state]
               [] OTHER -> "review"

\* incomplete_items is ordered by updated_at_ms.
IsNext(o) == ClockTies \/ \A q \in todo : \E i, j \in 1..N :
                 recency[i] = o /\ recency[j] = q /\ i <= j

\* An item decided "review" is reported and left as it is.
Recover(o) ==
    /\ step = "choose" /\ o \in todo /\ IsNext(o)
    /\ LET decision == Decision(o) IN
       IF decision \in {"review", "untouched"}
       THEN /\ IF decision = "untouched"
               THEN Journal!FailItem(o, items[o].state, FALSE) /\ Touch(o)
               ELSE UNCHANGED journal
            /\ todo' = todo \ {o}
            /\ UNCHANGED <<mode, op, step, failed>>
       ELSE /\ op' = o /\ step' = decision
            /\ UNCHANGED <<journal, mode, failed, todo>>
    /\ UNCHANGED <<disk, markers, environment, index>>

\* restore_source, whose rename refuses an occupied path, then the result.
Restore ==
    /\ step = "restore"
    /\ IF at[Src[op]] = NoFile /\ part[op] # NoFile
       THEN /\ at' = [at EXCEPT ![Src[op]] = part[op]]
            /\ part' = [part EXCEPT ![op] = NoFile]
            /\ Stay("restored")
       ELSE Fails /\ UNCHANGED disk
    /\ UNCHANGED <<markers, journal, environment, index>>

Restored ==
    /\ step = "restored"
    /\ Journal!FailItem(op, items[op].state, FALSE) /\ Touch(op)
    /\ MoveOn(failed)
    /\ UNCHANGED <<disk, markers, environment, index>>

-----------------------------------------------------------------------------
(* Everything else that can happen. *)

\* A file-system or database call of the current step returns an error.
Fault ==
    /\ faults < MaxFaults
    /\ mode \in {"executing", "recovering"}
    /\ step \notin {"revalidate", "settle", "turn", "close", "scan"}
    /\ faults' = faults + 1
    /\ Fails
    /\ UNCHANGED <<disk, markers, journal, index, destroyed, cancelled, outside, crashes>>

\* The user cancels.  The passes do not look at the token, so a cancellation during them
\* is one before the first turn.
Cancel ==
    /\ Cancels /\ ~cancelled
    /\ step \in {"revalidate", "turn"}
    /\ cancelled' = TRUE
    /\ UNCHANGED <<disk, markers, journal, worker, index, destroyed, outside, crashes, faults>>

\* The process dies, or the user quits; only disk, markers and journal survive.
Crash ==
    /\ crashes < MaxCrashes
    /\ mode # "closed"
    /\ crashes' = crashes + 1
    /\ Shutdown
    /\ UNCHANGED <<disk, markers, journal, index, destroyed, cancelled, outside, faults>>

ForeignAppears(p) == "appear" \in Outside /\ at[p] = NoFile /\ at' = [at EXCEPT ![p] = Foreign]
ForeignLeaves(p) == "leave" \in Outside /\ at[p] = Foreign /\ at' = [at EXCEPT ![p] = NoFile]
ForeignReplaces(p) == "replace" \in Outside /\ at[p] \in Ops /\ at' = [at EXCEPT ![p] = Foreign]

OutsideChange(p) ==
    /\ outside < MaxOutside
    /\ outside' = outside + 1
    /\ ForeignAppears(p) \/ ForeignLeaves(p) \/ ForeignReplaces(p)
    /\ destroyed' = destroyed \cup ({at[p]} \cap Ops)
    /\ UNCHANGED <<part, markers, journal, worker, index, cancelled, crashes, faults>>

Execute == Revalidate \/ Prepare \/ MoveOut \/ Stage \/ MoveIn \/ Confirm \/ Apply \/ Verify
           \/ CommitMetadata \/ Barrier \/ SyncIndex \/ Synced \/ Complete
           \/ Settle \/ NotStarted \/ Turn \/ Close

Work == Execute \/ (\E o \in Ops : Recover(o)) \/ Restore \/ Restored

Next ==
    \/ BeginPlan
    \/ Work
    \/ OpenProject
    \/ Fault
    \/ Cancel \/ CancelInTurn
    \/ Crash
    \/ \E p \in Paths : OutsideChange(p)

Spec == Init /\ [][Next]_vars

\* A running worker keeps running and a closed project is opened again some day.
FairSpec == Spec /\ WF_vars(Work) /\ WF_vars(OpenProject)

-----------------------------------------------------------------------------
(* What the transaction promises. *)

TypeOK ==
    /\ Journal!TypeOK
    /\ at \in [Paths -> Files \cup {NoFile}] /\ part \in [Ops -> Files \cup {NoFile}]
    /\ markAt \in [Paths -> Files \cup {NoFile}] /\ markPart \in [Ops -> Files \cup {NoFile}]
    /\ index \in [Ops -> Paths \cup {"part", "gone"}]
    /\ mode \in {"closed", "recovering", "idle", "executing"}
    /\ Len(recency) = N /\ {recency[i] : i \in 1..N} = Ops
    /\ op \in Ops /\ failed \subseteq Ops /\ todo \subseteq Ops /\ destroyed \subseteq Ops

PathsOf(o) == {p \in Paths : at[p] = o}
PartsOf(o) == {q \in Ops : part[q] = o}

\* No step, crash or recovery loses or duplicates a file: unless another application
\* overwrote it, it has exactly one name, and that is its source, its own hidden name
\* or its destination (no-replace renames, one registered part per operation).
NoFileLost ==
    \A o \in Ops \ destroyed :
        \/ PathsOf(o) = {} /\ PartsOf(o) = {o}
        \/ PathsOf(o) \in {{Src[o]}, {Dst[o]}} /\ PartsOf(o) = {}

\* A file under a hidden name, which no scan shows to the user, is on the work list of
\* the next recovery, with the evidence that recovery needs, whatever crashed, failed or
\* interfered.  The one exception: a cancellation ends a row without looking for its
\* file (skip_item in mark_cancelled and settle_unstarted_item).
HiddenFileIsTracked ==
    \A o \in Ops : part[o] # NoFile =>
        \/ o \in Journal!IncompleteItems /\ items[o].temporary /\ items[o].evidence
        \/ items[o].result = "skipped"

\* Files of other applications are never overwritten or moved.
ForeignFilesStay ==
    [][\A p \in Paths : at[p] = Foreign /\ at'[p] # Foreign => outside' # outside]_vars

\* From the barrier on, the marker stored at the destination is the marker of the file
\* that is there: "MetaCommitted: portable metadata is consistent with filesystem
\* truth" (docs/adr/0002-file-transaction-protocol.md).
MarkerFollowsFile ==
    \A o \in Ops \ destroyed :
        items[o].state \in {"MetaCommitted", "IndexSynced"} \/ items[o].result = "completed" =>
            markAt[Dst[o]] = IF o \in Marked THEN o ELSE NoFile

\* When the batch is over, also one that recovery ended, the markers and the session
\* index both list every renamed file at its new path.
MetadataFollowsFile ==
    /\ MarkerFollowsFile
    /\ mode = "idle" => \A o \in Ops \ destroyed :
          items[o].result = "completed" => index[o] = Dst[o]

\* After one crash, without interference or errors, recovery leaves a row only where it
\* has no way to go: the crash came before the evidence was stored and the file never
\* moved; the evidence fits two places; the file has arrived but another file of the plan
\* has taken its old path, or an old marker the place of its marker; or the file is still
\* hidden and other files of the plan have taken the paths it could go to.
RecoverySettles ==
    mode = "idle" /\ crashes <= 1 /\ outside = 0 /\ faults = 0 =>
        \A o \in Journal!IncompleteItems :
            \/ items[o].state = "Prepared" /\ ~items[o].evidence /\ at[Src[o]] = o
            \/ Ambiguous(o)
            \/ at[Dst[o]] = o /\ (at[Src[o]] \in Ops \/ Dst[o] \in Dormant)
            \/ /\ part[o] = o /\ at[Src[o]] \in Ops
               /\ items[o].state = "Prepared" \/ at[Dst[o]] \in Ops

\* "A second recovery run after a completed automatic action is a no-op"
\* (docs/adr/0002): what a finished run leaves, the next run only reports.
SecondRecoveryIsNoOp ==
    [][mode = "recovering" /\ mode' = "idle" /\ outside = 0 =>
          \A o \in Journal!IncompleteItems : Decision(o) = "review"]_vars

\* A closed project can be opened: the only thing that makes recovery fail again and
\* again is a marker that can not be moved, because the move was already made when the
\* process died or an old marker is in its place (metadata_moves, apply_path_moves).
ProjectOpens ==
    mode = "closed" ~> \/ mode = "idle"
                       \/ mode = "recovering" /\ step = "metadata" /\ MarkerCollision(op)

PlaceOf(o) == IF o \in destroyed THEN "overwritten"
              ELSE IF part[o] = o THEN "hidden"
              ELSE IF at[Dst[o]] = o THEN "destination" ELSE "source"
Relocation == INSTANCE FileRelocation WITH
    Moves <- Ops,
    place <- [o \in Ops |-> PlaceOf(o)],
    report <- [o \in Ops |-> items[o].result],
    stopped <- failed
ImplementsRelocation == Relocation!Spec
=============================================================================
