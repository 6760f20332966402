------------------------ MODULE RenameTransaction_proofs ------------------------
(***************************************************************************)
(* No rename, error, crash or recovery loses, duplicates or overwrites a   *)
(* file, for a plan of any length, any content and any number of crashes,  *)
(* errors and changes by other applications.  Then, with the invariant of  *)
(* files, journal rows and worker: only a cancellation leaves a hidden     *)
(* file unnoticed, a second recovery does nothing, one crash with nothing  *)
(* else leaves no row that recovery could settle and no marker or index    *)
(* entry behind its file, and the transaction implements FileRelocation.   *)
(***************************************************************************)
EXTENDS RenameTransaction, TLAPS, WellFoundedInduction

\* The hidden name of an operation only ever holds the file of that operation.
OwnParts == \A q \in Ops : part[q] \in {q, NoFile}

\* An overwritten file has no name left, so it can not come back in a second place.
DestroyedAreGone == \A o \in destroyed : PathsOf(o) = {} /\ PartsOf(o) = {}

FileTypes ==
    /\ at \in [Paths -> Files \cup {NoFile}]
    /\ part \in [Ops -> Files \cup {NoFile}]
    /\ op \in Ops /\ destroyed \subseteq Ops /\ outside \in Nat

FileInv == FileTypes /\ OwnParts /\ DestroyedAreGone /\ NoFileLost

-----------------------------------------------------------------------------
(* The worker is always at an operation of the plan. *)

\* A non-empty set of numbers has a smallest one.
LEMMA SmallestNumber ==
    ASSUME NEW T, T \subseteq Nat, T # {}
    PROVE  \E x \in T : \A y \in T : x <= y
<1>1. PICK x \in T : \A y \in T : ~(<<y, x>> \in OpToRel(<, Nat))
  BY WFMin, NatLessThanWellFounded
<1>2. \A y \in T : ~(y < x)
  BY <1>1 DEF OpToRel
<1> QED  BY <1>2

\* A non-empty set of stops has an earliest one, so Earliest chooses one of them.
LEMMA EarliestIsAStop ==
    ASSUME NEW stops, stops \subseteq (1..4) \X Ops, stops # {}
    PROVE  /\ Earliest(stops) \in stops
           /\ \A r \in stops :
                 Earliest(stops)[1] < r[1]
                 \/ (Earliest(stops)[1] = r[1] /\ Earliest(stops)[2] <= r[2])
<1> DEFINE passes == {s[1] : s \in stops}
<1>1. passes \subseteq Nat /\ passes # {}
  BY DEF Ops
<1>2. PICK p \in passes : \A q \in passes : p <= q
  BY <1>1, SmallestNumber
<1> DEFINE ops == {s[2] : s \in {r \in stops : r[1] = p}}
<1>3. ops \subseteq Nat /\ ops # {}
  BY <1>2 DEF Ops
<1>4. PICK o \in ops : \A q \in ops : o <= q
  BY <1>3, SmallestNumber
<1>5. PICK s \in stops : s[1] = p /\ s[2] = o
  BY <1>4
<1>6. \A r \in stops : s[1] < r[1] \/ (s[1] = r[1] /\ s[2] <= r[2])
  <2> SUFFICES ASSUME NEW r \in stops
               PROVE  s[1] < r[1] \/ (s[1] = r[1] /\ s[2] <= r[2])
    OBVIOUS
  <2>1. s[1] \in Nat /\ r[1] \in Nat /\ s[1] <= r[1]
    BY <1>1, <1>2, <1>5
  <2>2. r[1] = p => s[2] <= r[2]
    BY <1>4, <1>5
  <2> QED  BY <2>1, <2>2, <1>5
<1> DEFINE First(t) == \A r \in stops : t[1] < r[1] \/ (t[1] = r[1] /\ t[2] <= r[2])
<1>7. Earliest(stops) = CHOOSE t \in stops : First(t)
  BY DEF Earliest
<1>8. \E t \in stops : First(t)
  BY <1>6
<1> HIDE DEF First
<1>9. Earliest(stops) \in stops /\ First(Earliest(stops))
  BY <1>7, <1>8
<1> QED  BY <1>9 DEF First

\* Going on with the next stop keeps the worker inside the plan.
LEMMA MoveOnKeepsOp ==
    ASSUME NEW STATE lost, MoveOn(lost)
    PROVE  op' \in Ops
<1>1. CASE mode = "recovering"
  BY <1>1, PlanAssumption DEF MoveOn, Ops
<1>2. CASE mode # "recovering"
  <2> DEFINE stops == Stops(PassOf(step), op, lost)
  <2>1. CASE stops = {}
    BY <1>2, <2>1, PlanAssumption DEF MoveOn, Ops
  <2>2. CASE stops # {}
    <3>1. stops \subseteq (1..4) \X Ops
      BY DEF Stops
    <3>2. Earliest(stops) \in (1..4) \X Ops
      BY <2>2, <3>1, EarliestIsAStop
    <3> HIDE DEF stops
    <3>3. op' = Earliest(stops)[2]
      BY <1>2, <2>2 DEF MoveOn, stops
    <3> QED  BY <3>2, <3>3
  <2> QED  BY <2>1, <2>2
<1> QED  BY <1>1, <1>2

\* An error moves on or shuts down: the worker stays inside the plan too.
LEMMA FailsKeepsOp ==
    ASSUME Fails PROVE op' \in Ops
<1>1. CASE mode = "executing"
  <2>1. MoveOn(failed \cup {op})
    BY <1>1 DEF Fails
  <2> QED  BY <2>1, MoveOnKeepsOp
<1>2. CASE mode # "executing"
  BY <1>2, PlanAssumption DEF Fails, Shutdown, Ops
<1> QED  BY <1>1, <1>2

\* Every step leaves the worker at an operation of the plan.
LEMMA OpStep ==
    ASSUME op \in Ops, [Next]_vars PROVE op' \in Ops
<1>a. \A o \in Ops : Recover(o) => op' \in Ops
  BY DEF Recover
<1>b. MoveOn(failed) => op' \in Ops
  BY MoveOnKeepsOp
<1>c. Fails => op' \in Ops
  BY FailsKeepsOp
<1>d. 1 \in Ops
  BY PlanAssumption DEF Ops
<1>e. \A next : Stay(next) => op' = op
  BY DEF Stay
<1>f. EndTurn => op' \in Ops
  BY PlanAssumption DEF EndTurn, Ops
<1>1. Execute => op' \in Ops
  BY <1>b, <1>c, <1>d, <1>e, <1>f
     DEF Execute, Revalidate, Prepare, MoveOut, Stage, MoveIn, Confirm, Apply, Verify,
         CommitMetadata, Barrier, SyncIndex, Synced, Complete, Settle, NotStarted, Turn, Close
<1>2. Work => op' \in Ops
  BY <1>1, <1>a, <1>b, <1>c, <1>e DEF Work, Restore, Restored
<1>3. Fault \/ Crash \/ OpenProject \/ BeginPlan \/ Cancel \/ CancelInTurn => op' \in Ops
  BY <1>c, <1>d, <1>f DEF Fault, Crash, OpenProject, BeginPlan, Cancel, CancelInTurn, Shutdown, worker
<1>4. \A p \in Paths : OutsideChange(p) => op' = op
  BY DEF OutsideChange, worker
<1>5. UNCHANGED vars => op' = op
  BY DEF vars, worker
<1> QED  BY <1>2, <1>3, <1>4, <1>5 DEF Next

-----------------------------------------------------------------------------
(* Files and their names. *)

\* The files of the plan are neither NoFile nor Foreign.
LEMMA PlanFiles == \A o \in Ops : o \in Files /\ o # NoFile /\ o # Foreign
BY PlanAssumption DEF Ops, Files, NoFile, Foreign

\* Every step that is neither a rename nor somebody else's doing leaves the disk alone.
LEMMA QuietStep ==
    ASSUME [Next]_vars,
           ~MoveOut, ~MoveIn, ~Restore, ~(\E p \in Paths : OutsideChange(p))
    PROVE  UNCHANGED <<at, part, destroyed, outside>>
<1>a. \A o \in Ops : Recover(o) => UNCHANGED <<disk, environment>>
  BY DEF Recover
<1>1. Execute => UNCHANGED <<disk, environment>>
  BY DEF Execute, Revalidate, Prepare, Stage, Confirm, Apply, Verify,
         CommitMetadata, Barrier, SyncIndex, Synced, Complete, Settle, NotStarted, Turn, Close
<1>2. Work => UNCHANGED <<disk, environment>>
  BY <1>1, <1>a DEF Work, Restored
<1>3. BeginPlan \/ OpenProject => UNCHANGED <<disk, environment>>
  BY DEF BeginPlan, OpenProject
<1>4. Fault \/ Crash \/ Cancel \/ CancelInTurn => UNCHANGED <<disk, destroyed, outside>>
  BY DEF Fault, Crash, Cancel, CancelInTurn
<1>5. UNCHANGED vars => UNCHANGED <<disk, environment>>
  BY DEF vars
<1> QED  BY <1>2, <1>3, <1>4, <1>5 DEF Next, disk, environment

\* The names of all files but one stay, and that one has exactly the given new name.
Renamed(o, paths, parts) ==
    /\ PathsOf(o)' = paths /\ PartsOf(o)' = parts
    /\ \A q \in Ops \ {o} : PathsOf(q)' = PathsOf(q) /\ PartsOf(q)' = PartsOf(q)

\* Moving a file aside gives it its hidden name only.
LEMMA HideNames ==
    ASSUME FileInv, NEW o \in Ops, at[Src[o]] = o, part[o] = NoFile,
           at' = [at EXCEPT ![Src[o]] = NoFile],
           part' = [part EXCEPT ![o] = o]
    PROVE  o \notin destroyed /\ Renamed(o, {}, {o})
<1>1. Src[o] \in Paths /\ o # NoFile
  BY PlanAssumption, PlanFiles
<1>2. Src[o] \in PathsOf(o)
  BY <1>1 DEF PathsOf
<1>3. o \notin destroyed
  BY <1>2 DEF FileInv, DestroyedAreGone
<1>4. PathsOf(o) = {Src[o]} /\ PartsOf(o) = {}
  BY <1>1, <1>2, <1>3 DEF FileInv, NoFileLost
<1>5. PathsOf(o)' = {}
  BY <1>1, <1>4 DEF PathsOf, FileInv, FileTypes
<1>6. PartsOf(o)' = {o}
  BY <1>1, <1>4 DEF PartsOf, FileInv, FileTypes
<1>7. ASSUME NEW q \in Ops \ {o}
      PROVE  PathsOf(q)' = PathsOf(q) /\ PartsOf(q)' = PartsOf(q)
  BY <1>1, <1>7, PlanFiles DEF PathsOf, PartsOf, FileInv, FileTypes
<1> QED  BY <1>3, <1>5, <1>6, <1>7 DEF Renamed

\* Moving a hidden file to a free path gives it that name only.
LEMMA ResurfaceNames ==
    ASSUME FileInv, NEW o \in Ops, NEW path \in Paths, at[path] = NoFile, part[o] # NoFile,
           at' = [at EXCEPT ![path] = part[o]],
           part' = [part EXCEPT ![o] = NoFile]
    PROVE  o \notin destroyed /\ Renamed(o, {path}, {})
<1>1. o # NoFile /\ part[o] = o
  BY PlanFiles DEF FileInv, OwnParts
<1>2. o \in PartsOf(o)
  BY <1>1 DEF PartsOf
<1>3. o \notin destroyed
  BY <1>2 DEF FileInv, DestroyedAreGone
<1>4. PathsOf(o) = {} /\ PartsOf(o) = {o}
  BY <1>1, <1>2, <1>3 DEF FileInv, NoFileLost
<1>5. PathsOf(o)' = {path}
  BY <1>1, <1>4 DEF PathsOf, FileInv, FileTypes
<1>6. PartsOf(o)' = {}
  BY <1>1, <1>4 DEF PartsOf, FileInv, FileTypes
<1>7. ASSUME NEW q \in Ops \ {o}
      PROVE  PathsOf(q)' = PathsOf(q) /\ PartsOf(q)' = PartsOf(q)
  BY <1>1, <1>7, PlanFiles DEF PathsOf, PartsOf, FileInv, FileTypes
<1> QED  BY <1>3, <1>5, <1>6, <1>7 DEF Renamed

\* A file at its source, hidden under its own name or at its destination is not lost, so
\* a rename of one file keeps NoFileLost and leaves overwritten files without a name.
LEMMA RenamedKeepsFiles ==
    ASSUME FileInv, NEW o \in Ops, o \notin destroyed, UNCHANGED destroyed,
           NEW paths, NEW parts, Renamed(o, paths, parts),
           \/ paths = {} /\ parts = {o}
           \/ paths \in {{Src[o]}, {Dst[o]}} /\ parts = {}
    PROVE  NoFileLost' /\ DestroyedAreGone'
<1>1. ASSUME NEW q \in Ops \ destroyed
      PROVE  \/ PathsOf(q)' = {} /\ PartsOf(q)' = {q}
             \/ PathsOf(q)' \in {{Src[q]}, {Dst[q]}} /\ PartsOf(q)' = {}
  BY <1>1 DEF Renamed, FileInv, NoFileLost
<1>2. ASSUME NEW q \in destroyed
      PROVE  PathsOf(q)' = {} /\ PartsOf(q)' = {}
  BY <1>2 DEF Renamed, FileInv, FileTypes, DestroyedAreGone
<1> QED  BY <1>1, <1>2 DEF NoFileLost, DestroyedAreGone

\* The three renames of the protocol, and a rename that was refused.
LEMMA RenameStep ==
    ASSUME FileInv, MoveOut \/ MoveIn \/ Restore
    PROVE  /\ UNCHANGED <<destroyed, outside>>
           /\ at' \in [Paths -> Files \cup {NoFile}]
           /\ part' \in [Ops -> Files \cup {NoFile}]
           /\ OwnParts' /\ NoFileLost' /\ DestroyedAreGone'
           /\ \A p \in Paths : at[p] = Foreign => at'[p] = Foreign
<1>0. UNCHANGED <<destroyed, outside>>
  BY DEF MoveOut, MoveIn, Restore, environment
<1>1. CASE UNCHANGED disk
  <2>1. UNCHANGED <<at, part>>
    BY <1>1 DEF disk
  <2>2. \A o \in Ops : PathsOf(o)' = PathsOf(o) /\ PartsOf(o)' = PartsOf(o)
    BY <2>1 DEF PathsOf, PartsOf
  <2> QED  BY <1>0, <2>1, <2>2
           DEF FileInv, FileTypes, OwnParts, NoFileLost, DestroyedAreGone
<1>2. PICK o \in Ops : o = op
  BY DEF FileInv, FileTypes
<1>3. Src[o] \in Paths /\ Dst[o] \in Paths /\ o \in Files /\ o # NoFile /\ o # Foreign
  BY PlanAssumption, PlanFiles
<1>4. CASE ~UNCHANGED disk /\ MoveOut
  <2>1. /\ at[Src[o]] = o /\ part[o] = NoFile
        /\ at' = [at EXCEPT ![Src[o]] = NoFile] /\ part' = [part EXCEPT ![o] = o]
    BY <1>2, <1>4 DEF MoveOut
  <2>2. o \notin destroyed /\ Renamed(o, {}, {o})
    BY <2>1, HideNames
  <2>3. NoFileLost' /\ DestroyedAreGone'
    BY <1>0, <2>2, RenamedKeepsFiles
  <2> QED  BY <1>0, <1>3, <2>1, <2>3 DEF FileInv, FileTypes, OwnParts
<1>5. CASE ~UNCHANGED disk /\ (MoveIn \/ Restore)
  <2>1. PICK path \in {Src[o], Dst[o]} :
          /\ at[path] = NoFile /\ part[o] # NoFile
          /\ at' = [at EXCEPT ![path] = part[o]] /\ part' = [part EXCEPT ![o] = NoFile]
    BY <1>2, <1>5 DEF MoveIn, Restore
  <2>2. path \in Paths
    BY <1>3, <2>1
  <2>3. o \notin destroyed /\ Renamed(o, {path}, {})
    BY <2>1, <2>2, ResurfaceNames
  <2>4. NoFileLost' /\ DestroyedAreGone'
    BY <1>0, <2>1, <2>3, RenamedKeepsFiles
  <2>5. NoFile # Foreign
    BY PlanAssumption DEF NoFile, Foreign
  <2>6. part[o] \in Files
    BY <2>1 DEF FileInv, FileTypes
  <2> QED  BY <1>0, <2>1, <2>2, <2>4, <2>5, <2>6 DEF FileInv, FileTypes, OwnParts
<1> QED  BY <1>1, <1>4, <1>5

\* Another application creates or removes its own file, or overwrites one of the plan.
LEMMA OutsideStep ==
    ASSUME FileInv, NEW p \in Paths, OutsideChange(p)
    PROVE  /\ destroyed' \subseteq Ops /\ outside' \in Nat /\ outside' # outside
           /\ UNCHANGED part /\ at' \in [Paths -> Files \cup {NoFile}]
           /\ NoFileLost' /\ DestroyedAreGone'
<1>1. /\ outside' = outside + 1 /\ UNCHANGED part
      /\ destroyed' = destroyed \cup ({at[p]} \cap Ops)
  BY DEF OutsideChange
<1>2. NoFile \notin Ops /\ Foreign \notin Ops /\ Foreign \in Files
  BY PlanAssumption DEF NoFile, Foreign, Ops, Files
<1>3. PICK f \in {NoFile, Foreign} : at' = [at EXCEPT ![p] = f]
  BY DEF OutsideChange, ForeignAppears, ForeignLeaves, ForeignReplaces
<1>4. \A q \in Ops : PartsOf(q)' = PartsOf(q)
  BY <1>1 DEF PartsOf
<1>5. \A q \in Ops : at[p] # q => PathsOf(q)' = PathsOf(q)
  BY <1>2, <1>3 DEF PathsOf, FileInv, FileTypes
<1>6. \A q \in Ops : at[p] = q => PathsOf(q)' = {} /\ PartsOf(q)' = {}
  <2> SUFFICES ASSUME NEW q \in Ops, at[p] = q
               PROVE  PathsOf(q)' = {} /\ PartsOf(q)' = {}
    OBVIOUS
  <2>1. p \in PathsOf(q)
    BY DEF PathsOf
  <2>2. q \notin destroyed
    BY <2>1 DEF FileInv, DestroyedAreGone
  <2>3. PathsOf(q) = {p} /\ PartsOf(q) = {}
    BY <2>1, <2>2 DEF FileInv, NoFileLost
  <2>4. PathsOf(q)' = {}
    BY <1>2, <1>3, <2>3 DEF PathsOf, FileInv, FileTypes
  <2> QED  BY <1>4, <2>3, <2>4
<1>7. NoFileLost'
  BY <1>1, <1>4, <1>5 DEF NoFileLost, FileInv
<1>8. DestroyedAreGone'
  BY <1>1, <1>4, <1>5, <1>6 DEF DestroyedAreGone, FileInv, FileTypes
<1> QED  BY <1>1, <1>2, <1>3, <1>7, <1>8 DEF FileInv, FileTypes

\* Every step keeps the invariant.
LEMMA FileStep == FileInv /\ [Next]_vars => FileInv'
<1> SUFFICES ASSUME FileInv, [Next]_vars PROVE FileInv'
  OBVIOUS
<1>1. op' \in Ops
  BY OpStep DEF FileInv, FileTypes
<1>2. CASE MoveOut \/ MoveIn \/ Restore
  BY <1>1, <1>2, RenameStep DEF FileInv, FileTypes
<1>3. CASE \E p \in Paths : OutsideChange(p)
  <2>1. PICK p \in Paths : OutsideChange(p)
    BY <1>3
  <2> QED  BY <1>1, <2>1, OutsideStep DEF FileInv, FileTypes, OwnParts
<1>4. CASE ~MoveOut /\ ~MoveIn /\ ~Restore /\ ~(\E p \in Paths : OutsideChange(p))
  <2>1. UNCHANGED <<at, part, destroyed, outside>>
    BY <1>4, QuietStep
  <2>2. \A o \in Ops : PathsOf(o)' = PathsOf(o) /\ PartsOf(o)' = PartsOf(o)
    BY <2>1 DEF PathsOf, PartsOf
  <2> QED  BY <1>1, <2>1, <2>2
           DEF FileInv, FileTypes, OwnParts, NoFileLost, DestroyedAreGone
<1> QED  BY <1>2, <1>3, <1>4

\* A plan starts with every file at its source and nothing hidden.
LEMMA FileInit == Init => FileInv
<1> SUFFICES ASSUME Init PROVE FileInv
  OBVIOUS
<1>1. /\ at = [p \in Paths |-> IF \E o \in Ops : Src[o] = p
                               THEN CHOOSE o \in Ops : Src[o] = p ELSE NoFile]
      /\ part = [o \in Ops |-> NoFile] /\ op = 1 /\ destroyed = {} /\ outside = 0
  BY DEF Init
<1>2. \A o \in Ops : at[Src[o]] = o
  BY <1>1, PlanAssumption
<1>3. \A p \in Paths : at[p] = NoFile \/ (at[p] \in Ops /\ Src[at[p]] = p)
  BY <1>1
<1>4. FileTypes
  <2>1. 1 \in Ops
    BY PlanAssumption DEF Ops
  <2> QED  BY <1>1, <1>3, <2>1, PlanFiles DEF FileTypes
<1>5. \A o \in Ops : PathsOf(o) = {Src[o]} /\ PartsOf(o) = {}
  BY <1>1, <1>2, <1>3, PlanAssumption, PlanFiles DEF PathsOf, PartsOf
<1> QED  BY <1>1, <1>4, <1>5 DEF FileInv, OwnParts, DestroyedAreGone, NoFileLost

-----------------------------------------------------------------------------
(* The theorems. *)

\* The worker stays inside the plan, hidden names hold their own files, overwritten files
\* are gone and no other file is lost: the inductive invariant of rename and recovery.
THEOREM FilesInvariance == Spec => []FileInv
<1>1. Init => FileInv
  BY FileInit
<1>2. FileInv /\ [Next]_vars => FileInv'
  BY FileStep
<1> QED  BY <1>1, <1>2, PTL DEF Spec

\* No step, error, crash or recovery loses or duplicates a file of the plan
\* (rename.rs, recovery.rs: no-replace renames through one hidden name per operation).
THEOREM NothingIsLost == Spec => []NoFileLost
<1>1. FileInv => NoFileLost
  BY DEF FileInv
<1> QED  BY <1>1, FilesInvariance, PTL

\* One step never moves or overwrites a file of another application.
LEMMA ForeignStep ==
    FileInv /\ [Next]_vars =>
        [\A p \in Paths : at[p] = Foreign /\ at'[p] # Foreign => outside' # outside]_vars
<1> SUFFICES ASSUME FileInv, [Next]_vars, NEW p \in Paths, at[p] = Foreign, at'[p] # Foreign
             PROVE  outside' # outside
  OBVIOUS
<1>1. ~(MoveOut \/ MoveIn \/ Restore)
  BY RenameStep
<1>2. CASE \E q \in Paths : OutsideChange(q)
  BY <1>2, OutsideStep
<1>3. CASE ~(\E q \in Paths : OutsideChange(q))
  <2>1. UNCHANGED at
    BY <1>1, <1>3, QuietStep
  <2> QED  BY <2>1
<1> QED  BY <1>2, <1>3

\* The renames of Viewer and of its recovery never move or overwrite a file of another
\* application (rename_verified refuses an occupied target).
THEOREM ForeignIsSafe == Spec => ForeignFilesStay
<1>1. FileInv /\ [Next]_vars =>
        [\A p \in Paths : at[p] = Foreign /\ at'[p] # Foreign => outside' # outside]_vars
  BY ForeignStep
<1> QED  BY <1>1, FilesInvariance, PTL DEF ForeignFilesStay, Spec

-----------------------------------------------------------------------------
(* The rows of the journal and what the worker knows of them. *)

\* The result that belongs to each state of a row.
ResultOf(state) == CASE state = "Completed" -> "completed"
                     [] state = "Failed" -> "failed"
                     [] OTHER -> "none"

\* A row that a cancellation has ended.
Skipped(row) == row.state = "Completed" /\ row.result = "skipped"

\* A row past Prepared has its evidence, evidence comes with the hidden name, and only
\* an ended row has a result; it keeps no hidden name.
SoundRow(row) ==
    /\ row.evidence => row.temporary
    /\ row.state \in {"Staged"} \cup Journal!AppliedStates => row.evidence
    /\ row.state \in Journal!Terminal => ~row.temporary
    /\ row.result = ResultOf(row.state) \/ Skipped(row)

\* The row of a hidden file.
OpenRow(row) == row.state \in {"Prepared", "Staged"} /\ row.evidence

\* A row is at its state only while the file of o is where that state says, unless a
\* cancellation ended it.
StateFits(o, state) ==
    /\ state \in {"Absent", "Prepared"} => at[Dst[o]] # o
    /\ state \in Journal!AppliedStates \cup {"Completed"} => at[Dst[o]] = o
    /\ state = "Failed" => at[Src[o]] = o

RowInv ==
    /\ items \in [Ops -> Journal!ItemRow]
    /\ \A o \in Ops : SoundRow(items[o])
    /\ \A o \in Ops : part[o] # NoFile => OpenRow(items[o]) \/ Skipped(items[o])
    /\ \A o \in Ops \ destroyed : StateFits(o, items[o].state) \/ Skipped(items[o])

Ready(o) == items[o].state = "Prepared" /\ items[o].evidence
Staged(o) == items[o].state = "Staged"
Done(o) == items[o].state = "Completed"
Untouched(o) == items[o].state = "Prepared" /\ ~items[o].evidence

\* The steps that bring a file into place, in the executor and in recovery.
InSteps == {"moveIn", "confirm", "apply", "verify", "metadata", "barrier", "index",
            "synced", "complete"}

\* What each step of the worker relies on was checked by an earlier step.
StepKnowsTheRow ==
    /\ step = "revalidate" => op = 1
    /\ step \in {"moveOut", "stage"} => Ready(op)
    /\ step \in {"moveIn", "confirm", "apply"} => Staged(op)
    /\ step \in {"confirm", "apply"} => op \in destroyed \/ at[Dst[op]] = op
    /\ step = "verify" => items[op].state = "FsApplied"
    /\ step \in {"metadata", "barrier"} => items[op].state = "Verified"
    /\ step \in {"index", "synced"} => items[op].state = "MetaCommitted"
    /\ step = "complete" => items[op].state = "IndexSynced"
    /\ step \in {"restore", "restored"} => items[op].state \notin Journal!Terminal
    /\ step = "restored" => op \in destroyed \/ at[Src[op]] = op
    /\ step = "settle" => op \in failed

StepOfTheMode ==
    \/ /\ mode = "executing"
       /\ step \in {"revalidate", "prepare", "moveOut", "stage", "settle", "turn", "close"}
                   \cup InSteps
    \/ /\ mode = "recovering"
       /\ step \in {"choose", "scan", "restore", "restored"} \cup InSteps
    \/ mode \in {"closed", "idle"} /\ step = "none"

\* A pass leaves behind it what the next pass relies on, for every operation that has
\* not failed.
PassesInOrder ==
    mode = "executing" =>
        \A o \in Ops \ failed :
            /\ step = "revalidate" => Untouched(o)
            /\ step = "prepare" => (o < op => Ready(o))
            /\ step \in {"moveOut", "stage"} => (o < op => Staged(o)) /\ (o > op => Ready(o))
            /\ step \in InSteps => (o < op => Done(o)) /\ (o > op => Staged(o))
            /\ step \in {"settle", "turn"} => Done(o) \/ Untouched(o)

ControlInv == StepKnowsTheRow /\ StepOfTheMode /\ PassesInOrder

RenameInv == FileInv /\ RowInv /\ ControlInv

-----------------------------------------------------------------------------
(* Where the worker goes next. *)

\* The next stop is the first one after the present, in the order of passes and plan.
LEMMA NextStop ==
    ASSUME NEW STATE lost, MoveOn(lost), mode = "executing"
    PROVE  \/ /\ step' = "turn"
              /\ \A r \in 1..4, q \in Ops :
                    r > PassOf(step) \/ (r = PassOf(step) /\ q > op) => ~Due(r, q, lost)
           \/ \E p \in 1..4, o \in Ops :
                 /\ step' = Passes[p] /\ op' = o
                 /\ p > PassOf(step) \/ (p = PassOf(step) /\ o > op)
                 /\ Due(p, o, lost)
                 /\ \A r \in 1..4, q \in Ops :
                       /\ r > PassOf(step) \/ (r = PassOf(step) /\ q > op)
                       /\ Due(r, q, lost)
                       => p < r \/ (p = r /\ o <= q)
<1> DEFINE stops == Stops(PassOf(step), op, lost)
<1>1. stops \subseteq (1..4) \X Ops
  BY DEF Stops
<1>2. CASE stops = {}
  <2>1. ASSUME NEW r \in 1..4, NEW q \in Ops, Due(r, q, lost),
               r > PassOf(step) \/ (r = PassOf(step) /\ q > op)
        PROVE  FALSE
    <3>1. <<r, q>> \in stops
      BY <2>1 DEF Stops
    <3> QED  BY <1>2, <3>1
  <2> QED  BY <1>2, <2>1 DEF MoveOn
<1>3. CASE stops # {}
  <2> DEFINE first == Earliest(stops)
  <2>1. first \in stops /\ \A r \in stops : first[1] < r[1] \/ (first[1] = r[1] /\ first[2] <= r[2])
    BY <1>1, <1>3, EarliestIsAStop
  <2>2. step' = Passes[first[1]] /\ op' = first[2]
    BY <1>3 DEF MoveOn
  <2>3. first[1] \in 1..4 /\ first[2] \in Ops
    BY <1>1, <2>1
  <2>4. /\ first[1] > PassOf(step) \/ (first[1] = PassOf(step) /\ first[2] > op)
        /\ Due(first[1], first[2], lost)
    BY <2>1 DEF Stops
  <2>5. ASSUME NEW r \in 1..4, NEW q \in Ops, Due(r, q, lost),
               r > PassOf(step) \/ (r = PassOf(step) /\ q > op)
        PROVE  first[1] < r \/ (first[1] = r /\ first[2] <= q)
    <3>1. <<r, q>> \in stops
      BY <2>5 DEF Stops
    <3> QED  BY <3>1, <2>1
  <2> HIDE DEF first
  <2> QED  BY <2>2, <2>3, <2>4, <2>5
<1> QED  BY <1>2, <1>3

\* After a pass the next one finds what it relies on.
LEMMA MoveOnKeepsControl ==
    ASSUME op \in Ops, NEW STATE lost, MoveOn(lost), StepOfTheMode, step # "none",
           mode = "executing" => \A o \in Ops \ lost :
               /\ PassOf(step) = 1 => (o <= op => Ready(o)')
               /\ PassOf(step) = 2 => (o <= op => Staged(o)') /\ (o > op => Ready(o)')
               /\ PassOf(step) = 3 => (o <= op => Done(o)') /\ (o > op => Staged(o)')
               /\ PassOf(step) = 4 => Done(o)' \/ Untouched(o)',
           step # "revalidate"
    PROVE  ControlInv'
<1>0. mode \in {"executing", "recovering"}
  BY DEF StepOfTheMode
<1>1. CASE mode = "recovering"
  BY <1>1 DEF MoveOn, ControlInv, StepKnowsTheRow, StepOfTheMode, PassesInOrder
<1>2. CASE mode = "executing"
  <2>0. mode' = mode /\ failed' = lost
    BY DEF MoveOn
  <2>a. PassOf(step) \in 1..4 /\ op \in Nat /\ \A q \in Ops : q \in Nat
    BY DEF PassOf, Ops
  <2>1. ASSUME step' = "turn",
               \A r \in 1..4, q \in Ops :
                  r > PassOf(step) \/ (r = PassOf(step) /\ q > op) => ~Due(r, q, lost)
        PROVE  ControlInv'
    <3>1. ASSUME NEW q \in Ops \ lost PROVE Done(q)' \/ Untouched(q)'
      <4>1. PassOf(step) >= 3 /\ (PassOf(step) = 3 => q <= op)
        BY <2>a, <2>1, <3>1 DEF Due
      <4> QED  BY <1>2, <2>a, <3>1, <4>1
    <3> QED  BY <1>2, <2>0, <2>1, <3>1
             DEF ControlInv, StepKnowsTheRow, StepOfTheMode, PassesInOrder, InSteps
  <2>2. ASSUME NEW p \in 1..4, NEW o \in Ops,
               step' = Passes[p], op' = o,
               p > PassOf(step) \/ (p = PassOf(step) /\ o > op),
               Due(p, o, lost),
               \A r \in 1..4, q \in Ops :
                  /\ r > PassOf(step) \/ (r = PassOf(step) /\ q > op)
                  /\ Due(r, q, lost)
                  => p < r \/ (p = r /\ o <= q)
        PROVE  ControlInv'
    <3>0. PassOf(step) \in 1..4 /\ op \in Nat /\ o \in Nat /\ \A q \in Ops : q \in Nat
      BY DEF PassOf, Ops
    <3>1. CASE p = 1
      <4>1. step' = "prepare" /\ PassOf(step) = 1 /\ o > op
        BY <2>2, <3>0, <3>1 DEF Passes
      <4>2. ASSUME NEW q \in Ops \ lost, q < o PROVE Ready(q)'
        <5>1. q <= op
          BY <2>2, <3>0, <3>1, <4>1, <4>2 DEF Due
        <5> QED  BY <1>2, <4>1, <5>1
      <4> QED  BY <1>2, <2>0, <2>2, <4>1, <4>2
               DEF ControlInv, StepKnowsTheRow, StepOfTheMode, PassesInOrder, InSteps
    <3>2. CASE p = 2
      <4>1. step' = "moveOut" /\ o \notin lost
        BY <2>2, <3>2 DEF Passes, Due
      <4>2. CASE PassOf(step) = 1
        <5>1. ASSUME NEW q \in Ops, q > op PROVE FALSE
          BY <2>2, <3>0, <3>2, <4>2, <5>1 DEF Due
        <5>2. \A q \in Ops \ lost : Ready(q)'
          BY <1>2, <3>0, <4>2, <5>1
        <5>3. \A q \in Ops \ lost : ~(q < o)
          BY <2>2, <3>0, <3>2, <4>2 DEF Due
        <5> QED  BY <1>2, <2>0, <2>2, <4>1, <5>2, <5>3
                 DEF ControlInv, StepKnowsTheRow, StepOfTheMode, PassesInOrder, InSteps
      <4>3. CASE PassOf(step) # 1
        <5>1. PassOf(step) = 2 /\ o > op
          BY <2>2, <3>0, <3>2, <4>3
        <5>2. \A q \in Ops \ lost : q < o => q <= op
          BY <2>2, <3>0, <3>2, <5>1 DEF Due
        <5>3. \A q \in Ops \ lost : (q < o => Staged(q)') /\ (q >= o => Ready(q)')
          BY <1>2, <3>0, <5>1, <5>2
        <5> QED  BY <1>2, <2>0, <2>2, <3>0, <4>1, <5>3
                 DEF ControlInv, StepKnowsTheRow, StepOfTheMode, PassesInOrder, InSteps
      <4> QED  BY <4>2, <4>3
    <3>3. CASE p = 3
      <4>1. step' = "moveIn" /\ o \notin lost
        BY <2>2, <3>3 DEF Passes, Due
      <4>2. PassOf(step) # 1
        BY <2>2, <3>0, <3>3, <4>1 DEF Due
      <4>3. \A q \in Ops \ lost : q >= o => Staged(q)'
        <5>1. CASE PassOf(step) = 2
          <6>1. \A q \in Ops \ lost : q <= op
            BY <2>2, <3>0, <3>3, <5>1 DEF Due
          <6> QED  BY <1>2, <3>0, <5>1, <6>1
        <5>2. CASE PassOf(step) # 2
          <6>1. PassOf(step) = 3 /\ o > op
            BY <2>2, <3>0, <3>3, <4>2, <5>2
          <6> QED  BY <1>2, <3>0, <6>1
        <5> QED  BY <5>1, <5>2
      <4>4. Staged(op)'
        BY <2>2, <3>0, <4>1, <4>3 DEF Staged
      <4>5. \A q \in Ops \ lost : (q < op' => Done(q)') /\ (q > op' => Staged(q)')
        <5>1. ASSUME NEW q \in Ops \ lost, q < o PROVE PassOf(step) = 3 /\ q <= op
          BY <2>2, <3>0, <3>3, <4>2, <5>1 DEF Due
        <5> QED  BY <1>2, <2>2, <3>0, <4>3, <5>1
      <4> QED  BY <1>2, <2>0, <4>1, <4>4, <4>5
               DEF ControlInv, StepKnowsTheRow, StepOfTheMode, PassesInOrder, InSteps
    <3>4. CASE p = 4
      <4>1. step' = "settle" /\ op' \in lost
        BY <2>2, <3>4 DEF Passes, Due
      <4>2. ASSUME NEW q \in Ops \ lost PROVE Done(q)' \/ Untouched(q)'
        <5>1. PassOf(step) >= 3 /\ (PassOf(step) = 3 => q <= op)
          BY <2>2, <3>0, <3>4, <4>2 DEF Due
        <5> QED  BY <1>2, <3>0, <4>2, <5>1
      <4> QED  BY <1>2, <2>0, <4>1, <4>2
               DEF ControlInv, StepKnowsTheRow, StepOfTheMode, PassesInOrder, InSteps
    <3>5. p = 1 \/ p = 2 \/ p = 3 \/ p = 4
      OBVIOUS
    <3> QED  BY <3>1, <3>2, <3>3, <3>4, <3>5
  <2>3. \/ /\ step' = "turn"
           /\ \A r \in 1..4, q \in Ops :
                 r > PassOf(step) \/ (r = PassOf(step) /\ q > op) => ~Due(r, q, lost)
        \/ \E p \in 1..4, o \in Ops :
              /\ step' = Passes[p] /\ op' = o
              /\ p > PassOf(step) \/ (p = PassOf(step) /\ o > op)
              /\ Due(p, o, lost)
              /\ \A r \in 1..4, q \in Ops :
                    /\ r > PassOf(step) \/ (r = PassOf(step) /\ q > op)
                    /\ Due(r, q, lost)
                    => p < r \/ (p = r /\ o <= q)
    BY <1>2, NextStop
  <2> QED  BY <2>1, <2>2, <2>3
<1> QED  BY <1>0, <1>1, <1>2

\* What the passes have done before a step, as MoveOnKeepsControl asks for it.
LEMMA PassesBefore ==
    ASSUME op \in Ops, ControlInv, mode = "executing", step # "revalidate",
           NEW o \in Ops \ failed
    PROVE  /\ PassOf(step) = 1 => (o < op => Ready(o))
           /\ PassOf(step) = 2 => (o < op => Staged(o)) /\ (o > op => Ready(o))
           /\ PassOf(step) = 3 => step \in InSteps \/ step \in {"turn", "close"}
           /\ step \in InSteps => (o < op => Done(o)) /\ (o > op => Staged(o))
           /\ PassOf(step) = 4 => Done(o) \/ Untouched(o)
BY DEF ControlInv, PassesInOrder, StepOfTheMode, PassOf, InSteps

\* An error that leaves the rows alone.
LEMMA FailsKeepsControl ==
    ASSUME op \in Ops, ControlInv, Fails, UNCHANGED items,
           mode \in {"executing", "recovering"}, step \notin {"revalidate", "turn", "close"}
    PROVE  ControlInv'
<1>1. CASE mode = "executing"
  <2>1. MoveOn(failed \cup {op})
    BY <1>1 DEF Fails
  <2>2. \A o \in Ops : /\ Ready(o)' = Ready(o) /\ Staged(o)' = Staged(o)
                        /\ Done(o)' = Done(o) /\ Untouched(o)' = Untouched(o)
    BY DEF Ready, Staged, Done, Untouched
  <2>3. op \in Nat /\ \A o \in Ops : o \in Nat
    BY DEF Ops
  <2>4. step # "none" /\ StepOfTheMode
    BY DEF ControlInv, StepOfTheMode, InSteps
  <2>5. \A o \in Ops \ (failed \cup {op}) :
               /\ PassOf(step) = 1 => (o <= op => Ready(o)')
               /\ PassOf(step) = 2 => (o <= op => Staged(o)') /\ (o > op => Ready(o)')
               /\ PassOf(step) = 3 => (o <= op => Done(o)') /\ (o > op => Staged(o)')
               /\ PassOf(step) = 4 => Done(o)' \/ Untouched(o)'
    BY <1>1, <2>2, <2>3, PassesBefore
  <2> QED  BY <1>1, <2>1, <2>4, <2>5, MoveOnKeepsControl
<1>2. CASE mode = "recovering"
  BY <1>2 DEF Fails, Shutdown, ControlInv, StepKnowsTheRow, StepOfTheMode, PassesInOrder, InSteps
<1> QED  BY <1>1, <1>2

\* A step that stays with its operation and writes at most its row.
LEMMA StayKeepsPasses ==
    ASSUME op \in Ops, PassesInOrder, NEW next, Stay(next),
           \A o \in Ops \ {op} : items'[o] = items[o],
           \/ step \in InSteps /\ next \in InSteps
           \/ step = "moveOut" /\ next = "stage"
           \/ mode # "executing"
    PROVE  PassesInOrder'
<1>1. UNCHANGED <<mode, op, failed>> /\ step' = next
  BY DEF Stay
<1>2. \A o \in Ops : o # op => /\ Ready(o)' = Ready(o) /\ Staged(o)' = Staged(o)
                                /\ Done(o)' = Done(o)
  BY DEF Ready, Staged, Done
<1>3. op \in Nat /\ \A o \in Ops : o \in Nat
  BY DEF Ops
<1>4. CASE step \in InSteps /\ next \in InSteps
  <2>1. next \notin {"revalidate", "prepare", "moveOut", "stage", "settle", "turn"}
    BY <1>4 DEF InSteps
  <2> HIDE DEF InSteps, Ready, Staged, Done
  <2>2. ASSUME NEW o \in Ops \ failed, mode = "executing"
        PROVE  (o < op => Done(o)') /\ (o > op => Staged(o)')
    <3>1. (o < op => Done(o)) /\ (o > op => Staged(o))
      BY <1>4, <2>2 DEF PassesInOrder
    <3>2. (o < op => o # op) /\ (o > op => o # op)
      BY <1>3
    <3> QED  BY <1>2, <3>1, <3>2
  <2> QED  BY <1>1, <2>1, <2>2 DEF PassesInOrder
<1>5. CASE step = "moveOut" /\ next = "stage"
  <2>1. next \notin {"revalidate", "prepare", "settle", "turn"} \cup InSteps
    BY <1>5 DEF InSteps
  <2> HIDE DEF InSteps, Ready, Staged
  <2>2. ASSUME NEW o \in Ops \ failed, mode = "executing"
        PROVE  (o < op => Staged(o)') /\ (o > op => Ready(o)')
    <3>1. (o < op => Staged(o)) /\ (o > op => Ready(o))
      BY <1>5, <2>2 DEF PassesInOrder
    <3>2. (o < op => o # op) /\ (o > op => o # op)
      BY <1>3
    <3> QED  BY <1>2, <3>1, <3>2
  <2> QED  BY <1>1, <2>1, <2>2 DEF PassesInOrder
<1>6. CASE mode # "executing"
  BY <1>1, <1>6 DEF PassesInOrder
<1> QED  BY <1>4, <1>5, <1>6

-----------------------------------------------------------------------------
(* What a journal write does to the rows. *)

OnlyRow(o) ==
    /\ items' \in [Ops -> Journal!ItemRow]
    /\ \A q \in Ops \ {o} : items'[q] = items[q]

\* record_prepared_evidence stores the evidence and the hidden name of a Prepared row.
LEMMA EvidenceWrite ==
    ASSUME RowInv, NEW o \in Ops, Journal!RecordPreparedEvidence(o)
    PROVE  /\ OnlyRow(o) /\ items[o].state = "Prepared"
           /\ items'[o] = [items[o] EXCEPT !.temporary = TRUE, !.evidence = TRUE]
<1>1. items[o] \in Journal!ItemRow
  BY DEF RowInv
<1>2. items' = [items EXCEPT ![o] = [items[o] EXCEPT !.temporary = TRUE, !.evidence = TRUE]]
  BY <1>1 DEF Journal!RecordPreparedEvidence, RowInv, Journal!ItemRow
<1>3. [items[o] EXCEPT !.temporary = TRUE, !.evidence = TRUE] \in Journal!ItemRow
  BY <1>1 DEF Journal!ItemRow
<1> QED  BY <1>2, <1>3 DEF Journal!RecordPreparedEvidence, RowInv, OnlyRow

\* advance moves the row to the next state.
LEMMA AdvanceWrite ==
    ASSUME RowInv, NEW o \in Ops, NEW expected,
           NEW next \in {"Staged", "Verified", "MetaCommitted", "IndexSynced"},
           Journal!Advance(o, expected, next)
    PROVE  /\ OnlyRow(o) /\ items[o].state = expected
           /\ items'[o] = [items[o] EXCEPT !.state = next]
<1>1. items[o] \in Journal!ItemRow
  BY DEF RowInv
<1>2. items' = [items EXCEPT ![o] = [items[o] EXCEPT !.state = next]]
  BY DEF Journal!Advance
<1>3. [items[o] EXCEPT !.state = next] \in Journal!ItemRow
  BY <1>1 DEF Journal!ItemRow, Journal!LiveStates
<1> QED  BY <1>2, <1>3 DEF Journal!Advance, RowInv, OnlyRow

\* record_fs_applied stores the evidence with the state.
LEMMA AppliedWrite ==
    ASSUME RowInv, NEW o \in Ops, Journal!RecordFsApplied(o)
    PROVE  /\ OnlyRow(o) /\ items[o].state = "Staged"
           /\ items'[o] = [items[o] EXCEPT !.state = "FsApplied", !.evidence = TRUE]
<1>1. items[o] \in Journal!ItemRow
  BY DEF RowInv
<1>2. items' = [items EXCEPT ![o] = [items[o] EXCEPT !.state = "FsApplied", !.evidence = TRUE]]
  BY <1>1 DEF Journal!RecordFsApplied, RowInv, Journal!ItemRow
<1>3. [items[o] EXCEPT !.state = "FsApplied", !.evidence = TRUE] \in Journal!ItemRow
  BY <1>1 DEF Journal!ItemRow, Journal!LiveStates
<1>4. items[o].state = "Staged"
  BY DEF Journal!RecordFsApplied, Journal!CanTransition
<1> QED  BY <1>2, <1>3, <1>4 DEF RowInv, OnlyRow

\* finish_item ends a live row, with its result and without its hidden name.
LEMMA EndWrite ==
    ASSUME RowInv, NEW o \in Ops, NEW expected,
           \/ Journal!CompleteItem(o, expected)
           \/ Journal!FailItem(o, expected, FALSE)
    PROVE  /\ OnlyRow(o) /\ items[o].state = expected
           /\ items[o].state \notin Journal!Terminal
           /\ items'[o].state = IF Journal!CompleteItem(o, expected) THEN "Completed" ELSE "Failed"
           /\ items'[o].result = ResultOf(items'[o].state)
           /\ ~items'[o].temporary /\ ~items'[o].evidence
<1>1. items[o] \in Journal!ItemRow
  BY DEF RowInv
<1>0. items[o].state = expected
  BY DEF Journal!CompleteItem, Journal!FailItem, Journal!FinishItem
<1>2. expected \notin Journal!Terminal
  BY DEF Journal!CompleteItem, Journal!FailItem, Journal!CanTransition, Journal!LiveStates,
         Journal!Terminal
<1>3. ASSUME NEW terminal \in Journal!Terminal, NEW counter \in Journal!Counters,
             Journal!FinishItem(o, expected, terminal, counter, FALSE)
      PROVE  /\ OnlyRow(o) /\ items'[o].state = terminal /\ items'[o].result = counter
             /\ ~items'[o].temporary /\ ~items'[o].evidence
  <2> DEFINE row == [items[o] EXCEPT !.state = terminal, !.result = counter,
                                     !.temporary = FALSE, !.evidence = FALSE]
  <2>1. items' = [items EXCEPT ![o] = row]
    BY <1>1, <1>3 DEF Journal!FinishItem, RowInv, Journal!ItemRow
  <2>2. row \in Journal!ItemRow
    BY <1>1 DEF Journal!ItemRow, Journal!Terminal, Journal!Counters
  <2>3. /\ row.state = terminal /\ row.result = counter
        /\ ~row.temporary /\ ~row.evidence
    BY <1>1 DEF Journal!ItemRow
  <2> HIDE DEF row
  <2>4. items'[o] = row
    BY <2>1 DEF RowInv
  <2> QED  BY <2>1, <2>2, <2>3, <2>4 DEF RowInv, OnlyRow
<1>4. CASE Journal!CompleteItem(o, expected)
  <2>1. Journal!FinishItem(o, expected, "Completed", "completed", FALSE)
    BY <1>4 DEF Journal!CompleteItem
  <2> QED  BY <1>0, <1>2, <1>3, <1>4, <2>1 DEF Journal!Terminal, Journal!Counters, ResultOf
<1>5. CASE ~Journal!CompleteItem(o, expected)
  <2>1. Journal!FinishItem(o, expected, "Failed", "failed", FALSE)
    BY <1>5 DEF Journal!FailItem
  <2> QED  BY <1>0, <1>2, <1>3, <1>5, <2>1 DEF Journal!Terminal, Journal!Counters, ResultOf
<1> QED  BY <1>4, <1>5

\* A write keeps the rows sound when the new row is sound and fits the file.
LEMMA WriteKeepsRows ==
    ASSUME RowInv, NEW o \in Ops, OnlyRow(o), UNCHANGED <<at, part, destroyed>>,
           SoundRow(items'[o]),
           part[o] # NoFile => OpenRow(items'[o]) \/ Skipped(items'[o]),
           o \notin destroyed => StateFits(o, items'[o].state) \/ Skipped(items'[o])
    PROVE  RowInv'
<1>1. \A q \in Ops : q # o => items'[q] = items[q]
  BY DEF OnlyRow
<1>2. \A q \in Ops : SoundRow(items'[q])
  BY <1>1 DEF RowInv
<1>3. \A q \in Ops : part'[q] # NoFile => OpenRow(items'[q]) \/ Skipped(items'[q])
  BY <1>1 DEF RowInv
<1>4. \A q \in Ops \ destroyed' : StateFits(q, items'[q].state) \/ Skipped(items'[q])
  BY <1>1 DEF RowInv
<1>5. \A q \in Ops \ destroyed' : StateFits(q, items[q].state)' \/ Skipped(items'[q])
  BY <1>4 DEF StateFits
<1> QED  BY <1>2, <1>3, <1>5 DEF RowInv, OnlyRow

\* Steps that leave the disk and the rows alone.
LEMMA SameRows ==
    ASSUME RowInv, UNCHANGED <<items, at, part, destroyed>>
    PROVE  RowInv'
BY DEF RowInv, StateFits

\* finish_item for a cancelled row, whatever state it is in.
LEMMA SkipWrite ==
    ASSUME RowInv, NEW o \in Ops, NEW expected, Journal!SkipItem(o, expected, FALSE)
    PROVE  /\ OnlyRow(o) /\ items[o].state = expected
           /\ items[o].state \notin Journal!Terminal
           /\ items'[o].state = "Completed" /\ items'[o].result = "skipped"
           /\ ~items'[o].temporary /\ ~items'[o].evidence
<1>1. items[o] \in Journal!ItemRow
  BY DEF RowInv
<1>2. Journal!FinishItem(o, expected, "Completed", "skipped", FALSE)
  BY DEF Journal!SkipItem
<1>3. items[o].state = expected /\ expected \notin Journal!Terminal
  BY <1>2 DEF Journal!SkipItem, Journal!FinishItem, Journal!LiveStates, Journal!Terminal
<1> DEFINE row == [items[o] EXCEPT !.state = "Completed", !.result = "skipped",
                                   !.temporary = FALSE, !.evidence = FALSE]
<1>4. items' = [items EXCEPT ![o] = row]
  BY <1>1, <1>2 DEF Journal!FinishItem, RowInv, Journal!ItemRow
<1>5. row \in Journal!ItemRow
  BY <1>1 DEF Journal!ItemRow, Journal!Terminal, Journal!Counters
<1>6. /\ row.state = "Completed" /\ row.result = "skipped"
      /\ ~row.temporary /\ ~row.evidence
  BY <1>1 DEF Journal!ItemRow
<1> HIDE DEF row
<1>7. items'[o] = row
  BY <1>4 DEF RowInv
<1> QED  BY <1>3, <1>4, <1>5, <1>6, <1>7 DEF RowInv, OnlyRow

-----------------------------------------------------------------------------
(* One step each. *)

\* What every step of the worker on its operation relies on.
LEMMA AtTheRow ==
    ASSUME RenameInv
    PROVE  /\ op \in Ops /\ RowInv /\ ControlInv
           /\ items[op] \in Journal!ItemRow /\ SoundRow(items[op])
           /\ items[op].state # "Completed" =>
                 /\ part[op] # NoFile => OpenRow(items[op])
                 /\ op \notin destroyed => StateFits(op, items[op].state)
           /\ part[op] \in {op, NoFile}
BY DEF RenameInv, FileInv, FileTypes, RowInv, OwnParts, Skipped

\* A file that is neither lost nor overwritten is hidden, at its source or at its
\* destination, in one of them only.
LEMMA OnePlace ==
    ASSUME FileInv, NEW o \in Ops \ destroyed
    PROVE  /\ part[o] = o \/ at[Src[o]] = o \/ at[Dst[o]] = o
           /\ ~(at[Src[o]] = o /\ at[Dst[o]] = o)
           /\ part[o] # NoFile => at[Src[o]] # o /\ at[Dst[o]] # o
<1>1. Src[o] \in Paths /\ Dst[o] \in Paths /\ Src[o] # Dst[o]
  BY PlanAssumption
<1>2. \/ PathsOf(o) = {} /\ PartsOf(o) = {o}
      \/ PathsOf(o) \in {{Src[o]}, {Dst[o]}} /\ PartsOf(o) = {}
  BY DEF FileInv, NoFileLost
<1>3. /\ at[Src[o]] = o <=> Src[o] \in PathsOf(o)
      /\ at[Dst[o]] = o <=> Dst[o] \in PathsOf(o)
      /\ part[o] = o <=> o \in PartsOf(o)
  BY <1>1 DEF PathsOf, PartsOf
<1>4. part[o] # NoFile => part[o] = o
  BY DEF FileInv, OwnParts
<1> QED  BY <1>1, <1>2, <1>3, <1>4

\* An overwritten file is not hidden.
LEMMA DestroyedNotHidden ==
    ASSUME FileInv, NEW o \in destroyed
    PROVE  part[o] = NoFile
<1>1. PartsOf(o) = {} /\ o \in Ops
  BY DEF FileInv, DestroyedAreGone, FileTypes
<1> QED  BY <1>1 DEF FileInv, OwnParts, PartsOf

\* begin_plan inserts rows for files that are where the planner saw them.
LEMMA BeginPlanKeeps ==
    ASSUME RenameInv, BeginPlan PROVE RowInv' /\ ControlInv'
<1> DEFINE row == Journal!NewItem("Skip", "planned")
<1>1. items' = [o \in Ops |-> row] /\ \A o \in Ops : items[o].state = "Absent"
  BY DEF BeginPlan, Journal!BeginPlan
<1>2. /\ row \in Journal!ItemRow /\ SoundRow(row) /\ row.state = "Prepared"
  BY DEF Journal!NewItem, Journal!ItemRow, Journal!LiveStates, Journal!AppliedStates,
         Journal!Terminal, SoundRow, ResultOf
<1>9. ~row.evidence
  BY DEF Journal!NewItem
<1>3. UNCHANGED <<at, part, destroyed>> /\ \A o \in Ops : part[o] = NoFile
  BY DEF BeginPlan, disk, environment
<1>4. \A o \in Ops : items'[o] = row
  BY <1>1
<1> HIDE DEF row
<1>5. \A o \in Ops \ destroyed : at[Dst[o]] # o
  BY <1>1 DEF RenameInv, RowInv, StateFits, Skipped
<1>6. \A o \in Ops \ destroyed : StateFits(o, items[o].state)'
  BY <1>2, <1>3, <1>4, <1>5 DEF StateFits, Journal!AppliedStates
<1>7. RowInv'
  BY <1>1, <1>2, <1>3, <1>4, <1>6 DEF RowInv
<1>8. ControlInv'
  BY <1>2, <1>4, <1>9
     DEF BeginPlan, ControlInv, StepKnowsTheRow, StepOfTheMode, PassesInOrder, InSteps, Untouched
<1> QED  BY <1>7, <1>8

\* The steps that neither move a file nor write a row: checks, barriers and errors.
LEMMA ChecksKeep ==
    ASSUME RenameInv,
           Revalidate \/ Confirm \/ CommitMetadata \/ SyncIndex \/ Fault
    PROVE  RowInv' /\ ControlInv'
<1>1. UNCHANGED <<items, at, part, destroyed>>
  BY DEF Revalidate, Confirm, CommitMetadata, SyncIndex, Fault, disk, journal, environment
<1>2. op \in Ops /\ ControlInv
  BY AtTheRow
<1>3. RowInv'
  BY <1>1, SameRows DEF RenameInv
<1>4. CASE Revalidate
  <2>1. /\ step' \in {"prepare", "settle"} /\ step = "revalidate"
        /\ op' = op /\ mode' = mode /\ op = 1
    BY <1>2, <1>4 DEF Revalidate, ControlInv, StepKnowsTheRow
  <2>2. mode = "executing" /\ \A o \in Ops : ~(o < op')
    BY <1>2, <2>1 DEF ControlInv, StepOfTheMode, InSteps, Ops
  <2>3. step' = "settle" => Ops \ failed' = {} /\ op' \in failed'
    BY <1>2, <1>4 DEF Revalidate
  <2> QED  BY <1>3, <2>1, <2>2, <2>3
           DEF ControlInv, StepKnowsTheRow, StepOfTheMode, PassesInOrder, InSteps
<1>5. CASE /\ Fails /\ mode \in {"executing", "recovering"}
            /\ step \notin {"revalidate", "turn", "close"}
  <2>1. UNCHANGED items
    BY <1>1
  <2> QED  BY <1>2, <1>3, <1>5, <2>1, FailsKeepsControl
<1>6. CASE Stay("apply") /\ Confirm
  <2>1. /\ op' = op /\ mode' = mode /\ step = "confirm" /\ step' = "apply"
    BY <1>6 DEF Stay, Confirm
  <2>2. PassesInOrder'
    BY <1>1, <1>2, <1>6, <2>1, StayKeepsPasses DEF InSteps, ControlInv
  <2> QED  BY <1>1, <1>2, <1>3, <2>1, <2>2
           DEF ControlInv, StepKnowsTheRow, StepOfTheMode, InSteps, Staged
<1>7. CASE (Stay("barrier") /\ CommitMetadata) \/ (Stay("synced") /\ SyncIndex)
  <2>1. /\ op' = op /\ mode' = mode
        /\ <<step, step'>> \in {<<"metadata", "barrier">>, <<"index", "synced">>}
    BY <1>7 DEF Stay, CommitMetadata, SyncIndex
  <2>2. PassesInOrder'
    BY <1>1, <1>2, <1>7, <2>1, StayKeepsPasses DEF InSteps, ControlInv
  <2> QED  BY <1>1, <1>2, <1>3, <2>1, <2>2
           DEF ControlInv, StepKnowsTheRow, StepOfTheMode, InSteps
<1>8. step \in {"confirm", "metadata", "index"} => mode \in {"executing", "recovering"}
  BY <1>2 DEF ControlInv, StepOfTheMode, InSteps
<1> QED  BY <1>3, <1>4, <1>5, <1>6, <1>7, <1>8 DEF Confirm, CommitMetadata, SyncIndex, Fault

\* The project is opened, the worker ends, or the process dies.
LEMMA ModesKeep ==
    ASSUME RenameInv, OpenProject \/ Close \/ Crash
    PROVE  RowInv' /\ ControlInv'
<1>1. UNCHANGED <<at, part, destroyed>>
  BY DEF OpenProject, Close, Crash, disk, environment
<1>2. UNCHANGED items
  BY DEF OpenProject, Close, Crash, journal, Journal!FinishBatch
<1>3. RowInv'
  BY <1>1, <1>2, SameRows DEF RenameInv
<1>4. ControlInv'
  BY DEF OpenProject, Close, Crash, Shutdown, ControlInv, StepKnowsTheRow, StepOfTheMode,
         PassesInOrder, InSteps
<1> QED  BY <1>3, <1>4

\* The evidence of one operation is stored, or the file is not the previewed one.
LEMMA PrepareKeeps ==
    ASSUME RenameInv, Prepare PROVE RowInv' /\ ControlInv'
<1>0. op \in Ops /\ ControlInv /\ RowInv /\ step = "prepare" /\ mode = "executing"
  BY AtTheRow DEF Prepare, ControlInv, StepOfTheMode, InSteps
<1>a. UNCHANGED <<at, part, destroyed>>
  BY DEF Prepare, disk, environment
<1>1. CASE at[Src[op]] = op
  <2>1. Journal!RecordPreparedEvidence(op) /\ MoveOn(failed)
    BY <1>1 DEF Prepare
  <2>2. /\ OnlyRow(op) /\ items[op].state = "Prepared"
        /\ items'[op] = [items[op] EXCEPT !.temporary = TRUE, !.evidence = TRUE]
    BY <1>0, <2>1, EvidenceWrite
  <2>3. /\ items'[op].state = "Prepared" /\ items'[op].temporary /\ items'[op].evidence
        /\ items'[op].result = items[op].result
    BY <2>2, AtTheRow DEF Journal!ItemRow
  <2>4. SoundRow(items'[op]) /\ OpenRow(items'[op])
    BY <2>2, <2>3, AtTheRow
       DEF SoundRow, OpenRow, Skipped, ResultOf, Journal!AppliedStates, Journal!Terminal
  <2>5. op \notin destroyed => StateFits(op, items'[op].state)
    BY <2>2, <2>3, AtTheRow
  <2>6. RowInv'
    BY <1>0, <1>a, <2>2, <2>4, <2>5, WriteKeepsRows
  <2>7. \A o \in Ops \ failed : o <= op => Ready(o)'
    <3>2. ASSUME NEW o \in Ops \ failed, o < op PROVE items'[o].state = "Prepared" /\ items'[o].evidence
      BY <1>0, <2>2, <3>2 DEF ControlInv, PassesInOrder, OnlyRow, Ready, Ops
    <3>3. ASSUME NEW o \in Ops \ failed, o <= op PROVE items'[o].state = "Prepared" /\ items'[o].evidence
      BY <1>0, <2>3, <3>2, <3>3 DEF Ops
    <3> QED  BY <3>3 DEF Ready
  <2> QED  BY <1>0, <2>1, <2>6, <2>7, MoveOnKeepsControl DEF ControlInv, PassOf
<1>2. CASE at[Src[op]] # op
  <2>1. Fails /\ UNCHANGED items
    BY <1>2 DEF Prepare, journal
  <2>2. ControlInv'
    BY <1>0, <2>1, FailsKeepsControl
  <2> QED  BY <1>0, <1>a, <2>1, <2>2, SameRows
<1> QED  BY <1>1, <1>2

\* The row of a file that was moved aside is advanced to Staged.
LEMMA StageKeeps ==
    ASSUME RenameInv, Stage PROVE RowInv' /\ ControlInv'
<1>0. op \in Ops /\ ControlInv /\ RowInv /\ step = "stage" /\ mode = "executing" /\ Ready(op)
  BY AtTheRow DEF Stage, ControlInv, StepOfTheMode, InSteps, StepKnowsTheRow
<1>1. UNCHANGED <<at, part, destroyed>> /\ MoveOn(failed)
  BY DEF Stage, disk, environment
<1>2. OnlyRow(op) /\ items'[op] = [items[op] EXCEPT !.state = "Staged"]
  BY <1>0, AdvanceWrite DEF Stage
<1>3. /\ items'[op].state = "Staged" /\ items'[op].temporary = items[op].temporary
      /\ items'[op].evidence /\ items'[op].result = items[op].result
  BY <1>0, <1>2, AtTheRow DEF Journal!ItemRow, Ready
<1>4. SoundRow(items'[op]) /\ OpenRow(items'[op])
  BY <1>0, <1>3, AtTheRow
     DEF SoundRow, OpenRow, Ready, Skipped, ResultOf, Journal!AppliedStates, Journal!Terminal
<1>5. StateFits(op, items'[op].state)
  BY <1>3 DEF StateFits, Journal!AppliedStates
<1>6. RowInv'
  BY <1>0, <1>1, <1>2, <1>4, <1>5, WriteKeepsRows
<1>7. \A o \in Ops \ failed : (o <= op => Staged(o)') /\ (o > op => Ready(o)')
  <2>1. ASSUME NEW o \in Ops \ failed
        PROVE  /\ o <= op => items'[o].state = "Staged"
               /\ o > op => items'[o].state = "Prepared" /\ items'[o].evidence
    <3>1. o \in Nat /\ op \in Nat
      BY <1>0 DEF Ops
    <3>2. o # op => items'[o] = items[o]
      BY <1>2 DEF OnlyRow
    <3>3. (o < op => Staged(o)) /\ (o > op => Ready(o))
      BY <1>0 DEF ControlInv, PassesInOrder
    <3> QED  BY <1>3, <3>1, <3>2, <3>3 DEF Staged, Ready
  <2> QED  BY <2>1 DEF Staged, Ready
<1> QED  BY <1>0, <1>1, <1>6, <1>7, MoveOnKeepsControl DEF ControlInv, PassOf

\* A write that goes one state forward within InSteps, for a file at its destination.
LEMMA ForwardKeeps ==
    ASSUME RenameInv, NEW next \in InSteps, step \in InSteps, Stay(next), OnlyRow(op),
           UNCHANGED <<at, part, destroyed>>,
           op \in destroyed \/ at[Dst[op]] = op,
           items'[op].state \in Journal!AppliedStates,
           items'[op].evidence, items'[op].temporary, items'[op].result = "none",
           \/ next = "verify" /\ items'[op].state = "FsApplied"
           \/ next \in {"metadata", "barrier"} /\ items'[op].state = "Verified"
           \/ next \in {"index", "synced"} /\ items'[op].state = "MetaCommitted"
           \/ next = "complete" /\ items'[op].state = "IndexSynced"
    PROVE  RowInv' /\ ControlInv'
<1>0. op \in Ops /\ ControlInv /\ RowInv /\ FileInv
  BY AtTheRow DEF RenameInv
<1>1. part[op] = NoFile
  BY <1>0, OnePlace, DestroyedNotHidden
<1>2. SoundRow(items'[op])
  BY DEF SoundRow, ResultOf, Journal!AppliedStates, Journal!Terminal
<1>3. op \notin destroyed => StateFits(op, items'[op].state)
  BY DEF StateFits, Journal!AppliedStates
<1>4. RowInv'
  BY <1>0, <1>1, <1>2, <1>3, WriteKeepsRows
<1>5. PassesInOrder'
  BY <1>0, StayKeepsPasses DEF OnlyRow, ControlInv
<1>6. step' = next /\ op' = op /\ mode' = mode
  BY DEF Stay
<1>7. ControlInv'
  BY <1>0, <1>5, <1>6 DEF ControlInv, StepKnowsTheRow, StepOfTheMode, InSteps
<1> QED  BY <1>4, <1>7

\* record_fs_applied, verified, the barrier and the index, each confirmed in the journal.
LEMMA WritesKeep ==
    ASSUME RenameInv, Apply \/ Verify \/ Barrier \/ Synced
    PROVE  RowInv' /\ ControlInv'
<1>0. op \in Ops /\ ControlInv /\ RowInv
  BY AtTheRow
<1>1. UNCHANGED <<at, part, destroyed>> /\ step \in InSteps
  BY DEF Apply, Verify, Barrier, Synced, disk, environment, InSteps
<1>2. op \in destroyed \/ at[Dst[op]] = op
  BY <1>0, AtTheRow
     DEF Apply, Verify, Barrier, Synced, ControlInv, StepKnowsTheRow, StateFits, Journal!AppliedStates
<1>3. items[op].result = "none" /\ items[op].evidence /\ items[op].temporary
  BY <1>0, AtTheRow
     DEF Apply, Verify, Barrier, Synced, ControlInv, StepKnowsTheRow, SoundRow, ResultOf,
         Staged, Skipped, Journal!AppliedStates
<1>4. CASE Apply
  <2>1. OnlyRow(op) /\ items'[op] = [items[op] EXCEPT !.state = "FsApplied", !.evidence = TRUE]
    BY <1>0, <1>4, AppliedWrite DEF Apply
  <2>2. /\ items'[op].state = "FsApplied" /\ items'[op].evidence /\ items'[op].temporary
        /\ items'[op].result = "none"
    BY <1>3, <2>1, AtTheRow DEF Journal!ItemRow
  <2>3. Stay("verify") /\ "verify" \in InSteps /\ "FsApplied" \in Journal!AppliedStates
    BY <1>4 DEF Apply, InSteps, Journal!AppliedStates
  <2> QED  BY <1>1, <1>2, <2>1, <2>2, <2>3, ForwardKeeps
<1>5. ASSUME NEW next \in InSteps, Stay(next),
             NEW reached \in {"Verified", "MetaCommitted", "IndexSynced"},
             OnlyRow(op), items'[op] = [items[op] EXCEPT !.state = reached],
             \/ next \in {"metadata", "barrier"} /\ reached = "Verified"
             \/ next \in {"index", "synced"} /\ reached = "MetaCommitted"
             \/ next = "complete" /\ reached = "IndexSynced"
      PROVE  RowInv' /\ ControlInv'
  <2>1. /\ items'[op].state = reached /\ items'[op].evidence /\ items'[op].temporary
        /\ items'[op].result = "none"
    BY <1>3, <1>5, AtTheRow DEF Journal!ItemRow
  <2>2. reached \in Journal!AppliedStates
    BY DEF Journal!AppliedStates
  <2> QED  BY <1>1, <1>2, <1>5, <2>1, <2>2, ForwardKeeps
<1>6. CASE Verify
  <2>1. OnlyRow(op) /\ items'[op] = [items[op] EXCEPT !.state = "Verified"]
    BY <1>0, <1>6, AdvanceWrite DEF Verify
  <2> QED  BY <1>5, <1>6, <2>1 DEF Verify, InSteps
<1>7. CASE Barrier
  <2>1. OnlyRow(op) /\ items'[op] = [items[op] EXCEPT !.state = "MetaCommitted"]
    BY <1>0, <1>7, AdvanceWrite DEF Barrier
  <2> QED  BY <1>5, <1>7, <2>1 DEF Barrier, InSteps
<1>8. CASE Synced
  <2>1. OnlyRow(op) /\ items'[op] = [items[op] EXCEPT !.state = "IndexSynced"]
    BY <1>0, <1>8, AdvanceWrite DEF Synced
  <2> QED  BY <1>5, <1>8, <2>1 DEF Synced, InSteps
<1> QED  BY <1>4, <1>6, <1>7, <1>8

\* A row is ended only where the file is: completed at the destination, failed at the
\* source.
LEMMA EndKeepsRows ==
    ASSUME RenameInv, NEW o \in Ops, NEW expected,
           UNCHANGED <<at, part, destroyed>>, part[o] = NoFile,
           \/ /\ Journal!CompleteItem(o, expected)
              /\ o \in destroyed \/ at[Dst[o]] = o
           \/ /\ Journal!FailItem(o, expected, FALSE) /\ ~Journal!CompleteItem(o, expected)
              /\ o \in destroyed \/ at[Src[o]] = o
    PROVE  RowInv' /\ OnlyRow(o)
<1>1. RowInv
  BY DEF RenameInv
<1>2. /\ OnlyRow(o)
      /\ items'[o].state = IF Journal!CompleteItem(o, expected) THEN "Completed" ELSE "Failed"
      /\ items'[o].result = ResultOf(items'[o].state)
      /\ ~items'[o].temporary /\ ~items'[o].evidence
  BY <1>1, EndWrite
<1>3. SoundRow(items'[o])
  BY <1>2 DEF SoundRow, Journal!AppliedStates
<1>4. o \notin destroyed => StateFits(o, items'[o].state)
  BY <1>2 DEF StateFits, Journal!AppliedStates
<1> QED  BY <1>1, <1>2, <1>3, <1>4, WriteKeepsRows

\* CompleteItem and FailItem end a row differently.
LEMMA EndsDiffer ==
    ASSUME RowInv, NEW o \in Ops, NEW expected,
           Journal!FailItem(o, expected, FALSE), Journal!CompleteItem(o, expected)
    PROVE  FALSE
<1>1. items[o] \in Journal!ItemRow
  BY DEF RowInv
<1>2. items'[o].state = "Failed"
  BY <1>1 DEF Journal!FailItem, Journal!FinishItem, RowInv, Journal!ItemRow
<1>3. items'[o].state = "Completed"
  BY <1>1 DEF Journal!CompleteItem, Journal!FinishItem, RowInv, Journal!ItemRow
<1> QED  BY <1>2, <1>3

\* complete_item and the results of the last pass and of recovery.
LEMMA EndsKeep ==
    ASSUME RenameInv, Complete \/ Settle \/ Restored
    PROVE  RowInv' /\ ControlInv'
<1>0. op \in Ops /\ ControlInv /\ RowInv /\ FileInv
  BY AtTheRow DEF RenameInv
<1>1. UNCHANGED <<at, part, destroyed>> /\ MoveOn(failed) /\ step # "none" /\ step # "revalidate"
  BY DEF Complete, Settle, Restored, disk, environment
<1>2. CASE Complete
  <2>1. Journal!CompleteItem(op, "IndexSynced") /\ step = "complete"
    BY <1>2 DEF Complete
  <2>2. op \in destroyed \/ at[Dst[op]] = op
    BY <1>0, <2>1, AtTheRow DEF ControlInv, StepKnowsTheRow, StateFits, Journal!AppliedStates
  <2>3. part[op] = NoFile
    BY <1>0, <2>2, OnePlace, DestroyedNotHidden
  <2>4. RowInv' /\ OnlyRow(op)
    BY <1>0, <1>1, <2>1, <2>2, <2>3, EndKeepsRows
  <2>6. items'[op].state = "Completed"
    BY <1>0, <2>1, EndWrite
  <2>5. mode = "executing" =>
           \A o \in Ops \ failed : (o <= op => Done(o)') /\ (o > op => Staged(o)')
    <3>1. ASSUME mode = "executing", NEW o \in Ops \ failed, o > op
          PROVE  items'[o].state = "Staged"
      <4>1. o # op
        BY <1>0, <3>1 DEF Ops
      <4> QED  BY <1>0, <2>1, <2>4, <3>1, <4>1
               DEF ControlInv, PassesInOrder, InSteps, OnlyRow, Staged
    <3>2. ASSUME mode = "executing", NEW o \in Ops \ failed, o < op
          PROVE  items'[o].state = "Completed"
      <4>1. o # op
        BY <1>0, <3>2 DEF Ops
      <4> QED  BY <1>0, <2>1, <2>4, <3>2, <4>1
               DEF ControlInv, PassesInOrder, InSteps, OnlyRow, Done
    <3>3. op \in Nat /\ \A o \in Ops : o \in Nat
      BY <1>0 DEF Ops
    <3> QED  BY <2>6, <3>1, <3>2, <3>3 DEF Staged, Done
  <2> QED  BY <1>0, <1>1, <2>1, <2>4, <2>5, MoveOnKeepsControl DEF ControlInv, PassOf
<1>3. CASE Settle
  <2>0. step = "settle" /\ op \in failed /\ \A o \in Ops \ {op} : items'[o] = items[o]
    BY <1>0, <1>3, EndWrite DEF Settle, ControlInv, StepKnowsTheRow, OnlyRow, journal
  <2>1. ControlInv'
    <3>1. ASSUME mode = "executing", NEW o \in Ops \ failed PROVE Done(o)' \/ Untouched(o)'
      BY <1>0, <2>0, <3>1 DEF ControlInv, PassesInOrder, Done, Untouched
    <3> QED  BY <1>0, <1>1, <2>0, <3>1, MoveOnKeepsControl DEF ControlInv, PassOf
  <2>2. CASE SafeToFail(op)
    <3>1. Journal!FailItem(op, items[op].state, FALSE)
      BY <1>3, <2>2 DEF Settle
    <3>2. part[op] = NoFile
      BY <2>2, AtTheRow DEF SafeToFail, OpenRow, SoundRow
    <3>3. op \in destroyed \/ at[Src[op]] = op
      <4> SUFFICES ASSUME op \notin destroyed PROVE at[Src[op]] = op
        OBVIOUS
      <4>1. at[Dst[op]] # op
        BY <1>0, <2>2, AtTheRow, PlanFiles DEF SafeToFail, StateFits
      <4> QED  BY <1>0, <3>2, <4>1, OnePlace, PlanFiles
    <3>4. ~Journal!CompleteItem(op, items[op].state)
      BY <1>0, <3>1, EndsDiffer
    <3> QED  BY <1>0, <1>1, <2>1, <3>1, <3>2, <3>3, <3>4, EndKeepsRows
  <2>3. CASE ~SafeToFail(op)
    <3>1. UNCHANGED items
      BY <1>3, <2>3 DEF Settle, journal
    <3> QED  BY <1>0, <1>1, <2>1, <3>1, SameRows
  <2> QED  BY <2>2, <2>3
<1>4. CASE Restored
  <2>1. Journal!FailItem(op, items[op].state, FALSE) /\ step = "restored"
    BY <1>4 DEF Restored
  <2>2. op \in destroyed \/ at[Src[op]] = op
    BY <1>0, <2>1 DEF ControlInv, StepKnowsTheRow
  <2>3. part[op] = NoFile
    BY <1>0, <2>2, OnePlace, DestroyedNotHidden
  <2>4. ~Journal!CompleteItem(op, items[op].state)
    BY <1>0, <2>1, EndsDiffer
  <2>5. RowInv'
    BY <1>0, <1>1, <2>1, <2>2, <2>3, <2>4, EndKeepsRows
  <2>6. mode = "recovering"
    BY <1>0, <2>1 DEF ControlInv, StepOfTheMode, InSteps
  <2> QED  BY <1>0, <1>1, <2>5, <2>6, MoveOnKeepsControl DEF ControlInv
<1> QED  BY <1>2, <1>3, <1>4

\* Recovery's decision on one row: what the step it chooses relies on was just seen.
LEMMA RecoverKeeps ==
    ASSUME RenameInv, NEW o \in Ops, Recover(o)
    PROVE  RowInv' /\ ControlInv'
<1>0. ControlInv /\ RowInv /\ FileInv /\ step = "choose" /\ mode = "recovering"
  BY DEF RenameInv, Recover, ControlInv, StepOfTheMode, InSteps
<1>1. UNCHANGED <<at, part, destroyed>>
  BY DEF Recover, disk, environment
<1>2. /\ items[o] \in Journal!ItemRow /\ SoundRow(items[o])
      /\ o \notin destroyed /\ items[o].state # "Completed" => StateFits(o, items[o].state)
  BY <1>0 DEF RowInv, Skipped
<1>3. CASE Decision(o) \in {"review", "untouched"}
  <2>1. ControlInv'
    BY <1>0, <1>3 DEF Recover, ControlInv, StepKnowsTheRow, StepOfTheMode, PassesInOrder, InSteps
  <2>2. CASE Decision(o) = "untouched"
    <3>1. Journal!FailItem(o, items[o].state, FALSE)
      BY <1>3, <2>2 DEF Recover
    <3>2. /\ items[o].evidence /\ items[o].temporary
          /\ items[o].state = "Prepared" /\ PartStatus(o) = "Missing"
      <4>1. /\ items[o].evidence
            /\ \/ items[o].state = "Prepared" /\ PartStatus(o) = "Missing"
               \/ items[o].state = "Staged" /\ ~items[o].temporary
        BY <2>2 DEF Decision, Journal!AppliedStates
      <4> QED  BY <1>2, <4>1 DEF SoundRow
    <3>3. part[o] = NoFile
      BY <3>2 DEF PartStatus, Status
    <3>4. o \in destroyed \/ at[Src[o]] = o
      BY <1>0, <1>2, <3>2, <3>3, OnePlace, PlanFiles DEF StateFits
    <3>5. ~Journal!CompleteItem(o, items[o].state)
      BY <1>0, <3>1, EndsDiffer
    <3> QED  BY <1>1, <2>1, <3>1, <3>3, <3>4, <3>5, EndKeepsRows
  <2>3. CASE Decision(o) # "untouched"
    <3>1. UNCHANGED items
      BY <1>3, <2>3 DEF Recover, journal
    <3> QED  BY <1>0, <1>1, <2>1, <3>1, SameRows
  <2> QED  BY <2>2, <2>3
<1>4. CASE Decision(o) \notin {"review", "untouched"}
  <2>1. UNCHANGED <<items, mode, failed>> /\ op' = o /\ step' = Decision(o)
    BY <1>4 DEF Recover, journal
  <2>2. RowInv'
    BY <1>0, <1>1, <2>1, SameRows
  <2>3. \/ Decision(o) = "restore" /\ items[o].state \in {"Prepared", "Staged"}
        \/ Decision(o) = "moveIn" /\ items[o].state = "Staged"
        \/ /\ Decision(o) = "apply" /\ items[o].state = "Staged" /\ OnlyDestinationMatches(o)
        \/ Decision(o) = "verify" /\ items[o].state = "FsApplied"
        \/ Decision(o) = "metadata" /\ items[o].state = "Verified"
        \/ Decision(o) = "index" /\ items[o].state = "MetaCommitted"
        \/ Decision(o) = "complete" /\ items[o].state = "IndexSynced"
    BY <1>4 DEF Decision, Journal!AppliedStates
  <2>4. Decision(o) = "apply" => o \in destroyed \/ at[Dst[o]] = o
    <3> SUFFICES ASSUME items[o].state = "Staged", OnlyDestinationMatches(o), o \notin destroyed
                 PROVE  at[Dst[o]] = o
      BY <2>3
    <3>1. items[o].temporary
      BY <1>2 DEF SoundRow
    <3>2. at[Src[o]] = NoFile /\ part[o] = NoFile
      BY <3>1 DEF OnlyDestinationMatches, SourceStatus, PartStatus, Status
    <3> QED  BY <1>0, <3>2, OnePlace, PlanFiles
  <2>5. StepKnowsTheRow'
    BY <1>1, <2>1, <2>3, <2>4 DEF StepKnowsTheRow, Staged, Journal!Terminal
  <2>6. StepOfTheMode' /\ PassesInOrder'
    BY <1>0, <2>1, <2>3 DEF StepOfTheMode, PassesInOrder, InSteps
  <2> QED  BY <2>2, <2>5, <2>6 DEF ControlInv
<1> QED  BY <1>3, <1>4

\* A rename of one open file that keeps a Prepared one away from its destination.
LEMMA RenameKeepsRows ==
    ASSUME RowInv, NEW o \in Ops, UNCHANGED <<items, destroyed>>, OpenRow(items[o]),
           \A q \in Ops \ {o} : part'[q] = part[q] /\ \A p \in Paths : at'[p] = q <=> at[p] = q,
           items[o].state = "Prepared" => at'[Dst[o]] # o
    PROVE  RowInv'
<1>1. \A q \in Ops : Src[q] \in Paths /\ Dst[q] \in Paths
  BY PlanAssumption
<1>2. StateFits(o, items[o].state)'
  BY DEF StateFits, OpenRow, Journal!AppliedStates
<1>3. ASSUME NEW q \in Ops \ destroyed, q # o, ~Skipped(items[q])
      PROVE  StateFits(q, items[q].state)'
  <2>1. StateFits(q, items[q].state)
    BY <1>3 DEF RowInv
  <2>2. /\ at'[Dst[q]] = q <=> at[Dst[q]] = q
        /\ at'[Src[q]] = q <=> at[Src[q]] = q
    BY <1>1, <1>3
  <2> QED  BY <2>1, <2>2 DEF StateFits
<1>4. \A q \in Ops : part'[q] # NoFile => OpenRow(items[q]) \/ Skipped(items[q])
  BY DEF RowInv
<1> QED  BY <1>2, <1>3, <1>4 DEF RowInv

\* The three renames happen for a row that is still open and leave it so.
LEMMA RenamesKeep ==
    ASSUME RenameInv, MoveOut \/ MoveIn \/ Restore
    PROVE  RowInv' /\ ControlInv'
<1>0. /\ op \in Ops /\ ControlInv /\ RowInv /\ FileInv /\ UNCHANGED <<items, destroyed>>
      /\ step \notin {"revalidate", "turn", "close"} /\ mode \in {"executing", "recovering"}
  BY AtTheRow
     DEF RenameInv, MoveOut, MoveIn, Restore, journal, environment, ControlInv, StepOfTheMode, InSteps
<1>1. CASE UNCHANGED disk /\ Fails
  <2>1. UNCHANGED <<items, at, part, destroyed>>
    BY <1>0, <1>1 DEF disk
  <2>2. ControlInv'
    <3>1. UNCHANGED items
      BY <1>0
    <3> QED  BY <1>0, <1>1, <3>1, FailsKeepsControl
  <2> QED  BY <1>0, <2>1, <2>2, SameRows
<1>2. PICK o \in Ops : o = op
  BY <1>0
<1>3. Src[o] \in Paths /\ Dst[o] \in Paths /\ Src[o] # Dst[o] /\ \A q \in Ops : q # NoFile
  BY PlanAssumption, PlanFiles
<1>4. CASE MoveOut /\ at[Src[o]] = o /\ part[o] = NoFile
  <2>1. /\ at' = [at EXCEPT ![Src[o]] = NoFile] /\ part' = [part EXCEPT ![o] = o]
        /\ Stay("stage") /\ step = "moveOut"
    BY <1>2, <1>4 DEF MoveOut
  <2>2. Ready(o)
    BY <1>0, <1>2, <2>1 DEF ControlInv, StepKnowsTheRow
  <2>3. \A q \in Ops \ {o} : part'[q] = part[q] /\ \A p \in Paths : at'[p] = q <=> at[p] = q
    BY <1>3, <1>4, <2>1 DEF FileInv, FileTypes, RenameInv
  <2>4. OpenRow(items[o]) /\ o \notin destroyed /\ at'[Dst[o]] # o
    <3>1. o \notin destroyed
      BY <1>0, <1>3, <1>4 DEF FileInv, DestroyedAreGone, PathsOf
    <3>2. at[Dst[o]] # o
      BY <1>0, <1>4, <3>1, OnePlace
    <3> QED  BY <1>0, <1>3, <2>1, <2>2, <3>1, <3>2 DEF FileInv, FileTypes, Ready, OpenRow
  <2>5. RowInv'
    BY <1>0, <2>3, <2>4, RenameKeepsRows
  <2>6. step' = "stage" /\ mode' = mode /\ op' = op
    BY <2>1 DEF Stay
  <2>7. Ready(op)'
    BY <1>0, <1>2, <2>2, <2>6 DEF Ready
  <2>8. PassesInOrder'
    BY <1>0, <2>1, StayKeepsPasses DEF ControlInv
  <2>9. ControlInv'
    BY <1>0, <2>1, <2>6, <2>7, <2>8 DEF ControlInv, StepKnowsTheRow, StepOfTheMode, InSteps
  <2> QED  BY <2>5, <2>9
<1>5. ASSUME NEW path \in Paths, at[path] = NoFile, part[o] # NoFile,
             at' = [at EXCEPT ![path] = part[o]], part' = [part EXCEPT ![o] = NoFile],
             items[o].state \notin Journal!Terminal,
             items[o].state = "Prepared" => path # Dst[o]
      PROVE  RowInv' /\ at'[path] = o
  <2>1. part[o] = o /\ OpenRow(items[o])
    BY <1>0, <1>2, <1>5, AtTheRow DEF Journal!Terminal
  <2>2. \A q \in Ops \ {o} : part'[q] = part[q] /\ \A p \in Paths : at'[p] = q <=> at[p] = q
    BY <1>0, <1>3, <1>5, <2>1 DEF FileInv, FileTypes
  <2>3. at[Dst[o]] # o
    <3>1. o \notin destroyed
      BY <1>0, <1>5, DestroyedNotHidden
    <3> QED  BY <1>0, <1>5, <3>1, OnePlace
  <2>4. items[o].state = "Prepared" => at'[Dst[o]] # o
    BY <1>0, <1>3, <1>5, <2>3 DEF FileInv, FileTypes
  <2>5. RowInv'
    BY <1>0, <2>1, <2>2, <2>4, RenameKeepsRows
  <2>6. at'[path] = o
    BY <1>0, <1>5, <2>1 DEF FileInv, FileTypes
  <2> QED  BY <2>5, <2>6
<1>6. CASE MoveIn /\ at[Dst[o]] = NoFile /\ part[o] # NoFile
  <2>1. /\ at' = [at EXCEPT ![Dst[o]] = part[o]] /\ part' = [part EXCEPT ![o] = NoFile]
        /\ Stay("confirm") /\ step = "moveIn"
    BY <1>2, <1>6 DEF MoveIn
  <2>2. items[o].state = "Staged"
    BY <1>0, <1>2, <2>1 DEF ControlInv, StepKnowsTheRow, Staged
  <2>3. RowInv' /\ at'[Dst[o]] = o
    BY <1>3, <1>5, <1>6, <2>1, <2>2 DEF Journal!Terminal
  <2>4. step' = "confirm" /\ mode' = mode /\ op' = op
    BY <2>1 DEF Stay
  <2>5. PassesInOrder'
    BY <1>0, <2>1, StayKeepsPasses DEF ControlInv, InSteps
  <2>6. StepKnowsTheRow'
    BY <1>0, <1>2, <2>2, <2>3, <2>4 DEF StepKnowsTheRow, Staged
  <2>7. StepOfTheMode'
    BY <1>0, <2>1, <2>4 DEF ControlInv, StepOfTheMode, InSteps
  <2> QED  BY <2>3, <2>5, <2>6, <2>7 DEF ControlInv
<1>7. CASE Restore /\ at[Src[o]] = NoFile /\ part[o] # NoFile
  <2>1. /\ at' = [at EXCEPT ![Src[o]] = part[o]] /\ part' = [part EXCEPT ![o] = NoFile]
        /\ Stay("restored") /\ step = "restore"
    BY <1>2, <1>7 DEF Restore
  <2>0. items[o].state \notin Journal!Terminal
    BY <1>0, <1>2, <2>1 DEF ControlInv, StepKnowsTheRow
  <2>2. RowInv' /\ at'[Src[o]] = o
    BY <1>3, <1>5, <1>7, <2>0, <2>1
  <2>3. step' = "restored" /\ mode' = mode /\ op' = op /\ mode = "recovering"
    BY <1>0, <2>1 DEF Stay, ControlInv, StepOfTheMode, InSteps
  <2>4. PassesInOrder' /\ StepOfTheMode'
    BY <2>3 DEF PassesInOrder, StepOfTheMode
  <2>5. StepKnowsTheRow'
    BY <1>0, <1>2, <2>0, <2>2, <2>3 DEF StepKnowsTheRow
  <2> QED  BY <2>2, <2>4, <2>5 DEF ControlInv
<1> QED  BY <1>1, <1>2, <1>4, <1>6, <1>7 DEF MoveOut, MoveIn, Restore

\* Another application only makes files of the plan overwritten.
LEMMA OutsideKeeps ==
    ASSUME RenameInv, NEW p \in Paths, OutsideChange(p)
    PROVE  RowInv' /\ ControlInv'
<1>0. ControlInv /\ RowInv /\ FileInv /\ op \in Ops
  BY AtTheRow DEF RenameInv
<1>1. /\ UNCHANGED <<items, part, mode, op, step, failed>>
      /\ destroyed' = destroyed \cup ({at[p]} \cap Ops)
  BY DEF OutsideChange, journal, worker
<1>2. PICK f \in {NoFile, Foreign} : at' = [at EXCEPT ![p] = f]
  BY DEF OutsideChange, ForeignAppears, ForeignLeaves, ForeignReplaces
<1>3. \A o \in Ops : Src[o] \in Paths /\ Dst[o] \in Paths /\ o # f
  BY <1>2, PlanAssumption, PlanFiles
<1>4. ASSUME NEW o \in Ops, o \notin destroyed'
      PROVE  o \notin destroyed /\ \A q \in Paths : at'[q] = o <=> at[q] = o
  BY <1>0, <1>1, <1>2, <1>3, <1>4 DEF FileInv, FileTypes
<1>5. ASSUME NEW o \in Ops \ destroyed', ~Skipped(items[o])
      PROVE  StateFits(o, items[o].state)'
  <2>1. StateFits(o, items[o].state)
    BY <1>0, <1>4, <1>5 DEF RowInv
  <2>2. /\ at'[Dst[o]] = o <=> at[Dst[o]] = o
        /\ at'[Src[o]] = o <=> at[Src[o]] = o
    BY <1>3, <1>4, <1>5
  <2> QED  BY <1>1, <2>1, <2>2 DEF StateFits
<1>6. RowInv'
  BY <1>0, <1>1, <1>5 DEF RowInv
<1>7. /\ at[Dst[op]] = op => op \in destroyed' \/ at'[Dst[op]] = op
      /\ at[Src[op]] = op => op \in destroyed' \/ at'[Src[op]] = op
      /\ op \in destroyed => op \in destroyed'
  BY <1>0, <1>1, <1>3, <1>4
<1>8. ControlInv'
  BY <1>0, <1>1, <1>7
     DEF ControlInv, StepKnowsTheRow, StepOfTheMode, PassesInOrder, Ready, Staged, Done, Untouched
<1> QED  BY <1>6, <1>8

\* A cancellation ends the row of this turn, whatever became of its file; nothing else
\* but the token changes.
LEMMA TurnsKeep ==
    ASSUME RenameInv, NotStarted \/ Turn \/ Cancel \/ CancelInTurn
    PROVE  RowInv' /\ ControlInv'
<1>0. op \in Ops /\ ControlInv /\ RowInv
  BY AtTheRow
<1>1. UNCHANGED <<at, part, destroyed>>
  BY DEF NotStarted, Turn, Cancel, CancelInTurn, disk, environment
<1>2. \/ UNCHANGED items
      \/ \E expected : Journal!SkipItem(op, expected, FALSE)
  BY DEF NotStarted, Turn, Cancel, CancelInTurn, journal
<1>3. /\ RowInv'
      /\ \A o \in Ops : Done(o) => Done(o)'
      /\ \A o \in Ops : Untouched(o) => Done(o)' \/ Untouched(o)'
  <2>1. CASE UNCHANGED items
    <3>1. RowInv'
      BY <1>0, <1>1, <2>1, SameRows
    <3> QED  BY <2>1, <3>1 DEF Done, Untouched
  <2>2. CASE \E expected : Journal!SkipItem(op, expected, FALSE)
    <3>1. /\ OnlyRow(op) /\ items[op].state \notin Journal!Terminal
          /\ items'[op].state = "Completed" /\ items'[op].result = "skipped"
          /\ ~items'[op].temporary /\ ~items'[op].evidence
      BY <1>0, <2>2, SkipWrite
    <3>2. SoundRow(items'[op]) /\ Skipped(items'[op])
      BY <3>1 DEF SoundRow, Skipped, Journal!AppliedStates
    <3>3. RowInv'
      BY <1>0, <1>1, <3>1, <3>2, WriteKeepsRows
    <3>4. \A o \in Ops : o = op \/ items'[o] = items[o]
      BY <3>1 DEF OnlyRow
    <3> QED  BY <3>1, <3>3, <3>4 DEF Done, Untouched
  <2> QED  BY <1>2, <2>1, <2>2
<1>4. CASE Cancel
  <2>1. UNCHANGED <<items, mode, op, step, failed>>
    BY <1>4 DEF Cancel, journal, worker
  <2> QED  BY <1>0, <1>1, <1>3, <2>1
           DEF ControlInv, StepKnowsTheRow, StepOfTheMode, PassesInOrder, Ready, Staged, Done, Untouched
<1>5. CASE ~Cancel
  <2>1. /\ step \in {"revalidate", "turn"} /\ step' \in {"turn", "close"}
        /\ UNCHANGED <<mode, failed>>
    BY <1>5 DEF NotStarted, Turn, CancelInTurn, EndTurn
  <2>2. mode = "executing"
    BY <1>0, <2>1 DEF ControlInv, StepOfTheMode, InSteps
  <2>3. \A o \in Ops \ failed : Done(o) \/ Untouched(o)
    BY <1>0, <2>1, <2>2 DEF ControlInv, PassesInOrder
  <2> QED  BY <1>0, <1>3, <2>1, <2>2, <2>3
           DEF ControlInv, StepKnowsTheRow, StepOfTheMode, PassesInOrder, InSteps
<1> QED  BY <1>3, <1>4, <1>5

-----------------------------------------------------------------------------
(* The invariant of rows, files and worker. *)

\* A plan starts without rows and with an idle worker.
LEMMA RenameInit == Init => RenameInv
<1> SUFFICES ASSUME Init PROVE RenameInv
  OBVIOUS
<1>1. FileInv
  BY FileInit
<1> DEFINE row == [Journal!NewItem(CHOOSE p \in {"Skip"} : TRUE, CHOOSE d \in {"planned"} : TRUE)
                     EXCEPT !.state = "Absent"]
<1>2. items = [o \in Ops |-> row]
  BY DEF Init, Journal!Init
<1>3. row \in Journal!ItemRow /\ SoundRow(row) /\ row.state = "Absent"
  BY DEF Journal!NewItem, Journal!ItemRow, Journal!AppliedStates, Journal!Terminal, SoundRow, ResultOf
<1> HIDE DEF row
<1>4. \A o \in Ops : part[o] = NoFile /\ at[Src[o]] = o
  BY PlanAssumption DEF Init
<1>5. destroyed = {}
  BY DEF Init
<1>6. \A o \in Ops : at[Dst[o]] # o
  BY <1>1, <1>4, <1>5, OnePlace
<1>7. \A o \in Ops : StateFits(o, items[o].state)
  BY <1>2, <1>3, <1>6 DEF StateFits, Journal!AppliedStates
<1>8. RowInv
  BY <1>2, <1>3, <1>4, <1>7 DEF RowInv
<1>9. ControlInv
  BY DEF Init, ControlInv, StepKnowsTheRow, StepOfTheMode, PassesInOrder, InSteps
<1> QED  BY <1>1, <1>8, <1>9 DEF RenameInv

\* Every step keeps the invariant.
LEMMA RenameStepInv == RenameInv /\ [Next]_vars => RenameInv'
<1> SUFFICES ASSUME RenameInv, [Next]_vars PROVE RenameInv'
  OBVIOUS
<1>1. FileInv'
  BY FileStep DEF RenameInv
<1>2. CASE Next
  BY <1>1, <1>2, BeginPlanKeeps, ChecksKeep, ModesKeep, PrepareKeeps, StageKeeps, WritesKeep,
     EndsKeep, RecoverKeeps, RenamesKeep, OutsideKeeps, TurnsKeep
     DEF Next, Work, Execute, RenameInv
<1>3. CASE UNCHANGED vars
  <2>1. UNCHANGED <<items, at, part, destroyed, mode, op, step, failed>>
    BY <1>3 DEF vars, disk, journal, environment, worker
  <2>2. RowInv'
    BY <2>1, SameRows DEF RenameInv
  <2>3. ControlInv'
    BY <2>1 DEF RenameInv, ControlInv, StepKnowsTheRow, StepOfTheMode, PassesInOrder, Ready,
                Staged, Done, Untouched
  <2> QED  BY <1>1, <2>2, <2>3 DEF RenameInv
<1> QED  BY <1>2, <1>3

\* Files, journal rows and the worker agree throughout: a row is at its state only while
\* its file is where that state says, and a step finds what an earlier one has checked.
THEOREM RenameInvariance == Spec => []RenameInv
<1>1. Init => RenameInv
  BY RenameInit
<1>2. RenameInv /\ [Next]_vars => RenameInv'
  BY RenameStepInv
<1> QED  BY <1>1, <1>2, PTL DEF Spec

\* A hidden file is always on the work list of the next recovery, with its evidence
\* (rename.rs: record_prepared_evidence comes before the file is moved aside), unless a
\* cancellation has ended its row (results.rs: mark_cancelled).
THEOREM HiddenStaysTracked == Spec => []HiddenFileIsTracked
<1>1. RenameInv => HiddenFileIsTracked
  <2> SUFFICES ASSUME RenameInv, NEW o \in Ops, part[o] # NoFile
               PROVE  \/ /\ o \in Journal!IncompleteItems
                         /\ items[o].temporary /\ items[o].evidence
                      \/ items[o].result = "skipped"
    BY DEF HiddenFileIsTracked
  <2>1. (OpenRow(items[o]) \/ Skipped(items[o])) /\ SoundRow(items[o])
    BY DEF RenameInv, RowInv
  <2> QED  BY <2>1 DEF OpenRow, Skipped, SoundRow, Journal!IncompleteItems, Journal!Terminal
<1> QED  BY <1>1, RenameInvariance, PTL

-----------------------------------------------------------------------------
(* What recovery has decided stays decided. *)

\* The steps at which recovery is busy with one row of its work list.
Handling == InSteps \cup {"restore", "restored"}

\* Nothing of the plan is overwritten while nobody else changes anything; a row that
\* recovery is done with is ended or left for review.
ReviewInv ==
    outside = 0 =>
        /\ destroyed = {}
        /\ mode = "recovering" =>
              /\ step = "scan" => Journal!IncompleteItems = {}
              /\ step \in Handling => op \in todo
              /\ \A o \in Journal!IncompleteItems \ todo : Decision(o) = "review"

\* What is found decides what is done.
Decidable(o) ==
    \/ /\ items[o].state = "Prepared"
       /\ \/ SourceStatus(o) = "Match" /\ PartStatus(o) = "Missing"
          \/ SourceStatus(o) = "Missing" /\ PartStatus(o) = "Match"
    \/ /\ items[o].state = "Staged" /\ PartStatus(o) = "Match"
       /\ \/ DestinationStatus(o) = "Missing"
          \/ DestinationStatus(o) = "Conflict" /\ SourceStatus(o) = "Missing"
    \/ items[o].state \in {"Staged"} \cup Journal!AppliedStates /\ OnlyDestinationMatches(o)

\* The decision table: a row with its hidden name is left for review when its evidence is
\* missing, fits two places, or fits no rule.
Reviewed == \A o \in Ops : (items[o].state = "Staged" => items[o].temporary) =>
    (Decision(o) = "review" <=> ~items[o].evidence \/ Ambiguous(o) \/ ~Decidable(o))

\* The operator Decision follows that table.
LEMMA ReviewedRows == Reviewed
<1> SUFFICES ASSUME NEW o \in Ops, items[o].state = "Staged" => items[o].temporary
    PROVE  Decision(o) = "review" <=> ~items[o].evidence \/ Ambiguous(o) \/ ~Decidable(o)
  BY DEF Reviewed
<1> DEFINE src == SourceStatus(o)
           hidden == PartStatus(o)
           dst == DestinationStatus(o)
           state == items[o].state
<1>1. CASE ~items[o].evidence \/ Ambiguous(o)
  BY <1>1 DEF Decision
<1>2. CASE items[o].evidence /\ ~Ambiguous(o)
  <2>1. CASE state \notin {"Prepared", "Staged"} \cup Journal!AppliedStates
    BY <1>2, <2>1 DEF Decision, Decidable
  <2>2. CASE state = "Prepared"
    BY <1>2, <2>2 DEF Decision, Decidable, Journal!AppliedStates
  <2>3. CASE state = "Staged"
    BY <1>2, <2>3 DEF Decision, Decidable, Journal!AppliedStates, OnlyDestinationMatches
  <2>4. CASE state \in Journal!AppliedStates
    BY <1>2, <2>4 DEF Decision, Decidable, Journal!AppliedStates
  <2> QED  BY <2>1, <2>2, <2>3, <2>4
<1> QED  BY <1>1, <1>2

\* The same after a step.
LEMMA ReviewedNext == Reviewed'
BY ReviewedRows, PTL

\* A step that works on one row: the others keep their row and their hidden file, and no
\* visible path is vacated.
WorksOn(o) ==
    /\ \A q \in Ops \ {o} : items'[q] = items[q] /\ part'[q] = part[q]
    /\ \A p \in Paths : at[p] # NoFile => at'[p] = at[p]

\* What recovery has left for review is not decided otherwise later in the same run.
LEMMA ReviewStays ==
    ASSUME RenameInv, RenameInv', destroyed = {}, destroyed' = {}, NEW o \in Ops,
           items'[o] = items[o], part'[o] = part[o],
           \A p \in Paths : at[p] # NoFile => at'[p] = at[p],
           o \in Journal!IncompleteItems, Decision(o) = "review"
    PROVE  Decision(o)' = "review"
<1>0. SoundRow(items[o]) /\ ~Skipped(items[o]) /\ ~Skipped(items[o])'
  BY DEF RenameInv, RowInv, SoundRow, Skipped, Journal!IncompleteItems, Journal!Terminal
<1>1. /\ items[o] \in Journal!ItemRow
      /\ StateFits(o, items[o].state) /\ StateFits(o, items[o].state)'
      /\ FileInv /\ FileInv'
  BY <1>0 DEF RenameInv, RowInv
<1>2. items[o].state = "Staged" => items[o].temporary
  BY <1>0 DEF SoundRow
<1>3. ~items[o].evidence \/ Ambiguous(o) \/ ~Decidable(o)
  BY <1>2, ReviewedRows DEF Reviewed
<1>4. /\ SourceStatus(o) # "Missing" => SourceStatus(o)' = SourceStatus(o)
      /\ DestinationStatus(o) # "Missing" => DestinationStatus(o)' = DestinationStatus(o)
      /\ PartStatus(o)' = PartStatus(o)
  BY PlanAssumption DEF SourceStatus, DestinationStatus, PartStatus, Status
<1>5. Ambiguous(o) => Ambiguous(o)'
  BY <1>4 DEF Ambiguous
<1>6. CASE items[o].evidence /\ ~Ambiguous(o) /\ Decidable(o)'
  <2>1. items[o].temporary /\ ~Decidable(o)
    BY <1>0, <1>3, <1>6 DEF SoundRow
  <2>2. /\ PartStatus(o) = "Missing" => part[o] = NoFile
        /\ SourceStatus(o) = "Missing" => at[Src[o]] = NoFile
        /\ DestinationStatus(o) = "Missing" => at[Dst[o]] = NoFile
    BY <2>1 DEF PartStatus, SourceStatus, DestinationStatus, Status
  <2>3. part[o] = o \/ at[Src[o]] = o \/ at[Dst[o]] = o
    BY <1>1, OnePlace
  <2>4. /\ part[o] = o => PartStatus(o) = "Match"
        /\ at[Src[o]] = o => SourceStatus(o) = "Match"
        /\ at[Dst[o]] = o => DestinationStatus(o) = "Match"
    BY <2>1, PlanFiles DEF PartStatus, SourceStatus, DestinationStatus, Status
  <2>5. CASE items[o].state = "Prepared"
    <3>1. at[Dst[o]] # o
      BY <1>1, <2>5 DEF StateFits
    <3>2. PartStatus(o) = "Match" \/ SourceStatus(o) = "Match"
      BY <2>3, <2>4, <3>1
    <3>3. \/ SourceStatus(o)' = "Match" /\ PartStatus(o) = "Missing"
          \/ SourceStatus(o)' = "Missing" /\ PartStatus(o) = "Match"
      BY <1>4, <1>6, <2>5 DEF Decidable, Journal!AppliedStates
    <3> QED  BY <1>4, <2>1, <2>5, <3>2, <3>3 DEF Decidable
  <2>6. CASE items[o].state = "Staged" /\ PartStatus(o) = "Match"
    <3>1. \/ DestinationStatus(o)' = "Missing"
          \/ DestinationStatus(o)' = "Conflict" /\ SourceStatus(o)' = "Missing"
      BY <1>4, <1>6, <2>6 DEF Decidable, OnlyDestinationMatches, Journal!AppliedStates
    <3> QED  BY <1>4, <2>1, <2>6, <3>1 DEF Decidable
  <2>7. CASE /\ items[o].state \in {"Staged"} \cup Journal!AppliedStates
             /\ items[o].state = "Staged" => PartStatus(o) # "Match"
    <3>1. OnlyDestinationMatches(o)'
      BY <1>4, <1>6, <2>7 DEF Decidable, Journal!AppliedStates
    <3>2. PartStatus(o) = "Missing" /\ SourceStatus(o) = "Missing"
      BY <1>4, <3>1 DEF OnlyDestinationMatches
    <3>3. DestinationStatus(o) = "Match"
      BY <2>2, <2>3, <2>4, <3>2, PlanFiles
    <3> QED  BY <2>1, <2>7, <3>2, <3>3 DEF Decidable, OnlyDestinationMatches
  <2>8. items[o].state \in {"Prepared", "Staged"} \cup Journal!AppliedStates
    BY <1>6 DEF Decidable
  <2> QED  BY <2>5, <2>6, <2>7, <2>8
<1>7. CASE ~(items[o].evidence /\ ~Ambiguous(o) /\ Decidable(o)')
  <2>1. ~items'[o].evidence \/ Ambiguous(o)' \/ ~Decidable(o)'
    BY <1>5, <1>7
  <2> QED  BY <1>2, <2>1, ReviewedNext DEF Reviewed
<1> QED  BY <1>6, <1>7

\* The rows that are handled one step further, or ended, or passed over: what one step
\* of recovery does.
LEMMA RecoveryStep ==
    ASSUME RenameInv, RenameInv', Next, outside' = outside,
           mode = "recovering", mode' = "recovering"
    PROVE  \/ /\ step \in Handling /\ step' \in Handling /\ UNCHANGED <<op, todo>>
              /\ WorksOn(op)
           \/ /\ step \in Handling /\ step' = "choose" /\ todo' = todo \ {op}
              /\ WorksOn(op) /\ op \notin Journal!IncompleteItems'
           \/ \E o \in Ops : Recover(o)
<1>0. /\ op \in Ops /\ RowInv /\ FileInv /\ ControlInv /\ outside \in Nat
      /\ step \in {"choose", "scan"} \cup Handling
  BY DEF RenameInv, FileInv, FileTypes, ControlInv, StepOfTheMode, Handling
<1>1. ~Fails
  BY DEF Fails, Shutdown
<1>2. ASSUME UNCHANGED disk, OnlyRow(op) \/ UNCHANGED items PROVE WorksOn(op)
  BY <1>2 DEF WorksOn, OnlyRow, disk
<1>3. ASSUME NEW next \in Handling, Stay(next)
      PROVE  step' \in Handling /\ UNCHANGED <<op, todo>>
  BY <1>3 DEF Stay
<1>4. CASE Confirm \/ CommitMetadata \/ SyncIndex
  <2>1. /\ UNCHANGED items /\ UNCHANGED disk /\ step \in Handling
        /\ \E next \in Handling : Stay(next)
    BY <1>1, <1>4 DEF Confirm, CommitMetadata, SyncIndex, journal, Handling, InSteps
  <2> QED  BY <1>2, <1>3, <2>1
<1>5. CASE Apply \/ Verify \/ Barrier \/ Synced
  <2>1. /\ UNCHANGED disk /\ step \in Handling /\ \E next \in Handling : Stay(next)
    BY <1>5 DEF Apply, Verify, Barrier, Synced, Handling, InSteps
  <2>2. OnlyRow(op)
    BY <1>0, <1>5, AppliedWrite, AdvanceWrite DEF Apply, Verify, Barrier, Synced
  <2> QED  BY <1>2, <1>3, <2>1, <2>2
<1>6. CASE MoveIn \/ Restore
  <2>1. /\ UNCHANGED items /\ step \in Handling /\ \E next \in Handling : Stay(next)
        /\ part' = [part EXCEPT ![op] = NoFile]
        /\ \E path \in Paths : at[path] = NoFile /\ at' = [at EXCEPT ![path] = part[op]]
    BY <1>0, <1>1, <1>6, PlanAssumption DEF MoveIn, Restore, journal, Handling, InSteps
  <2>2. WorksOn(op)
    BY <1>0, <2>1 DEF WorksOn, FileInv, FileTypes
  <2> QED  BY <1>3, <2>1, <2>2
<1>7. CASE Complete \/ Restored
  <2>1. /\ UNCHANGED disk /\ MoveOn(failed) /\ step \in Handling
    BY <1>7 DEF Complete, Restored, Handling, InSteps
  <2>2. step' = "choose" /\ todo' = todo \ {op}
    BY <2>1 DEF MoveOn
  <2>3. OnlyRow(op) /\ ~items'[op].temporary /\ items'[op].state \in {"Completed", "Failed"}
    BY <1>0, <1>7, EndWrite DEF Complete, Restored
  <2>4. op \notin Journal!IncompleteItems'
    BY <2>3 DEF Journal!IncompleteItems, Journal!Terminal
  <2> QED  BY <1>2, <2>1, <2>2, <2>3, <2>4
<1>8. ~(BeginPlan \/ OpenProject \/ Fault \/ Crash \/ Close \/ Revalidate \/ Prepare \/ MoveOut
        \/ Stage \/ Settle \/ NotStarted \/ Turn \/ Cancel \/ CancelInTurn)
  BY <1>0, <1>1 DEF NotStarted, Turn, Cancel, CancelInTurn, BeginPlan, OpenProject, Fault, Crash, Close, Revalidate, Prepare, MoveOut,
                    Stage, Settle, Shutdown, Handling, InSteps
<1>9. ~(\E p \in Paths : OutsideChange(p))
  BY <1>0 DEF OutsideChange
<1> QED  BY <1>4, <1>5, <1>6, <1>7, <1>8, <1>9 DEF Next, Work, Execute

\* Every step keeps what recovery has decided.
LEMMA ReviewStep ==
    ASSUME RenameInv, RenameInv', ReviewInv, [Next]_vars PROVE ReviewInv'
<1> SUFFICES ASSUME outside' = 0 PROVE ReviewInv'
  BY DEF ReviewInv
<1>0. outside \in Nat /\ op \in Ops /\ FileInv /\ RowInv
  BY DEF RenameInv, FileInv, FileTypes
<1>1. ~(\E p \in Paths : OutsideChange(p))
  BY <1>0 DEF OutsideChange
<1>2. outside = 0 /\ UNCHANGED destroyed
  <2>1. UNCHANGED <<outside, destroyed>>
    <3>1. CASE MoveOut \/ MoveIn \/ Restore
      BY <3>1 DEF MoveOut, MoveIn, Restore, environment
    <3>2. CASE ~(MoveOut \/ MoveIn \/ Restore)
      BY <1>1, <3>2, QuietStep
    <3> QED  BY <3>1, <3>2
  <2> QED  BY <2>1
<1>3. destroyed = {} /\ destroyed' = {}
  BY <1>2 DEF ReviewInv
<1>4. SUFFICES ASSUME mode' = "recovering"
               PROVE  /\ step' = "scan" => Journal!IncompleteItems' = {}
                      /\ step' \in Handling => op' \in todo'
                      /\ \A o \in Journal!IncompleteItems' \ todo' : Decision(o)' = "review"
  BY <1>3 DEF ReviewInv
<1>5. CASE UNCHANGED vars
  <2>1. UNCHANGED <<items, at, part, mode, op, step, todo>>
    BY <1>5 DEF vars, journal, disk, worker
  <2>2. Journal!IncompleteItems' = Journal!IncompleteItems
    BY <2>1 DEF Journal!IncompleteItems
  <2>3. \A o \in Ops : Decision(o)' = Decision(o)
    BY <2>1 DEF Decision, Ambiguous, OnlyDestinationMatches, SourceStatus, DestinationStatus,
                PartStatus, Status
  <2>4. Journal!IncompleteItems \subseteq Ops
    BY DEF Journal!IncompleteItems
  <2> QED  BY <1>2, <1>4, <2>1, <2>2, <2>3, <2>4 DEF ReviewInv
<1>6. CASE Next /\ mode = "recovering"
  <2>0. /\ step = "scan" => Journal!IncompleteItems = {}
        /\ step \in Handling => op \in todo
        /\ \A o \in Journal!IncompleteItems \ todo : Decision(o) = "review"
    BY <1>2, <1>6 DEF ReviewInv
  <2>1. ASSUME NEW o \in Ops, WorksOn(o), NEW q \in Journal!IncompleteItems', q # o, q \notin todo
        PROVE  Decision(q)' = "review"
    <3>1. q \in Ops
      BY DEF Journal!IncompleteItems
    <3>2. /\ items'[q] = items[q] /\ part'[q] = part[q]
          /\ \A p \in Paths : at[p] # NoFile => at'[p] = at[p]
      BY <2>1, <3>1 DEF WorksOn
    <3>3. q \in Journal!IncompleteItems
      BY <3>1, <3>2 DEF Journal!IncompleteItems
    <3> QED  BY <1>3, <2>0, <2>1, <3>1, <3>2, <3>3, ReviewStays
  <2>2. CASE step \in Handling /\ step' \in Handling /\ UNCHANGED <<op, todo>> /\ WorksOn(op)
    <3>1. step' # "scan"
      BY <2>2 DEF Handling, InSteps
    <3> QED  BY <1>0, <2>0, <2>1, <2>2, <3>1
  <2>3. CASE /\ step \in Handling /\ step' = "choose" /\ todo' = todo \ {op}
             /\ WorksOn(op) /\ op \notin Journal!IncompleteItems'
    <3>1. step' # "scan" /\ step' \notin Handling
      BY <2>3 DEF Handling, InSteps
    <3> QED  BY <1>0, <2>1, <2>3, <3>1
  <2>4. ASSUME NEW o \in Ops, Recover(o)
        PROVE  /\ step' = "scan" => Journal!IncompleteItems' = {}
               /\ step' \in Handling => op' \in todo'
               /\ \A q \in Journal!IncompleteItems' \ todo' : Decision(q)' = "review"
    <3>1. step = "choose" /\ o \in todo /\ UNCHANGED <<at, part>>
      BY <2>4 DEF Recover, disk
    <3>2. CASE Decision(o) = "review"
      <4>1. step' = "choose" /\ todo' = todo \ {o} /\ UNCHANGED items
        BY <2>4, <3>1, <3>2 DEF Recover, journal
      <4>2. WorksOn(o) /\ Journal!IncompleteItems' = Journal!IncompleteItems
        BY <3>1, <4>1 DEF WorksOn, Journal!IncompleteItems
      <4>3. Decision(o)' = "review"
        BY <3>1, <3>2, <4>1 DEF Decision, Ambiguous, OnlyDestinationMatches, SourceStatus,
                                DestinationStatus, PartStatus, Status
      <4>4. step' # "scan" /\ step' \notin Handling
        BY <4>1 DEF Handling, InSteps
      <4> QED  BY <2>1, <4>1, <4>2, <4>3, <4>4
    <3>3. CASE Decision(o) = "untouched"
      <4>1. /\ step' = "choose" /\ todo' = todo \ {o}
            /\ Journal!FailItem(o, items[o].state, FALSE)
        BY <2>4, <3>1, <3>3 DEF Recover
      <4>2. OnlyRow(o) /\ ~items'[o].temporary /\ items'[o].state \in {"Completed", "Failed"}
        BY <1>0, <4>1, EndWrite
      <4>3. WorksOn(o) /\ o \notin Journal!IncompleteItems'
        BY <3>1, <4>2 DEF WorksOn, OnlyRow, Journal!IncompleteItems, Journal!Terminal
      <4>4. step' # "scan" /\ step' \notin Handling
        BY <4>1 DEF Handling, InSteps
      <4> QED  BY <2>1, <4>1, <4>3, <4>4
    <3>4. CASE Decision(o) \notin {"review", "untouched"}
      <4>1. op' = o /\ step' = Decision(o) /\ UNCHANGED <<items, todo>>
        BY <2>4, <3>4 DEF Recover, journal
      <4>2. WorksOn(o)
        BY <3>1, <4>1 DEF WorksOn
      <4>3. step' # "scan"
        BY <4>1 DEF Decision, Journal!AppliedStates
      <4> QED  BY <2>1, <3>1, <4>1, <4>2, <4>3
    <3> QED  BY <3>2, <3>3, <3>4
  <2> QED  BY <1>2, <1>4, <1>6, <2>2, <2>3, <2>4, RecoveryStep
<1>7. CASE Next /\ mode # "recovering"
  <2>1. OpenProject
    BY <1>1, <1>4, <1>7
       DEF Next, Work, Execute, BeginPlan, Revalidate, Prepare, MoveOut, Stage, MoveIn, Confirm,
           Apply, Verify, CommitMetadata, Barrier, SyncIndex, Synced, Complete, Settle, Close,
           NotStarted, Turn, EndTurn, Cancel, CancelInTurn, worker,
           Recover, Restore, Restored, Fault, Crash, Shutdown, Fails, MoveOn, Stay
  <2>2. /\ todo' = Journal!IncompleteItems /\ UNCHANGED items
        /\ step' = IF todo' = {} THEN "scan" ELSE "choose"
    BY <2>1 DEF OpenProject, journal
  <2>3. Journal!IncompleteItems' = todo'
    BY <2>2 DEF Journal!IncompleteItems
  <2>4. step' \notin Handling
    BY <2>2 DEF Handling, InSteps
  <2> QED  BY <2>2, <2>3, <2>4
<1> QED  BY <1>5, <1>6, <1>7

\* While nobody else changes anything, what recovery is done with stays ended or for
\* review, whatever it does with the rows after it.
THEOREM ReviewInvariance == Spec => [](RenameInv /\ ReviewInv)
<1>1. Init => RenameInv /\ ReviewInv
  BY RenameInit DEF Init, ReviewInv
<1>2. RenameInv /\ ReviewInv /\ [Next]_vars => (RenameInv /\ ReviewInv)'
  BY RenameStepInv, ReviewStep
<1> QED  BY <1>1, <1>2, PTL DEF Spec

\* When recovery ends it has decided "review" for every row it leaves.
LEMMA EndOfRecovery ==
    ASSUME RenameInv, ReviewInv, [Next]_vars, mode = "recovering", mode' = "idle", outside = 0
    PROVE  \A o \in Journal!IncompleteItems : Decision(o) = "review"
<1>1. Close
  BY DEF Next, Work, Execute, BeginPlan, Revalidate, Prepare, MoveOut, Stage, MoveIn, Confirm,
         Apply, Verify, CommitMetadata, Barrier, SyncIndex, Synced, Complete, Settle,
         NotStarted, Turn, EndTurn, Cancel, CancelInTurn,
         Recover, Restore, Restored, OpenProject, Fault, Crash, Shutdown, Fails, MoveOn, Stay,
         OutsideChange, vars, worker
<1>2. step = "scan" \/ todo = {}
  BY <1>1 DEF Close, RenameInv, ControlInv, StepOfTheMode, InSteps
<1> QED  BY <1>2 DEF ReviewInv

\* "A second recovery run after a completed automatic action is a no-op" (docs/adr/0002):
\* whatever crashes and errors came before, a finished recovery leaves only rows that the
\* next one reports and does nothing about.
THEOREM SecondRecoveryDoesNothing == Spec => SecondRecoveryIsNoOp
<1>1. RenameInv /\ ReviewInv /\ [Next]_vars =>
        [mode = "recovering" /\ mode' = "idle" /\ outside = 0 =>
            \A o \in Journal!IncompleteItems : Decision(o) = "review"]_vars
  BY EndOfRecovery
<1> QED  BY <1>1, ReviewInvariance, PTL DEF SecondRecoveryIsNoOp, Spec

-----------------------------------------------------------------------------
(* One crash and nothing else: where recovery has no way to go. *)

\* What the section assumes: nothing has happened but one crash.
Calm == crashes <= 1 /\ outside = 0 /\ faults = 0

\* A row recovery may leave for review.
Left(o) ==
    \/ items[o].state = "Prepared" /\ ~items[o].evidence /\ at[Src[o]] = o
    \/ Ambiguous(o)
    \/ at[Dst[o]] = o /\ (at[Src[o]] \in Ops \/ Dst[o] \in Dormant)
    \/ /\ part[o] = o /\ at[Src[o]] \in Ops
       /\ items[o].state = "Prepared" \/ at[Dst[o]] \in Ops

\* How far the passes have brought an operation.
NotBegun(o) == items[o].state = "Prepared" /\ part[o] = NoFile
Aside(o) == items[o].state = "Staged" /\ part[o] = o
Finished(o) == items[o].state = "Completed" \/ o \in failed

\* What the passes leave of an operation: a result, an old marker in its way, or nothing
\* when a cancellation came first.
Over(o) ==
    \/ items[o].state = "Completed"
    \/ items[o].state = "Verified" /\ Dst[o] \in Dormant
    \/ Untouched(o)

\* The executor is in its passes; after them come the turns of the other operations.
InPasses == mode = "executing" /\ step \notin {"turn", "close"}

\* The passes when nothing interferes: an operation fails only at the metadata barrier,
\* and only because an old marker lies at its destination.
Course ==
    /\ step \notin {"turn", "close"} =>
          \A o \in Ops : o \in failed => items[o].state = "Verified" /\ Dst[o] \in Dormant
    /\ step \in {"revalidate", "prepare"} => \A o \in Ops : NotBegun(o)
    /\ step \in {"moveOut", "stage"} =>
          \A o \in Ops : (o > op => NotBegun(o)) /\ (o < op => Aside(o))
    /\ step = "moveOut" => NotBegun(op)
    /\ step = "stage" => part[op] = op
    /\ step \in InSteps =>
          /\ op \notin failed
          /\ \A o \in Ops : (o > op => Aside(o)) /\ (o < op => Finished(o))
    /\ step = "moveIn" => Aside(op)
    /\ step = "settle" => op \in failed /\ \A o \in Ops : Finished(o)
    /\ step \in {"turn", "close"} => \A o \in Ops : Over(o)

\* The operations whose marker move is still to come.
Pending(o) ==
    \/ items[o].state \in {"Absent", "Prepared", "Staged", "FsApplied"}
    \/ items[o].state = "Verified" /\ ~(step = "barrier" /\ op = o)

\* A marker at a destination is an old one or leaves with a move that is still to come,
\* and the hidden place it would leave for is free.
MarksInTurn ==
    \A o \in Ops : Pending(o) =>
        /\ markAt[Dst[o]] # NoFile =>
              Dst[o] \in Dormant \/ \E b \in Ops : Src[b] = Dst[o] /\ Pending(b)
        /\ \A b \in Ops : Src[b] = Dst[o] => markPart[b] = NoFile

\* The operations the session index already lists at their destination.
Listed(o) ==
    \/ items[o].state \in {"IndexSynced", "Completed"}
    \/ step = "synced" /\ op = o

\* The session index follows the third pass; "part" is a row set aside by an index move.
IndexInTurn ==
    \A o \in Ops : ~Skipped(items[o]) =>
        IF Listed(o) THEN index[o] = Dst[o] ELSE index[o] \in {Src[o], "part"}

\* No cancellation has ended a row yet.
NoneSkipped == \A o \in Ops : ~Skipped(items[o])

\* The plan has not been prepared.
Fresh == \A o \in Ops : items[o].state = "Absent"

\* Why recovery finds every row of a plan that was cut short in one of few situations.
CalmInv ==
    /\ crashes \in Nat /\ faults \in Nat
    /\ Calm =>
          /\ mode \in {"closed", "recovering"} => crashes = 1
          /\ \A p \in Paths : at[p] # Foreign
          /\ \A o \in Ops : Staged(o) /\ at[Src[o]] = o => step = "restored" /\ op = o
          /\ Fresh \/ InPasses => MarksInTurn
          /\ InPasses => NoneSkipped
          /\ Fresh /\ mode = "idle" => index = Src
          /\ mode = "executing" => Course /\ IndexInTurn
          /\ mode = "idle" => failed = {} /\ \A o \in Journal!IncompleteItems : Left(o)

\* Where the worker goes from each pass.
LEMMA NextPlace ==
    ASSUME op \in Ops, NEW STATE lost, MoveOn(lost), mode = "executing"
    PROVE  /\ mode' = "executing" /\ failed' = lost
           /\ step = "prepare" /\ lost \cap Ops = {} =>
                 step' = "prepare" \/ (step' = "moveOut" /\ op' = 1)
           /\ step = "stage" /\ lost \cap Ops = {} =>
                 \/ step' = "moveOut" /\ op' = op + 1
                 \/ step' = "moveIn" /\ op' = 1 /\ \A q \in Ops : q <= op
           /\ step \in InSteps =>
                 \/ /\ step' = "moveIn" /\ op' \in Ops \ lost /\ op < op'
                    /\ \A q \in Ops : op < q /\ q < op' => q \in lost
                 \/ /\ step' \in {"settle", "turn"} /\ (step' = "settle" => op' \in lost)
                    /\ \A q \in Ops : op < q => q \in lost
           /\ step = "settle" => step' = "turn" \/ (step' = "settle" /\ op' \in lost)
<1>0. mode' = "executing" /\ failed' = lost
  BY DEF MoveOn
<1>1. PassOf(step) \in 1..4 /\ op \in Nat /\ N \in Nat /\ 1 \in Ops
  BY PlanAssumption DEF PassOf, Ops
<1>2. /\ step = "prepare" => PassOf(step) = 1
      /\ step = "stage" => PassOf(step) = 2
      /\ step \in InSteps => PassOf(step) = 3
      /\ step = "settle" => PassOf(step) = 4
  BY DEF PassOf, InSteps
<1>3. \A q \in Ops : /\ Due(1, q, lost)
                     /\ Due(2, q, lost) <=> q \notin lost
                     /\ Due(3, q, lost) <=> q \notin lost
                     /\ Due(4, q, lost) <=> q \in lost
  BY DEF Due
<1>4. CASE /\ step' = "turn"
           /\ \A r \in 1..4, q \in Ops :
                 r > PassOf(step) \/ (r = PassOf(step) /\ q > op) => ~Due(r, q, lost)
  <2>1. lost \cap Ops = {} => PassOf(step) \notin {1, 2}
    BY <1>1, <1>3, <1>4
  <2>2. PassOf(step) = 3 => \A q \in Ops : op < q => q \in lost
    BY <1>1, <1>3, <1>4 DEF Ops
  <2> QED  BY <1>0, <1>2, <1>4, <2>1, <2>2
<1>5. ASSUME NEW p \in 1..4, NEW o \in Ops, step' = Passes[p], op' = o,
             p > PassOf(step) \/ (p = PassOf(step) /\ o > op),
             Due(p, o, lost),
             \A r \in 1..4, q \in Ops :
                /\ r > PassOf(step) \/ (r = PassOf(step) /\ q > op)
                /\ Due(r, q, lost)
                => p < r \/ (p = r /\ o <= q)
      PROVE  /\ step = "prepare" /\ lost \cap Ops = {} =>
                   step' = "prepare" \/ (step' = "moveOut" /\ op' = 1)
             /\ step = "stage" /\ lost \cap Ops = {} =>
                   \/ step' = "moveOut" /\ op' = op + 1
                   \/ step' = "moveIn" /\ op' = 1 /\ \A q \in Ops : q <= op
             /\ step \in InSteps =>
                   \/ /\ step' = "moveIn" /\ op' \in Ops \ lost /\ op < op'
                      /\ \A q \in Ops : op < q /\ q < op' => q \in lost
                   \/ /\ step' \in {"settle", "turn"} /\ (step' = "settle" => op' \in lost)
                      /\ \A q \in Ops : op < q => q \in lost
             /\ step = "settle" => step' = "turn" \/ (step' = "settle" /\ op' \in lost)
  <2>0. /\ step' = IF p = 1 THEN "prepare" ELSE IF p = 2 THEN "moveOut"
                   ELSE IF p = 3 THEN "moveIn" ELSE "settle"
        /\ o \in Nat /\ \A q \in Ops : q \in Nat
        /\ 1 \in Ops /\ 1 <= o
    BY <1>1, <1>5 DEF Passes, Ops
  <2>1. CASE PassOf(step) = 1 /\ lost \cap Ops = {}
    <3>1. p <= 2 /\ (p = 2 => o = 1)
      BY <1>1, <1>3, <1>5, <2>0, <2>1
    <3> QED  BY <1>2, <1>5, <2>0, <2>1, <3>1
  <2>2. CASE PassOf(step) = 2 /\ lost \cap Ops = {}
    <3>1. p \in {2, 3} /\ (p = 3 => o = 1)
      BY <1>1, <1>3, <1>5, <2>0, <2>2
    <3>2. p = 3 => \A q \in Ops : q <= op
      BY <1>1, <1>3, <1>5, <2>0, <2>2
    <3>3. p = 2 => o = op + 1
      <4>1. p = 2 => op + 1 \in Ops
        BY <1>1, <1>5, <2>0, <2>2 DEF Ops
      <4> QED  BY <1>1, <1>3, <1>5, <2>0, <2>2, <4>1
    <3> QED  BY <1>2, <1>5, <2>0, <2>2, <3>1, <3>2, <3>3
  <2>3. CASE PassOf(step) = 3
    <3>1. p = 3 => o \notin lost /\ op < o /\ \A q \in Ops : op < q /\ q < o => q \in lost
      BY <1>1, <1>3, <1>5, <2>0, <2>3
    <3>2. p # 3 => p = 4 /\ o \in lost /\ \A q \in Ops : op < q => q \in lost
      BY <1>1, <1>3, <1>5, <2>0, <2>3
    <3> QED  BY <1>2, <1>5, <2>0, <2>3, <3>1, <3>2
  <2>4. CASE PassOf(step) = 4
    <3>1. p = 4 /\ o \in lost
      BY <1>1, <1>3, <1>5, <2>4
    <3> QED  BY <1>2, <1>5, <2>0, <2>4, <3>1
  <2> QED  BY <1>1, <1>2, <2>1, <2>2, <2>3, <2>4
<1> QED  BY <1>0, <1>4, <1>5, NextStop

\* A file of the plan that is visible is at its source or at its destination.
LEMMA AtItsPaths ==
    ASSUME FileInv, NEW o \in Ops \ destroyed, NEW p \in Paths, at[p] = o
    PROVE  p \in {Src[o], Dst[o]}
<1>1. p \in PathsOf(o)
  BY DEF PathsOf
<1>2. PathsOf(o) \in {{}, {Src[o]}, {Dst[o]}}
  BY DEF FileInv, NoFileLost
<1> QED  BY <1>1, <1>2

-----------------------------------------------------------------------------
(* The passes of an executor nobody interferes with. *)

InCourse ==
    /\ RenameInv /\ mode = "executing" /\ destroyed = {}
    /\ \A p \in Paths : at[p] # Foreign
    /\ step \notin {"turn", "close"}
    /\ Course /\ MarksInTurn /\ IndexInTurn /\ NoneSkipped

\* A file that was not moved yet is at its source.
LEMMA NotBegunAtSource ==
    ASSUME RenameInv, destroyed = {}, NEW o \in Ops, NotBegun(o)
    PROVE  at[Src[o]] = o
<1>1. FileInv /\ StateFits(o, items[o].state)
  BY DEF RenameInv, RowInv, NotBegun, Skipped
<1>2. at[Dst[o]] # o
  BY <1>1 DEF NotBegun, StateFits
<1> QED  BY <1>1, <1>2, OnePlace, PlanFiles DEF NotBegun

\* In the third pass the destination of the next file is free: nobody is where he was
\* before, and two files never go to one place.
LEMMA DestinationIsFree ==
    ASSUME InCourse, step = "moveIn"
    PROVE  at[Dst[op]] = NoFile
<1>0. /\ op \in Ops /\ FileInv /\ RowInv /\ Aside(op)
      /\ \A o \in Ops : (o > op => Aside(o)) /\ (o < op => Finished(o))
      /\ \A o \in Ops : o \in failed => items[o].state = "Verified"
  BY AtTheRow DEF InCourse, RenameInv, Course, InSteps
<1>1. Dst[op] \in Paths /\ at[Dst[op]] \in Files \cup {NoFile} /\ at[Dst[op]] # Foreign
  BY <1>0, PlanAssumption DEF FileInv, FileTypes, InCourse
<1>2. ASSUME NEW q \in Ops, at[Dst[op]] = q PROVE FALSE
  <2>1. q \notin destroyed /\ Dst[op] \in {Src[q], Dst[q]}
    BY <1>0, <1>1, <1>2, AtItsPaths DEF InCourse
  <2>2. part[q] = NoFile
    BY <1>0, <1>1, <1>2, <2>1, OnePlace
  <2>3. q # op /\ ~(q > op)
    BY <1>0, <2>2, PlanFiles DEF Aside
  <2>4. at[Src[q]] = q
    BY <1>0, <1>2, <2>1, <2>3, PlanAssumption
  <2>5. items[q].state \in {"Completed", "Verified"}
    BY <1>0, <2>3 DEF Finished, Ops
  <2>6. at[Dst[q]] = q
    BY <1>0, <2>1, <2>5 DEF RowInv, StateFits, Journal!AppliedStates, InCourse, NoneSkipped
  <2> QED  BY <1>0, <2>1, <2>4, <2>6, OnePlace
<1> QED  BY <1>1, <1>2, PlanAssumption DEF Files, Foreign, Ops

\* The first two passes: fingerprints, then every file aside.
LEMMA OutwardCourse ==
    ASSUME InCourse, Revalidate \/ Prepare \/ MoveOut \/ Stage
    PROVE  Course' /\ mode' = "executing"
<1>0. /\ op \in Ops /\ FileInv /\ RowInv /\ ControlInv /\ Course /\ mode = "executing"
      /\ items[op] \in Journal!ItemRow
      /\ op \in Nat /\ \A o \in Ops : o \in Nat /\ 1 <= o
  BY AtTheRow DEF InCourse, RenameInv, Ops
<1>1. CASE Revalidate
  <2>1. /\ step = "revalidate" /\ \A o \in Ops : NotBegun(o)
    BY <1>0, <1>1 DEF Revalidate, Course
  <2>2. \A o \in Ops : at[Src[o]] = o
    BY <2>1, NotBegunAtSource DEF InCourse
  <2>3. /\ step' = "prepare" /\ failed' = {} /\ UNCHANGED <<items, part, mode>>
    BY <1>1, <2>2 DEF Revalidate, journal, disk
  <2> QED  BY <1>0, <2>1, <2>3 DEF Course, NotBegun, InSteps
<1>2. CASE Prepare
  <2>1. /\ step = "prepare" /\ \A o \in Ops : NotBegun(o)
    BY <1>0, <1>2 DEF Prepare, Course
  <2>2. at[Src[op]] = op
    BY <1>0, <2>1, NotBegunAtSource DEF InCourse
  <2>3. Journal!RecordPreparedEvidence(op) /\ MoveOn(failed) /\ UNCHANGED part
    BY <1>2, <2>2 DEF Prepare, disk
  <2>4. /\ OnlyRow(op)
        /\ items'[op] = [items[op] EXCEPT !.temporary = TRUE, !.evidence = TRUE]
    BY <1>0, <2>3, EvidenceWrite
  <2>5. \A o \in Ops : NotBegun(o)'
    <3>1. items'[op].state = items[op].state
      BY <1>0, <2>4 DEF Journal!ItemRow
    <3>2. ASSUME NEW o \in Ops PROVE items'[o].state = "Prepared" /\ part'[o] = NoFile
      BY <2>1, <2>3, <2>4, <3>1, <3>2 DEF NotBegun, OnlyRow
    <3> QED  BY <3>2 DEF NotBegun
  <2>6. failed \cap Ops = {}
    BY <1>0, <2>1 DEF Course, NotBegun
  <2>7. /\ mode' = "executing" /\ failed' = failed
        /\ step' = "prepare" \/ (step' = "moveOut" /\ op' = 1)
    BY <1>0, <2>1, <2>3, <2>6, NextPlace
  <2>8. op' = 1 => op' \in Ops /\ \A o \in Ops : ~(o < op')
    BY <1>0, PlanAssumption DEF Ops
  <2> QED  BY <2>5, <2>6, <2>7, <2>8 DEF Course, InSteps
<1>3. CASE MoveOut
  <2>1. /\ step = "moveOut" /\ NotBegun(op)
        /\ \A o \in Ops : (o > op => NotBegun(o)) /\ (o < op => Aside(o))
    BY <1>0, <1>3 DEF MoveOut, Course
  <2>2. at[Src[op]] = op
    BY <1>0, <2>1, NotBegunAtSource DEF InCourse
  <2>3. Stay("stage") /\ part' = [part EXCEPT ![op] = op] /\ UNCHANGED items
    BY <1>3, <2>1, <2>2 DEF MoveOut, NotBegun, journal
  <2>4. /\ step' = "stage" /\ UNCHANGED <<mode, op, failed>> /\ part'[op] = op
        /\ \A o \in Ops \ {op} : part'[o] = part[o]
    BY <1>0, <2>3 DEF Stay, FileInv, FileTypes
  <2>5. \A o \in Ops : (o > op' => NotBegun(o)') /\ (o < op' => Aside(o)')
    BY <1>0, <2>1, <2>3, <2>4 DEF NotBegun, Aside
  <2> QED  BY <1>0, <2>1, <2>3, <2>4, <2>5 DEF Course, InSteps
<1>4. CASE Stage
  <2>1. /\ step = "stage" /\ part[op] = op
        /\ \A o \in Ops : (o > op => NotBegun(o)) /\ (o < op => Aside(o))
    BY <1>0, <1>4 DEF Stage, Course
  <2>2. MoveOn(failed) /\ UNCHANGED part
    BY <1>4 DEF Stage, disk
  <2>3. OnlyRow(op) /\ items'[op] = [items[op] EXCEPT !.state = "Staged"]
    BY <1>0, <1>4, AdvanceWrite DEF Stage
  <2>4. items'[op].state = "Staged" /\ \A o \in Ops \ {op} : items'[o] = items[o]
    BY <1>0, <2>3 DEF Journal!ItemRow, OnlyRow
  <2>5. \A o \in Ops : (o > op => NotBegun(o)') /\ (o <= op => Aside(o)')
    <3>1. ASSUME NEW o \in Ops, o > op PROVE NotBegun(o)'
      BY <1>0, <2>1, <2>2, <2>4, <3>1 DEF NotBegun
    <3>2. ASSUME NEW o \in Ops, o < op PROVE Aside(o)'
      BY <1>0, <2>1, <2>2, <2>4, <3>2 DEF Aside
    <3>3. ASSUME NEW o \in Ops, o = op PROVE Aside(o)'
      BY <2>1, <2>2, <2>4, <3>3 DEF Aside
    <3> QED  BY <1>0, <3>1, <3>2, <3>3
  <2>6. failed \cap Ops = {}
    <3>1. items[op].state = "Prepared"
      BY <1>0, <2>1 DEF ControlInv, StepKnowsTheRow, Ready
    <3>2. ASSUME NEW o \in Ops PROVE items[o].state # "Verified"
      BY <1>0, <2>1, <3>1, <3>2 DEF NotBegun, Aside
    <3> QED  BY <1>0, <2>1, <3>2 DEF Course
  <2>7. /\ mode' = "executing" /\ failed' = failed /\ op' \in Ops
        /\ \/ step' = "moveOut" /\ op' = op + 1
           \/ step' = "moveIn" /\ op' = 1 /\ \A q \in Ops : q <= op
    <3>1. op' \in Ops
      BY <1>0, <2>2, MoveOnKeepsOp
    <3> QED  BY <1>0, <2>1, <2>2, <2>6, <3>1, NextPlace
  <2>8. CASE step' = "moveOut" /\ op' = op + 1
    <3>1. \A o \in Ops : (o > op' => NotBegun(o)') /\ (o < op' => Aside(o)')
      BY <1>0, <2>5, <2>8
    <3>2. NotBegun(op)'
      <4>1. \A o \in Ops : o = op + 1 => items'[o].state = "Prepared" /\ part'[o] = NoFile
        BY <1>0, <2>5 DEF NotBegun
      <4> QED  BY <2>7, <2>8, <4>1 DEF NotBegun
    <3> QED  BY <2>6, <2>7, <2>8, <3>1, <3>2 DEF Course, InSteps
  <2>9. CASE step' = "moveIn" /\ op' = 1 /\ \A q \in Ops : q <= op
    <3>1. \A o \in Ops : Aside(o)' /\ ~(o < op')
      BY <1>0, <2>5, <2>9
    <3>2. Aside(op)'
      BY <2>7, <3>1 DEF Aside
    <3> QED  BY <2>6, <2>7, <2>9, <3>1, <3>2 DEF Course, InSteps
  <2> QED  BY <2>7, <2>8, <2>9
<1> QED  BY <1>1, <1>2, <1>3, <1>4

\* A step within the third pass.
LEMMA StayInCourse ==
    ASSUME InCourse, step \in InSteps, NEW next \in InSteps \ {"moveIn"}, Stay(next),
           \A o \in Ops \ {op} : items'[o] = items[o] /\ part'[o] = part[o]
    PROVE  Course'
<1>0. op \in Ops /\ Course /\ op \in Nat /\ \A o \in Ops : o \in Nat
  BY AtTheRow DEF InCourse, Ops
<1>1. step' = next /\ UNCHANGED <<op, failed>>
  BY DEF Stay
<1>2. \A o \in Ops : o \in failed => o # op
  BY <1>0 DEF Course
<1>3. ASSUME NEW o \in Ops, o > op PROVE Aside(o)'
  <2>1. Aside(o) /\ o # op
    BY <1>0, <1>3 DEF Course
  <2> QED  BY <2>1 DEF Aside
<1>4. ASSUME NEW o \in Ops, o < op PROVE Finished(o)'
  <2>1. Finished(o) /\ o # op
    BY <1>0, <1>4 DEF Course
  <2> QED  BY <1>1, <2>1 DEF Finished
<1> QED  BY <1>0, <1>1, <1>2, <1>3, <1>4 DEF Course, InSteps

\* The end of one operation in the third pass, also of one that failed at the barrier.
LEMMA NextInCourse ==
    ASSUME InCourse, step \in InSteps, NEW STATE lost, MoveOn(lost), UNCHANGED part,
           \A o \in Ops \ {op} : items'[o] = items[o] /\ (o \in lost => o \in failed),
           failed \subseteq lost,
           \/ op \notin lost /\ items'[op].state = "Completed"
           \/ op \in lost /\ items'[op].state = "Verified" /\ Dst[op] \in Dormant
    PROVE  Course'
<1>0. op \in Ops /\ Course /\ mode = "executing" /\ op \in Nat /\ \A o \in Ops : o \in Nat
  BY AtTheRow DEF InCourse, Ops
<1>1. /\ failed' = lost
      /\ \/ /\ step' = "moveIn" /\ op' \in Ops \ lost /\ op < op'
            /\ \A q \in Ops : op < q /\ q < op' => q \in lost
         \/ /\ step' \in {"settle", "turn"} /\ (step' = "settle" => op' \in lost)
            /\ \A q \in Ops : op < q => q \in lost
  BY <1>0, NextPlace
<1>2. \A o \in Ops : (o > op => Aside(o) /\ Aside(o)') /\ (o <= op => Finished(o)')
  <2>1. ASSUME NEW o \in Ops, o > op PROVE Aside(o) /\ Aside(o)'
    <3>1. Aside(o) /\ o # op
      BY <1>0, <2>1 DEF Course
    <3> QED  BY <3>1 DEF Aside
  <2>2. ASSUME NEW o \in Ops, o < op PROVE Finished(o)'
    <3>1. Finished(o)
      BY <1>0, <2>2 DEF Course
    <3>2. o # op
      BY <1>0, <2>2
    <3>3. items'[o] = items[o] /\ (o \in failed => o \in failed')
      BY <1>1, <3>2
    <3> QED  BY <3>1, <3>3 DEF Finished
  <2>3. ASSUME NEW o \in Ops, o = op PROVE Finished(o)'
    BY <1>1, <2>3 DEF Finished
  <2>4. \A o \in Ops : o <= op => o < op \/ o = op
    <3>1. \A m, n \in Nat : m <= n => m < n \/ m = n
      OBVIOUS
    <3> QED  BY <1>0, <3>1
  <2> QED  BY <2>1, <2>2, <2>3, <2>4
<1>3. \A o \in Ops : o \in lost => items'[o].state = "Verified" /\ Dst[o] \in Dormant
  BY <1>0 DEF Course, InCourse
<1>4. \A o \in Ops : o > op => o \notin lost
  BY <1>0, <1>2, <1>3 DEF Course, Aside, InCourse
<1>5. CASE /\ step' = "moveIn" /\ op' \in Ops \ lost /\ op < op'
           /\ \A q \in Ops : op < q /\ q < op' => q \in lost
  <2>1. \A o \in Ops : (o > op' => Aside(o)') /\ (o < op' => Finished(o)')
    <3>1. ASSUME NEW o \in Ops, o > op' PROVE Aside(o)'
      <4>1. \A k, m, n \in Nat : k < m /\ n > m => n > k
        OBVIOUS
      <4>2. o \in Nat /\ op' \in Nat
        BY <1>0, <1>5, <3>1
      <4>3. o > op
        BY <1>0, <1>5, <3>1, <4>1, <4>2
      <4> QED  BY <1>2, <4>3
    <3>2. ASSUME NEW o \in Ops, o < op' PROVE Finished(o)'
      <4>1. ~(op < o)
        BY <1>0, <1>4, <1>5, <3>2
      <4> QED  BY <1>0, <1>2, <4>1 DEF Aside, Finished
    <3> QED  BY <3>1, <3>2
  <2>2. Aside(op)'
    <3>1. \A o \in Ops : o > op => items'[o].state = "Staged" /\ part'[o] = o
      BY <1>2 DEF Aside
    <3> QED  BY <1>0, <1>5, <3>1 DEF Aside
  <2> QED  BY <1>1, <1>3, <1>5, <2>1, <2>2 DEF Course, InSteps
<1>6. CASE /\ step' \in {"settle", "turn"} /\ (step' = "settle" => op' \in lost)
           /\ \A q \in Ops : op < q => q \in lost
  <2>1. \A o \in Ops : Finished(o)'
    <3>1. ASSUME NEW o \in Ops PROVE Finished(o)'
      <4>1. ~(op < o)
        BY <1>0, <1>4, <1>6
      <4> QED  BY <1>0, <1>2, <4>1 DEF Aside, Finished
    <3> QED  BY <3>1
  <2>2. \A o \in Ops : Over(o)'
    BY <1>1, <1>3, <2>1 DEF Finished, Over
  <2> QED  BY <1>1, <1>3, <1>6, <2>1, <2>2 DEF Course, InSteps
<1> QED  BY <1>1, <1>5, <1>6

\* In the third pass an operation that is not complete still has its hidden name.
LEMMA OthersAreOpen ==
    ASSUME InCourse, step \in InSteps, NEW b \in Ops \ {op}, items[b].state # "Completed"
    PROVE  /\ items[b].state \in {"Staged", "Verified"}
           /\ b \in Journal!IncompleteItems /\ items[b].temporary
<1>1. SoundRow(items[b]) /\ Course /\ op \in Nat /\ b \in Nat
  BY AtTheRow DEF InCourse, RenameInv, RowInv, Ops
<1>2. items[b].state \in {"Staged", "Verified"}
  BY <1>1 DEF Course, Aside, Finished, InCourse
<1> QED  BY <1>1, <1>2 DEF SoundRow, Journal!IncompleteItems, Journal!Terminal, Journal!AppliedStates

\* A marker move is refused only where an old marker is in the way.
LEMMA OnlyOldMarkersCollide ==
    ASSUME InCourse, step = "metadata", MarkerCollision(op)
    PROVE  Dst[op] \in Dormant
<1>0. /\ op \in Ops /\ items[op].state = "Verified" /\ step \in InSteps
      /\ Src[op] # Dst[op]
  BY AtTheRow, PlanAssumption DEF InCourse, RenameInv, ControlInv, StepKnowsTheRow, InSteps
<1>1. Pending(op)
  BY <1>0 DEF Pending
<1>2. /\ markAt[Dst[op]] # NoFile =>
            Dst[op] \in Dormant \/ \E b \in Ops : Src[b] = Dst[op] /\ Pending(b)
      /\ \A b \in Ops : Src[b] = Dst[op] => markPart[b] = NoFile
  BY <1>0, <1>1 DEF InCourse, MarksInTurn
<1>3. \A b \in Blockers(op) : markPart[b] = NoFile
  BY <1>2 DEF Blockers
<1>4. markAt[Dst[op]] # NoFile /\ Dst[op] \notin Vacated(op)
  BY <1>3 DEF MarkerCollision
<1>5. ASSUME NEW b \in Ops, Src[b] = Dst[op], Pending(b) PROVE FALSE
  <2>1. b # op /\ items[b].state # "Completed"
    BY <1>0, <1>5 DEF Pending
  <2>2. b \in Journal!IncompleteItems /\ items[b].temporary
    BY <1>0, <2>1, OthersAreOpen
  <2>3. b \in Blockers(op)
    BY <1>4, <1>5, <2>1, <2>2 DEF Blockers
  <2> QED  BY <1>4, <1>5, <2>3 DEF Vacated
<1> QED  BY <1>2, <1>4, <1>5

\* The session index takes every move.
LEMMA IndexTakesIt ==
    ASSUME InCourse, step = "index" PROVE index[op] # "gone" /\ at[Dst[op]] # NoFile
<1>1. /\ op \in Ops /\ items[op].state = "MetaCommitted" /\ at[Dst[op]] = op
  BY AtTheRow DEF InCourse, RenameInv, ControlInv, StepKnowsTheRow, StateFits, Journal!AppliedStates
<1>2. index[op] \in {Src[op], "part"}
  BY <1>1 DEF InCourse, IndexInTurn, Listed, NoneSkipped
<1> QED  BY <1>1, <1>2, PlanAssumption, PlanFiles

\* The third pass and what follows it.
LEMMA InwardCourse ==
    ASSUME InCourse,
           \/ MoveIn \/ Confirm \/ Apply \/ Verify \/ CommitMetadata \/ Barrier \/ SyncIndex
           \/ Synced \/ Complete \/ Settle
    PROVE  Course' /\ mode' = "executing"
<1>0. /\ op \in Ops /\ FileInv /\ RowInv /\ ControlInv /\ Course /\ mode = "executing"
      /\ items[op] \in Journal!ItemRow
  BY AtTheRow DEF InCourse, RenameInv
<1>1. ASSUME NEW next \in InSteps \ {"moveIn"}, Stay(next), step \in InSteps,
             \A o \in Ops \ {op} : items'[o] = items[o] /\ part'[o] = part[o]
      PROVE  Course' /\ mode' = "executing"
  BY <1>0, <1>1, StayInCourse DEF Stay
<1>2. CASE MoveIn
  <2>1. Stay("confirm") /\ part' = [part EXCEPT ![op] = NoFile] /\ UNCHANGED items
    <3>1. part[op] # NoFile
      BY <1>0, <1>2, PlanFiles DEF MoveIn, Course, Aside
    <3> QED  BY <1>2, <3>1, DestinationIsFree DEF MoveIn, journal
  <2>2. \A o \in Ops \ {op} : items'[o] = items[o] /\ part'[o] = part[o]
    BY <1>0, <2>1 DEF FileInv, FileTypes
  <2> QED  BY <1>1, <1>2, <2>1, <2>2 DEF MoveIn, InSteps
<1>3. CASE Confirm
  <2>1. at[Dst[op]] = op
    BY <1>0, <1>3 DEF Confirm, ControlInv, StepKnowsTheRow, InCourse
  <2>2. Stay("apply") /\ UNCHANGED <<items, part>>
    BY <1>0, <1>3, <2>1 DEF Confirm, journal, disk
  <2> QED  BY <1>1, <1>3, <2>2 DEF Confirm, InSteps
<1>4. CASE Apply \/ Verify \/ Barrier \/ Synced
  <2>1. /\ \E next \in InSteps \ {"moveIn"} : Stay(next)
        /\ UNCHANGED part /\ step \in InSteps
    BY <1>4 DEF Apply, Verify, Barrier, Synced, disk, InSteps
  <2>2. OnlyRow(op)
    BY <1>0, <1>4, AppliedWrite, AdvanceWrite DEF Apply, Verify, Barrier, Synced
  <2> QED  BY <1>1, <2>1, <2>2 DEF OnlyRow
<1>5. CASE CommitMetadata
  <2>0. step = "metadata" /\ step \in InSteps /\ UNCHANGED <<items, part>>
    BY <1>5 DEF CommitMetadata, journal, disk, InSteps
  <2>1. CASE ~MarkerCollision(op)
    <3>1. Stay("barrier")
      BY <1>5, <2>1 DEF CommitMetadata
    <3> QED  BY <1>1, <2>0, <3>1 DEF InSteps
  <2>2. CASE MarkerCollision(op)
    <3>1. MoveOn(failed \cup {op})
      BY <1>0, <1>5, <2>2 DEF CommitMetadata, Fails
    <3>2. Dst[op] \in Dormant /\ items'[op].state = "Verified"
      BY <1>0, <2>0, <2>2, OnlyOldMarkersCollide DEF ControlInv, StepKnowsTheRow
    <3>3. mode' = "executing"
      BY <1>0, <3>1 DEF MoveOn
    <3> QED  BY <2>0, <3>1, <3>2, <3>3, NextInCourse
  <2> QED  BY <2>1, <2>2
<1>6. CASE SyncIndex
  <2>1. Stay("synced") /\ UNCHANGED <<items, part>> /\ step \in InSteps
    BY <1>0, <1>6, IndexTakesIt DEF SyncIndex, journal, disk, InSteps
  <2> QED  BY <1>1, <2>1 DEF InSteps
<1>7. CASE Complete
  <2>1. /\ Journal!CompleteItem(op, "IndexSynced") /\ MoveOn(failed) /\ UNCHANGED part
        /\ step \in InSteps
    BY <1>7 DEF Complete, disk, InSteps
  <2>2. OnlyRow(op) /\ items'[op].state = "Completed"
    BY <1>0, <2>1, EndWrite
  <2>3. op \notin failed
    BY <1>0, <2>1 DEF Course
  <2>4. mode' = "executing"
    BY <1>0, <2>1 DEF MoveOn
  <2> QED  BY <2>1, <2>2, <2>3, <2>4, NextInCourse DEF OnlyRow
<1>8. CASE Settle
  <2>1. items[op].state = "Verified" /\ step = "settle" /\ \A o \in Ops : Finished(o)
    BY <1>0, <1>8 DEF Settle, Course
  <2>2. UNCHANGED items /\ MoveOn(failed)
    BY <1>8, <2>1 DEF Settle, SafeToFail, journal
  <2>3. /\ mode' = "executing" /\ failed' = failed
        /\ step' = "turn" \/ (step' = "settle" /\ op' \in failed)
    BY <1>0, <2>1, <2>2, NextPlace
  <2>4. \A o \in Ops : o \in failed => items[o].state = "Verified" /\ Dst[o] \in Dormant
    BY <1>0, <2>1 DEF Course
  <2>5. \A o \in Ops : Finished(o)' /\ Over(o)'
    BY <2>1, <2>2, <2>3, <2>4 DEF Finished, Over
  <2> QED  BY <1>0, <2>2, <2>3, <2>4, <2>5 DEF Course, InSteps
<1> QED  BY <1>2, <1>3, <1>4, <1>5, <1>6, <1>7, <1>8

\* Where no marker moves and the same moves are still to come, the markers stay in turn.
LEMMA MarksStay ==
    ASSUME MarksInTurn, UNCHANGED <<markAt, markPart>>, \A o \in Ops : Pending(o)' <=> Pending(o)
    PROVE  MarksInTurn'
<1>1. ASSUME NEW o \in Ops, Pending(o)'
      PROVE  /\ markAt'[Dst[o]] # NoFile =>
                   Dst[o] \in Dormant \/ \E b \in Ops : Src[b] = Dst[o] /\ Pending(b)'
             /\ \A b \in Ops : Src[b] = Dst[o] => markPart'[b] = NoFile
  <2>1. /\ markAt[Dst[o]] # NoFile =>
              Dst[o] \in Dormant \/ \E b \in Ops : Src[b] = Dst[o] /\ Pending(b)
        /\ \A b \in Ops : Src[b] = Dst[o] => markPart[b] = NoFile
    BY <1>1 DEF MarksInTurn
  <2>2. ASSUME NEW b \in Ops, Src[b] = Dst[o], Pending(b)
        PROVE  \E c \in Ops : Src[c] = Dst[o] /\ Pending(c)'
    BY <2>2
  <2> QED  BY <2>1, <2>2
<1> QED  BY <1>1 DEF MarksInTurn

\* Steps that neither move a marker nor touch the index leave both in turn.
LEMMA InTurnStays ==
    ASSUME InCourse, OnlyRow(op) \/ UNCHANGED items, step' \notin {"barrier", "synced"},
           UNCHANGED <<markAt, markPart, index>>,
           NEW here \in Ops, here = op,
           (Pending(here)' <=> Pending(here)) /\ (Listed(here)' <=> Listed(here))
    PROVE  MarksInTurn' /\ IndexInTurn'
<1>1. \A o \in Ops \ {op} : items'[o] = items[o]
  BY DEF OnlyRow
<1>2. ASSUME NEW o \in Ops
      PROVE  (Pending(o)' <=> Pending(o)) /\ (Listed(o)' <=> Listed(o))
  <2>1. CASE o = op
    BY <2>1
  <2>2. CASE o # op
    BY <1>1, <2>2 DEF Pending, Listed
  <2> QED  BY <2>1, <2>2
<1>3. MarksInTurn'
  BY <1>2, MarksStay DEF InCourse
<1>4. IndexInTurn'
  <2>1. IndexInTurn /\ NoneSkipped
    BY DEF InCourse
  <2>2. ASSUME NEW o \in Ops
        PROVE  IF Listed(o)' THEN index'[o] = Dst[o] ELSE index'[o] \in {Src[o], "part"}
    BY <1>2, <2>1 DEF IndexInTurn, NoneSkipped
  <2> QED  BY <2>2 DEF IndexInTurn
<1> QED  BY <1>3, <1>4

\* Moving the marker of one operation leaves the others' in turn.
LEMMA MarkerMoveInTurn ==
    ASSUME InCourse, CommitMetadata, ~MarkerCollision(op)
    PROVE  MarksInTurn' /\ IndexInTurn'
<1>0. /\ op \in Ops /\ items[op].state = "Verified" /\ step = "metadata" /\ MarksInTurn
      /\ \A o \in Ops : Src[o] \in Paths /\ Dst[o] \in Paths /\ Src[o] # Dst[o]
      /\ \A o, q \in Ops : o # q => Src[o] # Src[q] /\ Dst[o] # Dst[q]
  BY AtTheRow, PlanAssumption DEF CommitMetadata, InCourse, RenameInv, ControlInv, StepKnowsTheRow
<1>1. /\ markAt' = [p \in Paths |->
              IF p = Dst[op] /\ Carried(op) # NoFile THEN Carried(op)
              ELSE IF p \in Vacated(op) THEN NoFile ELSE markAt[p]]
      /\ markPart' = [o \in Ops |->
              IF o \in Blockers(op) THEN markAt[Src[o]]
              ELSE IF o = op /\ MarkerInPart(op) THEN NoFile ELSE markPart[o]]
      /\ step' = "barrier" /\ UNCHANGED <<items, op, index>>
  BY DEF CommitMetadata, Stay, journal
<1>2. \A o \in Ops : Pending(o)' <=> Pending(o) /\ o # op
  BY <1>0, <1>1 DEF Pending
<1>3. ASSUME NEW o \in Ops, Pending(o)'
      PROVE  /\ markAt'[Dst[o]] # NoFile =>
                   Dst[o] \in Dormant \/ \E b \in Ops : Src[b] = Dst[o] /\ Pending(b)'
             /\ \A b \in Ops : Src[b] = Dst[o] => markPart'[b] = NoFile
  <2>1. Pending(o) /\ o # op /\ Dst[o] # Dst[op]
    BY <1>0, <1>2, <1>3
  <2>2. /\ markAt[Dst[o]] # NoFile =>
              Dst[o] \in Dormant \/ \E b \in Ops : Src[b] = Dst[o] /\ Pending(b)
        /\ \A b \in Ops : Src[b] = Dst[o] => markPart[b] = NoFile
    BY <1>0, <2>1 DEF MarksInTurn
  <2>3. markAt'[Dst[o]] = IF Dst[o] \in Vacated(op) THEN NoFile ELSE markAt[Dst[o]]
    BY <1>0, <1>1, <2>1
  <2>4. Src[op] = Dst[o] => markAt'[Dst[o]] = NoFile
    <3>1. Src[op] = Dst[o] => ~MarkerInPart(op)
      BY <1>0, <2>2 DEF MarkerInPart
    <3> QED  BY <2>3, <3>1 DEF Vacated
  <2>5. ASSUME markAt'[Dst[o]] # NoFile
        PROVE  Dst[o] \in Dormant \/ \E b \in Ops : Src[b] = Dst[o] /\ Pending(b)'
    <3>1. Dst[o] \in Dormant \/ \E b \in Ops : Src[b] = Dst[o] /\ Pending(b)
      BY <2>2, <2>3, <2>5
    <3>2. ASSUME NEW b \in Ops, Src[b] = Dst[o], Pending(b)
          PROVE  \E c \in Ops : Src[c] = Dst[o] /\ Pending(c)'
      <4>1. b # op
        BY <2>4, <2>5, <3>2
      <4> QED  BY <1>2, <3>2, <4>1
    <3> QED  BY <3>1, <3>2
  <2>6. ASSUME NEW b \in Ops, Src[b] = Dst[o] PROVE markPart'[b] = NoFile
    <3>1. b \notin Blockers(op)
      BY <2>1, <2>6 DEF Blockers
    <3> QED  BY <1>1, <2>2, <2>6, <3>1
  <2> QED  BY <2>5, <2>6
<1>4. MarksInTurn'
  BY <1>3 DEF MarksInTurn
<1>5. ASSUME NEW o \in Ops
      PROVE  IF Listed(o)' THEN index'[o] = Dst[o] ELSE index'[o] \in {Src[o], "part"}
  <2>1. Listed(o)' <=> Listed(o)
    BY <1>0, <1>1 DEF Listed
  <2> QED  BY <1>1, <2>1 DEF InCourse, IndexInTurn, NoneSkipped
<1>6. IndexInTurn'
  BY <1>5 DEF IndexInTurn
<1> QED  BY <1>4, <1>6

\* The index entry of one operation is moved; another file that was listed there is
\* listed under its hidden name.
LEMMA IndexMoveInTurn ==
    ASSUME InCourse, SyncIndex
    PROVE  MarksInTurn' /\ IndexInTurn'
<1>0. /\ op \in Ops /\ items[op].state = "MetaCommitted" /\ step = "index" /\ step \in InSteps
      /\ mode = "executing" /\ \A o \in Ops : Src[o] \in Paths /\ Dst[o] \in Paths
      /\ \A o, q \in Ops : o # q => Dst[o] # Dst[q]
      /\ "part" \notin Paths
  BY AtTheRow, PlanAssumption
     DEF SyncIndex, InCourse, RenameInv, ControlInv, StepKnowsTheRow, InSteps
<1>1. /\ index' = [o \in Ops |->
              IF o = op THEN Dst[op]
              ELSE IF index[o] # Dst[op] THEN index[o]
              ELSE IF /\ o \in Journal!IncompleteItems
                      /\ Src[o] = Dst[op] /\ items[o].temporary
                   THEN "part" ELSE "gone"]
      /\ step' = "synced" /\ UNCHANGED <<items, op, markAt, markPart>>
  BY <1>0, IndexTakesIt DEF SyncIndex, Stay, markers, journal
<1>2. \A o \in Ops : (Pending(o)' <=> Pending(o)) /\ (Listed(o)' <=> Listed(o) \/ o = op)
  BY <1>0, <1>1 DEF Pending, Listed
<1>3. MarksInTurn'
  BY <1>1, <1>2, MarksStay DEF InCourse
<1>4. ASSUME NEW o \in Ops
      PROVE  IF Listed(o)' THEN index'[o] = Dst[o] ELSE index'[o] \in {Src[o], "part"}
  <2>0. IF Listed(o) THEN index[o] = Dst[o] ELSE index[o] \in {Src[o], "part"}
    BY DEF InCourse, IndexInTurn, NoneSkipped
  <2>1. CASE o = op
    BY <1>1, <1>2, <2>1
  <2>2. CASE o # op /\ index[o] # Dst[op]
    BY <1>1, <1>2, <2>0, <2>2
  <2>3. CASE o # op /\ index[o] = Dst[op]
    <3>1. ~Listed(o) /\ Src[o] = Dst[op]
      BY <1>0, <2>0, <2>3
    <3>2. o \in Journal!IncompleteItems /\ items[o].temporary
      BY <1>0, <2>3, <3>1, OthersAreOpen DEF Listed
    <3> QED  BY <1>1, <1>2, <2>3, <3>1, <3>2
  <2> QED  BY <2>1, <2>2, <2>3
<1>5. IndexInTurn'
  BY <1>4 DEF IndexInTurn
<1> QED  BY <1>3, <1>5

\* What the executor does in its passes.
Pass == \/ Revalidate \/ Prepare \/ MoveOut \/ Stage \/ MoveIn \/ Confirm \/ Apply \/ Verify
        \/ CommitMetadata \/ Barrier \/ SyncIndex \/ Synced \/ Complete \/ Settle

\* Every pass keeps markers and index in turn.
LEMMA InTurnStep ==
    ASSUME InCourse, Pass
    PROVE  MarksInTurn' /\ IndexInTurn'
<1>0. /\ op \in Ops /\ RowInv /\ ControlInv /\ Course /\ mode = "executing"
      /\ items[op] \in Journal!ItemRow
  BY AtTheRow DEF InCourse, RenameInv
<1>a. PICK here \in Ops : here = op
  BY <1>0
<1>b. ASSUME NEW STATE lost, MoveOn(lost)
      PROVE  step' \in {"turn", "prepare", "moveOut", "moveIn", "settle"}
  BY <1>0, <1>b, NextStop DEF Passes
<1>c. Fails => step' \in {"turn", "prepare", "moveOut", "moveIn", "settle"}
  BY <1>0, <1>b DEF Fails
<1>1. ASSUME UNCHANGED items, UNCHANGED <<markAt, markPart, index>>,
             step \notin {"barrier", "synced"}, step' \notin {"barrier", "synced"}
      PROVE  MarksInTurn' /\ IndexInTurn'
  <2>1. (Pending(here)' <=> Pending(here)) /\ (Listed(here)' <=> Listed(here))
    BY <1>1 DEF Pending, Listed
  <2> QED  BY <1>1, <1>a, <2>1, InTurnStays
<1>2. CASE Revalidate \/ MoveOut \/ MoveIn \/ Confirm
  <2>1. /\ UNCHANGED items /\ UNCHANGED <<markAt, markPart, index>>
        /\ step \notin {"barrier", "synced"} /\ step' \notin {"barrier", "synced"}
    BY <1>2, <1>c DEF Revalidate, MoveOut, MoveIn, Confirm, Stay, markers, journal
  <2> QED  BY <1>1, <2>1
<1>3. CASE CommitMetadata
  <2>1. CASE MarkerCollision(op)
    <3>1. /\ UNCHANGED items /\ UNCHANGED <<markAt, markPart, index>>
          /\ step \notin {"barrier", "synced"} /\ step' \notin {"barrier", "synced"}
      BY <1>3, <1>c, <2>1 DEF CommitMetadata, markers, journal
    <3> QED  BY <1>1, <3>1
  <2>2. CASE ~MarkerCollision(op)
    BY <1>3, <2>2, MarkerMoveInTurn
  <2> QED  BY <2>1, <2>2
<1>4. CASE SyncIndex
  BY <1>4, IndexMoveInTurn
<1>5. CASE Settle
  <2>1. items[op].state = "Verified"
    BY <1>0, <1>5 DEF Settle, Course
  <2>2. UNCHANGED items /\ MoveOn(failed) /\ step = "settle"
        /\ UNCHANGED <<markAt, markPart, index>>
    BY <1>5, <2>1 DEF Settle, SafeToFail, journal, markers
  <2>3. step' \in {"turn", "prepare", "moveOut", "moveIn", "settle"}
    BY <1>b, <2>2
  <2> QED  BY <1>1, <2>2, <2>3
<1>6. CASE Prepare
  <2>1. at[Src[op]] = op
    BY <1>0, <1>6, NotBegunAtSource DEF Prepare, Course, InCourse
  <2>2. /\ Journal!RecordPreparedEvidence(op) /\ MoveOn(failed) /\ step = "prepare"
        /\ UNCHANGED <<markAt, markPart, index>>
    BY <1>6, <2>1 DEF Prepare, markers
  <2>3. /\ OnlyRow(op) /\ items[op].state = "Prepared"
        /\ items'[op] = [items[op] EXCEPT !.temporary = TRUE, !.evidence = TRUE]
    BY <1>0, <2>2, EvidenceWrite
  <2>4. items'[op].state = "Prepared"
    BY <1>0, <2>3 DEF Journal!ItemRow
  <2>5. step' \in {"turn", "prepare", "moveOut", "moveIn", "settle"}
    BY <1>b, <2>2
  <2>6. (Pending(here)' <=> Pending(here)) /\ (Listed(here)' <=> Listed(here))
    BY <1>a, <2>2, <2>3, <2>4, <2>5 DEF Pending, Listed
  <2> QED  BY <1>a, <2>2, <2>3, <2>5, <2>6, InTurnStays
<1>7. CASE Complete
  <2>1. /\ Journal!CompleteItem(op, "IndexSynced") /\ MoveOn(failed) /\ step = "complete"
        /\ UNCHANGED <<markAt, markPart, index>>
    BY <1>7 DEF Complete, markers
  <2>2. OnlyRow(op) /\ items[op].state = "IndexSynced" /\ items'[op].state = "Completed"
    BY <1>0, <2>1, EndWrite
  <2>3. step' \in {"turn", "prepare", "moveOut", "moveIn", "settle"}
    BY <1>b, <2>1
  <2>4. (Pending(here)' <=> Pending(here)) /\ (Listed(here)' <=> Listed(here))
    BY <1>a, <2>1, <2>2, <2>3 DEF Pending, Listed
  <2> QED  BY <1>a, <2>1, <2>2, <2>3, <2>4, InTurnStays
<1>8. CASE Stage \/ Apply \/ Verify \/ Barrier \/ Synced
  <2>1. /\ UNCHANGED <<markAt, markPart, index>>
        /\ \/ step = "stage" /\ MoveOn(failed)
           \/ step = "apply" /\ Stay("verify")
           \/ step = "verify" /\ Stay("metadata")
           \/ step = "barrier" /\ Stay("index")
           \/ step = "synced" /\ Stay("complete")
    BY <1>8 DEF Stage, Apply, Verify, Barrier, Synced, markers
  <2>2. step' \notin {"barrier", "synced"}
    <3>1. step = "stage" => step' \in {"turn", "prepare", "moveOut", "moveIn", "settle"}
      BY <1>b, <2>1
    <3> QED  BY <2>1, <3>1 DEF Stay
  <2>3. /\ OnlyRow(op)
        /\ \/ step = "stage" /\ items[op].state = "Prepared" /\ items'[op].state = "Staged"
           \/ step = "apply" /\ items[op].state = "Staged" /\ items'[op].state = "FsApplied"
           \/ step = "verify" /\ items[op].state = "FsApplied" /\ items'[op].state = "Verified"
           \/ step = "barrier" /\ items[op].state = "Verified" /\ items'[op].state = "MetaCommitted"
           \/ /\ step = "synced" /\ items[op].state = "MetaCommitted"
              /\ items'[op].state = "IndexSynced"
    <3>1. CASE Stage
      <4>1. /\ OnlyRow(op) /\ items[op].state = "Prepared"
            /\ items'[op] = [items[op] EXCEPT !.state = "Staged"]
        BY <1>0, <3>1, AdvanceWrite DEF Stage
      <4> QED  BY <1>0, <3>1, <4>1 DEF Journal!ItemRow, Stage
    <3>2. CASE Apply
      <4>1. /\ OnlyRow(op) /\ items[op].state = "Staged"
            /\ items'[op] = [items[op] EXCEPT !.state = "FsApplied", !.evidence = TRUE]
        BY <1>0, <3>2, AppliedWrite DEF Apply
      <4> QED  BY <1>0, <3>2, <4>1 DEF Journal!ItemRow, Apply
    <3>3. CASE Verify
      <4>1. /\ OnlyRow(op) /\ items[op].state = "FsApplied"
            /\ items'[op] = [items[op] EXCEPT !.state = "Verified"]
        BY <1>0, <3>3, AdvanceWrite DEF Verify
      <4> QED  BY <1>0, <3>3, <4>1 DEF Journal!ItemRow, Verify
    <3>4. CASE Barrier
      <4>1. /\ OnlyRow(op) /\ items[op].state = "Verified"
            /\ items'[op] = [items[op] EXCEPT !.state = "MetaCommitted"]
        BY <1>0, <3>4, AdvanceWrite DEF Barrier
      <4> QED  BY <1>0, <3>4, <4>1 DEF Journal!ItemRow, Barrier
    <3>5. CASE Synced
      <4>1. /\ OnlyRow(op) /\ items[op].state = "MetaCommitted"
            /\ items'[op] = [items[op] EXCEPT !.state = "IndexSynced"]
        BY <1>0, <3>5, AdvanceWrite DEF Synced
      <4> QED  BY <1>0, <3>5, <4>1 DEF Journal!ItemRow, Synced
    <3> QED  BY <1>8, <3>1, <3>2, <3>3, <3>4, <3>5
  <2>4. (Pending(here)' <=> Pending(here)) /\ (Listed(here)' <=> Listed(here))
    <3>1. items[here] = items[op] /\ items'[here] = items'[op]
      BY <1>a
    <3> QED  BY <1>a, <2>2, <2>3 DEF Pending, Listed
  <2> QED  BY <1>a, <2>1, <2>2, <2>3, <2>4, InTurnStays
<1> QED  BY <1>2, <1>3, <1>4, <1>5, <1>6, <1>7, <1>8 DEF Pass

\* No pass ends a row as cancelled.
LEMMA PassesSkipNothing ==
    ASSUME InCourse, Pass
    PROVE  NoneSkipped'
<1>0. op \in Ops /\ RowInv /\ items[op] \in Journal!ItemRow /\ NoneSkipped
  BY AtTheRow DEF InCourse
<1>1. ASSUME OnlyRow(op), ~Skipped(items'[op]) PROVE NoneSkipped'
  BY <1>0, <1>1 DEF NoneSkipped, OnlyRow
<1>2. CASE UNCHANGED items
  BY <1>0, <1>2 DEF NoneSkipped
<1>3. CASE Prepare
  <2>1. Journal!RecordPreparedEvidence(op) \/ UNCHANGED items
    BY <1>3 DEF Prepare, journal
  <2>2. CASE Journal!RecordPreparedEvidence(op)
    <3>1. /\ OnlyRow(op) /\ items[op].state = "Prepared"
          /\ items'[op] = [items[op] EXCEPT !.temporary = TRUE, !.evidence = TRUE]
      BY <1>0, <2>2, EvidenceWrite
    <3>2. items'[op].state = "Prepared"
      BY <1>0, <3>1 DEF Journal!ItemRow
    <3> QED  BY <1>1, <3>1, <3>2 DEF Skipped
  <2> QED  BY <1>2, <2>1, <2>2
<1>4. CASE Stage \/ Verify \/ Barrier \/ Synced
  <2>1. PICK next \in {"Staged", "Verified", "MetaCommitted", "IndexSynced"} :
              OnlyRow(op) /\ items'[op] = [items[op] EXCEPT !.state = next]
    BY <1>0, <1>4, AdvanceWrite DEF Stage, Verify, Barrier, Synced
  <2>2. items'[op].state = next
    BY <1>0, <2>1 DEF Journal!ItemRow
  <2> QED  BY <1>1, <2>1, <2>2 DEF Skipped
<1>5. CASE Apply
  <2>1. OnlyRow(op) /\ items'[op] = [items[op] EXCEPT !.state = "FsApplied", !.evidence = TRUE]
    BY <1>0, <1>5, AppliedWrite DEF Apply
  <2>2. items'[op].state = "FsApplied"
    BY <1>0, <2>1 DEF Journal!ItemRow
  <2> QED  BY <1>1, <2>1, <2>2 DEF Skipped
<1>6. CASE Complete \/ Settle
  <2>1. \/ UNCHANGED items
        \/ \E expected : Journal!CompleteItem(op, expected) \/ Journal!FailItem(op, expected, FALSE)
    BY <1>6 DEF Complete, Settle, journal
  <2>2. ASSUME NEW expected,
               Journal!CompleteItem(op, expected) \/ Journal!FailItem(op, expected, FALSE)
        PROVE  NoneSkipped'
    <3>1. OnlyRow(op) /\ items'[op].result = ResultOf(items'[op].state)
      BY <1>0, <2>2, EndWrite
    <3>2. ~Skipped(items'[op])
      BY <3>1 DEF Skipped, ResultOf
    <3> QED  BY <1>1, <3>1, <3>2
  <2> QED  BY <1>2, <2>1, <2>2
<1>7. CASE Revalidate \/ MoveOut \/ MoveIn \/ Confirm \/ CommitMetadata \/ SyncIndex
  BY <1>2, <1>7 DEF Revalidate, MoveOut, MoveIn, Confirm, CommitMetadata, SyncIndex, journal
<1> QED  BY <1>3, <1>4, <1>5, <1>6, <1>7 DEF Pass

\* The passes of an executor nobody interferes with take their course.
LEMMA CourseStep ==
    ASSUME InCourse, Pass
    PROVE  /\ mode' = "executing" /\ Course' /\ MarksInTurn' /\ IndexInTurn' /\ NoneSkipped'
BY InTurnStep, OutwardCourse, InwardCourse, PassesSkipNothing DEF Pass

\* What the loop over the batch does around the passes.
InTurns == NotStarted \/ Turn \/ Cancel \/ CancelInTurn

\* A cancellation ends rows the passes never began, or those an old marker has stopped.
LEMMA TurnsInCourse ==
    ASSUME RenameInv, mode = "executing", Course, IndexInTurn, InTurns,
           InPasses => MarksInTurn /\ NoneSkipped
    PROVE  /\ mode' = "executing" /\ Course' /\ IndexInTurn'
           /\ InPasses' => MarksInTurn' /\ NoneSkipped'
<1>0. op \in Ops /\ RowInv /\ ControlInv
  BY AtTheRow
<1>1. CASE Cancel
  <2>1. /\ UNCHANGED <<items, part, mode, op, step, failed, index, markAt, markPart>>
    BY <1>1 DEF Cancel, journal, worker, disk, markers
  <2>2. Course' /\ IndexInTurn' /\ (InPasses' <=> InPasses)
    BY <2>1 DEF Course, NotBegun, Aside, Finished, Over, Untouched, IndexInTurn, Listed, InPasses
  <2>3. (MarksInTurn' <=> MarksInTurn) /\ (NoneSkipped' <=> NoneSkipped)
    BY <2>1 DEF MarksInTurn, Pending, NoneSkipped
  <2> QED  BY <2>1, <2>2, <2>3
<1>2. CASE ~Cancel
  <2>1. /\ step \in {"revalidate", "turn"} /\ step' \in {"turn", "close"}
        /\ UNCHANGED <<mode, failed, index>>
    BY <1>2 DEF InTurns, NotStarted, Turn, CancelInTurn, EndTurn
  <2>2. UNCHANGED items \/ \E expected : Journal!SkipItem(op, expected, FALSE)
    BY <1>2 DEF InTurns, NotStarted, Turn, CancelInTurn, journal
  <2>3. \A o \in Ops : items'[o] = items[o] \/ Skipped(items'[o])
    <3>1. ASSUME NEW expected, Journal!SkipItem(op, expected, FALSE)
          PROVE  \A o \in Ops : items'[o] = items[o] \/ Skipped(items'[o])
      <4>1. OnlyRow(op) /\ items'[op].state = "Completed" /\ items'[op].result = "skipped"
        BY <1>0, <3>1, SkipWrite
      <4> QED  BY <4>1 DEF OnlyRow, Skipped
    <3> QED  BY <2>2, <3>1
  <2>4. \A o \in Ops : Over(o)
    <3>1. CASE step = "turn"
      BY <3>1 DEF Course
    <3>2. CASE step = "revalidate"
      <4>1. \A o \in Ops : o \notin failed
        BY <3>2 DEF Course, NotBegun
      <4>2. \A o \in Ops : Untouched(o)
        BY <1>0, <3>2, <4>1 DEF ControlInv, PassesInOrder
      <4> QED  BY <4>2 DEF Over
    <3> QED  BY <2>1, <3>1, <3>2
  <2>5. \A o \in Ops : Over(o)'
    BY <2>3, <2>4 DEF Over, Untouched, Skipped
  <2>6. Course' /\ ~InPasses'
    BY <2>1, <2>5 DEF Course, InSteps, InPasses
  <2>7. IndexInTurn'
    <3>1. ASSUME NEW o \in Ops, ~Skipped(items'[o])
          PROVE  IF Listed(o)' THEN index'[o] = Dst[o] ELSE index'[o] \in {Src[o], "part"}
      <4>1. items'[o] = items[o]
        BY <2>3, <3>1
      <4>2. Listed(o)' <=> Listed(o)
        BY <2>1, <4>1 DEF Listed
      <4> QED  BY <2>1, <3>1, <4>1, <4>2 DEF IndexInTurn
    <3> QED  BY <3>1 DEF IndexInTurn
  <2> QED  BY <2>1, <2>6, <2>7
<1> QED  BY <1>1, <1>2

-----------------------------------------------------------------------------
(* What is left when the batch is over. *)

\* A row only becomes Staged when its file was moved aside, and no row is ever dropped.
LEMMA RowChanges ==
    ASSUME RenameInv, [Next]_vars
    PROVE  \/ UNCHANGED items
           \/ BeginPlan /\ \A o \in Ops : items'[o].state = "Prepared"
           \/ Stage /\ OnlyRow(op) /\ items'[op].state = "Staged"
           \/ \E o \in Ops : OnlyRow(o) /\ items'[o].state \notin {"Absent", "Staged"}
<1>0. op \in Ops /\ RowInv /\ items[op] \in Journal!ItemRow
  BY AtTheRow
<1>1. CASE BeginPlan
  <2>1. items' = [o \in Ops |-> Journal!NewItem("Skip", "planned")]
    BY <1>1 DEF BeginPlan, Journal!BeginPlan
  <2> QED  BY <1>1, <2>1 DEF Journal!NewItem
<1>2. CASE Prepare
  <2>1. CASE Journal!RecordPreparedEvidence(op)
    <3>1. /\ OnlyRow(op) /\ items[op].state = "Prepared"
          /\ items'[op] = [items[op] EXCEPT !.temporary = TRUE, !.evidence = TRUE]
      BY <1>0, <2>1, EvidenceWrite
    <3>2. items'[op].state = "Prepared"
      BY <1>0, <3>1 DEF Journal!ItemRow
    <3> QED  BY <1>0, <3>1, <3>2
  <2> QED  BY <1>2, <2>1 DEF Prepare, journal
<1>3. CASE Stage \/ Verify \/ Barrier \/ Synced
  <2>1. PICK next \in {"Staged", "Verified", "MetaCommitted", "IndexSynced"} :
              /\ OnlyRow(op) /\ items'[op] = [items[op] EXCEPT !.state = next]
              /\ next = "Staged" => Stage
    BY <1>0, <1>3, AdvanceWrite DEF Stage, Verify, Barrier, Synced
  <2>2. items'[op].state = next
    BY <1>0, <2>1 DEF Journal!ItemRow
  <2> QED  BY <1>0, <2>1, <2>2
<1>4. CASE Apply
  <2>1. OnlyRow(op) /\ items'[op] = [items[op] EXCEPT !.state = "FsApplied", !.evidence = TRUE]
    BY <1>0, <1>4, AppliedWrite DEF Apply
  <2>2. items'[op].state = "FsApplied"
    BY <1>0, <2>1 DEF Journal!ItemRow
  <2> QED  BY <1>0, <2>1, <2>2
<1>5. ASSUME NEW o \in Ops, NEW expected,
             Journal!CompleteItem(o, expected) \/ Journal!FailItem(o, expected, FALSE)
      PROVE  OnlyRow(o) /\ items'[o].state \notin {"Absent", "Staged"}
  <2>1. OnlyRow(o) /\ items'[o].state \in {"Completed", "Failed"}
    BY <1>0, <1>5, EndWrite
  <2> QED  BY <2>1
<1>6. CASE Complete \/ Settle \/ Restored
  BY <1>0, <1>5, <1>6 DEF Complete, Settle, Restored, journal
<1>7. CASE \E o \in Ops : Recover(o)
  BY <1>5, <1>7 DEF Recover, journal
<1>9. CASE InTurns
  <2>1. UNCHANGED items \/ \E expected : Journal!SkipItem(op, expected, FALSE)
    BY <1>9 DEF InTurns, NotStarted, Turn, Cancel, CancelInTurn, journal
  <2>2. ASSUME NEW expected, Journal!SkipItem(op, expected, FALSE)
        PROVE  OnlyRow(op) /\ items'[op].state \notin {"Absent", "Staged"}
    <3>1. OnlyRow(op) /\ items'[op].state = "Completed"
      BY <1>0, <2>2, SkipWrite
    <3> QED  BY <3>1
  <2> QED  BY <1>0, <2>1, <2>2
<1>8. CASE \/ Revalidate \/ MoveOut \/ MoveIn \/ Confirm \/ CommitMetadata \/ SyncIndex
           \/ Restore \/ OpenProject \/ Fault \/ Crash \/ Close
           \/ (\E p \in Paths : OutsideChange(p)) \/ UNCHANGED vars
  BY <1>8 DEF Revalidate, MoveOut, MoveIn, Confirm, CommitMetadata, SyncIndex, Restore,
       OpenProject, Fault, Crash, Close, Journal!FinishBatch, OutsideChange, journal, vars
<1> QED  BY <1>1, <1>2, <1>3, <1>4, <1>6, <1>7, <1>8, <1>9 DEF Next, Work, Execute, InTurns

\* A row that recovery can not decide is in one of the situations of Left.
LEMMA ReviewIsLeft ==
    ASSUME RenameInv, destroyed = {}, \A p \in Paths : at[p] # Foreign,
           NEW o \in Journal!IncompleteItems, Decision(o) = "review",
           ~(Staged(o) /\ at[Src[o]] = o)
    PROVE  Left(o)
<1>0. /\ o \in Ops /\ FileInv /\ SoundRow(items[o]) /\ items[o] \in Journal!ItemRow
      /\ StateFits(o, items[o].state) /\ part[o] \in {o, NoFile}
      /\ part[o] # NoFile => OpenRow(items[o])
  <2>1. ~Skipped(items[o])
    BY DEF RenameInv, RowInv, SoundRow, Journal!IncompleteItems, Journal!Terminal, Skipped
  <2> QED  BY <2>1 DEF RenameInv, RowInv, FileInv, OwnParts, Journal!IncompleteItems
<1>1. /\ part[o] = o \/ at[Src[o]] = o \/ at[Dst[o]] = o
      /\ part[o] # NoFile => at[Src[o]] # o /\ at[Dst[o]] # o
  BY <1>0, OnePlace
<1>2. \A p \in Paths : at[p] = NoFile \/ at[p] \in Ops
  <2>1. ASSUME NEW p \in Paths PROVE at[p] = NoFile \/ at[p] \in Ops
    <3>1. at[p] \in Files \cup {NoFile} /\ at[p] # Foreign
      BY <1>0 DEF FileInv, FileTypes
    <3> QED  BY <3>1, PlanAssumption DEF Files, Foreign, Ops
  <2> QED  BY <2>1
<1>3. /\ Src[o] \in Paths /\ Dst[o] \in Paths
      /\ at[Src[o]] = NoFile \/ at[Src[o]] \in Ops
      /\ at[Dst[o]] = NoFile \/ at[Dst[o]] \in Ops
  BY <1>0, <1>2, PlanAssumption
<1>4. items[o].state \in {"Prepared", "Staged"} \cup Journal!AppliedStates
  BY <1>0 DEF Journal!IncompleteItems, Journal!ItemRow, Journal!LiveStates, Journal!Terminal,
              Journal!AppliedStates, SoundRow
<1>5. CASE ~items[o].evidence
  <2>1. items[o].state = "Prepared" /\ part[o] = NoFile
    BY <1>0, <1>4, <1>5 DEF SoundRow, OpenRow
  <2>2. at[Dst[o]] # o
    BY <1>0, <2>1 DEF StateFits
  <2> QED  BY <1>0, <1>1, <1>5, <2>1, <2>2, PlanFiles DEF Left
<1>6. CASE Ambiguous(o)
  BY <1>6 DEF Left
<1>7. CASE items[o].evidence /\ ~Ambiguous(o)
  <2>0. /\ items[o].temporary /\ ~Decidable(o)
    BY <1>0, <1>7, ReviewedRows DEF SoundRow, Reviewed
  <2>1. /\ part[o] = o => PartStatus(o) = "Match"
        /\ part[o] = NoFile => PartStatus(o) = "Missing"
        /\ at[Src[o]] = o => SourceStatus(o) = "Match"
        /\ at[Dst[o]] = o => DestinationStatus(o) = "Match"
        /\ at[Src[o]] = NoFile => SourceStatus(o) = "Missing"
        /\ at[Dst[o]] = NoFile => DestinationStatus(o) = "Missing"
        /\ DestinationStatus(o) \in {"Match", "Missing", "Conflict"}
    BY <1>0, <2>0, PlanFiles DEF PartStatus, SourceStatus, DestinationStatus, Status
  <2>2. CASE part[o] = o
    <3>1. items[o].state \in {"Prepared", "Staged"} /\ part[o] # NoFile
      BY <1>0, <2>2, PlanFiles DEF OpenRow
    <3>2. CASE items[o].state = "Prepared"
      <4>1. at[Src[o]] # NoFile
        BY <2>0, <2>1, <2>2, <3>2 DEF Decidable
      <4> QED  BY <1>3, <2>2, <3>2, <4>1 DEF Left
    <3>3. CASE items[o].state = "Staged"
      <4>1. DestinationStatus(o) = "Conflict" /\ SourceStatus(o) # "Missing"
        BY <1>7, <2>0, <2>1, <2>2, <3>3 DEF Decidable, Ambiguous
      <4> QED  BY <1>3, <2>1, <2>2, <4>1 DEF Left
    <3> QED  BY <3>1, <3>2, <3>3
  <2>3. CASE part[o] = NoFile /\ at[Dst[o]] = o
    <3>1. items[o].state \in {"Staged"} \cup Journal!AppliedStates
      BY <1>0, <1>4, <2>3 DEF StateFits
    <3>2. SourceStatus(o) # "Missing"
      BY <2>0, <2>1, <2>3, <3>1 DEF Decidable, OnlyDestinationMatches
    <3> QED  BY <1>3, <2>1, <2>3, <3>2 DEF Left
  <2>4. CASE part[o] = NoFile /\ at[Dst[o]] # o
    <3>1. at[Src[o]] = o /\ items[o].state # "Staged"
      BY <1>0, <1>1, <2>4, PlanFiles DEF Staged
    <3>2. items[o].state = "Prepared"
      BY <1>0, <1>4, <2>4, <3>1 DEF StateFits
    <3> QED  BY <2>0, <2>1, <2>4, <3>1, <3>2 DEF Decidable
  <2> QED  BY <1>0, <2>2, <2>3, <2>4
<1> QED  BY <1>5, <1>6, <1>7

\* What an executor leaves that nobody interfered with.
LEMMA CourseIsLeft ==
    ASSUME RenameInv, destroyed = {}, Course, step = "close", NEW o \in Journal!IncompleteItems
    PROVE  Left(o)
<1>1. /\ o \in Ops /\ items[o].state # "Completed" /\ Over(o)
      /\ StateFits(o, items[o].state) /\ (part[o] # NoFile => OpenRow(items[o]))
  <2>1. o \in Ops /\ SoundRow(items[o]) /\ Over(o)
    BY DEF RenameInv, RowInv, Course, Journal!IncompleteItems
  <2>2. items[o].state # "Completed"
    BY <2>1 DEF SoundRow, Journal!IncompleteItems, Journal!Terminal
  <2> QED  BY <2>1, <2>2 DEF RenameInv, RowInv, Skipped
<1>2. CASE Untouched(o)
  <2>1. part[o] = NoFile /\ at[Dst[o]] # o
    BY <1>1, <1>2 DEF Untouched, OpenRow, StateFits
  <2>2. at[Src[o]] = o
    BY <1>1, <2>1, OnePlace, PlanFiles DEF RenameInv
  <2> QED  BY <1>2, <2>2 DEF Left, Untouched
<1>3. CASE items[o].state = "Verified" /\ Dst[o] \in Dormant
  BY <1>1, <1>3 DEF StateFits, Journal!AppliedStates, Left
<1> QED  BY <1>1, <1>2, <1>3 DEF Over

-----------------------------------------------------------------------------
(* The invariant of a plan that at most one crash interrupts. *)

\* Who acts in which mode while nobody interferes.
LEMMA WhoActs ==
    ASSUME RenameInv, Next, ~Fault, ~(\E p \in Paths : OutsideChange(p))
    PROVE  \/ mode = "idle" /\ mode' = "executing" /\ BeginPlan
           \/ mode = "executing" /\ Pass
           \/ mode = "executing" /\ mode' = "executing" /\ InTurns
           \/ mode \in {"executing", "recovering"} /\ mode' = "idle" /\ Close
           \/ mode = "closed" /\ mode' = "recovering" /\ OpenProject
           \/ mode' = "closed" /\ Crash
           \/ /\ mode = "recovering" /\ mode' \in {"recovering", "closed"}
              /\ \/ Pass \/ Restore \/ Restored
                 \/ \E o \in Ops : Recover(o)
<1>0. StepOfTheMode
  BY DEF RenameInv, ControlInv
<1>1. BeginPlan => mode = "idle" /\ mode' = "executing"
  BY DEF BeginPlan
<1>2. OpenProject => mode = "closed" /\ mode' = "recovering"
  BY DEF OpenProject
<1>3. Crash => mode' = "closed"
  BY DEF Crash, Shutdown
<1>4. Close => mode \in {"executing", "recovering"} /\ mode' = "idle"
  BY <1>0 DEF Close, StepOfTheMode
<1>5. ASSUME Pass PROVE mode \in {"executing", "recovering"}
  BY <1>0, <1>5 DEF Pass, Revalidate, Prepare, MoveOut, Stage, MoveIn, Confirm, Apply, Verify,
       CommitMetadata, Barrier, SyncIndex, Synced, Complete, Settle, StepOfTheMode
<1>6. ASSUME Restore \/ Restored \/ (\E o \in Ops : Recover(o))
      PROVE  mode = "recovering"
  BY <1>0, <1>6 DEF Restore, Restored, Recover, StepOfTheMode, InSteps
<1>7. ASSUME mode = "recovering", Pass \/ Restore \/ Restored \/ (\E o \in Ops : Recover(o))
      PROVE  mode' \in {"recovering", "closed"}
  <2>1. /\ Fails => mode' = "closed"
        /\ \A next : Stay(next) => mode' = mode
        /\ MoveOn(failed) => mode' = mode
    BY <1>7 DEF Fails, Shutdown, Stay, MoveOn
  <2>2. Pass => mode' \in {"recovering", "closed"}
    BY <1>7, <2>1 DEF Pass, Revalidate, Prepare, MoveOut, Stage, MoveIn, Confirm, Apply, Verify,
         CommitMetadata, Barrier, SyncIndex, Synced, Complete, Settle
  <2> QED  BY <1>7, <2>1, <2>2 DEF Restore, Restored, Recover
<1>8. ASSUME InTurns PROVE mode = "executing" /\ mode' = "executing"
  BY <1>0, <1>8 DEF InTurns, NotStarted, Turn, Cancel, CancelInTurn, EndTurn, worker,
       StepOfTheMode, InSteps
<1> QED  BY <1>1, <1>2, <1>3, <1>4, <1>5, <1>6, <1>7, <1>8 DEF Next, Work, Execute, Pass, InTurns

\* While nobody interferes, the only steps besides the worker's are crashes.
LEMMA CalmBefore ==
    ASSUME RenameInv, crashes \in Nat, faults \in Nat, [Next]_vars
    PROVE  /\ crashes' \in Nat /\ faults' \in Nat
           /\ Calm' => /\ Calm /\ ~Fault /\ ~(\E p \in Paths : OutsideChange(p))
                       /\ crashes' = crashes \/ (Crash /\ crashes' = 1 /\ crashes = 0)
<1>0. outside \in Nat
  BY DEF RenameInv, FileInv, FileTypes
<1>1. CASE Fault
  BY <1>0, <1>1 DEF Fault, Calm
<1>2. CASE Crash
  <2>1. ~(\E p \in Paths : OutsideChange(p)) /\ ~Fault
    BY <1>0, <1>2 DEF Crash, OutsideChange, Fault
  <2> QED  BY <1>0, <1>2, <2>1 DEF Crash, Calm
<1>3. CASE \E p \in Paths : OutsideChange(p)
  BY <1>0, <1>3 DEF OutsideChange, Calm
<1>4. CASE ~Fault /\ ~Crash /\ ~(\E p \in Paths : OutsideChange(p))
  <2>1. UNCHANGED <<outside, crashes, faults>>
    <3>1. UNCHANGED vars => UNCHANGED environment
      BY DEF vars
    <3>2. BeginPlan \/ OpenProject \/ Work => UNCHANGED environment
      BY DEF BeginPlan, OpenProject, Work, Execute, Revalidate, Prepare, MoveOut, Stage, MoveIn,
             Confirm, Apply, Verify, CommitMetadata, Barrier, SyncIndex, Synced, Complete,
             Settle, NotStarted, Turn, Close, Recover, Restore, Restored
    <3>3. Cancel \/ CancelInTurn => UNCHANGED <<outside, crashes, faults>>
      BY DEF Cancel, CancelInTurn
    <3> QED  BY <1>4, <3>1, <3>2, <3>3 DEF Next, environment
  <2> QED  BY <1>4, <2>1 DEF Calm
<1> QED  BY <1>1, <1>2, <1>3, <1>4

\* Nobody puts a file of another application anywhere.
LEMMA OnlyOurFiles ==
    ASSUME FileInv, op \in Ops, [Next]_vars, ~(\E p \in Paths : OutsideChange(p)),
           \A p \in Paths : at[p] # Foreign
    PROVE  \A p \in Paths : at'[p] # Foreign
<1>1. CASE MoveOut \/ MoveIn \/ Restore
  <2>1. part[op] # Foreign /\ NoFile # Foreign
    BY PlanAssumption, PlanFiles DEF FileInv, OwnParts, NoFile, Foreign
  <2>2. \/ UNCHANGED at
        \/ \E p \in Paths, f \in {NoFile, part[op]} : at' = [at EXCEPT ![p] = f]
    BY <1>1, PlanAssumption DEF MoveOut, MoveIn, Restore, disk
  <2> QED  BY <2>1, <2>2 DEF FileInv, FileTypes
<1>2. CASE ~(MoveOut \/ MoveIn \/ Restore)
  BY <1>2, QuietStep
<1> QED  BY <1>1, <1>2

\* A Staged row whose file is at its source again is about to be ended.
LEMMA StagedStep ==
    ASSUME RenameInv, RenameInv', [Next]_vars, destroyed = {},
           ~Fault, ~(\E p \in Paths : OutsideChange(p)), mode = "recovering" => ~Crash,
           step = "stage" => part[op] = op,
           \A o \in Ops : Staged(o) /\ at[Src[o]] = o => step = "restored" /\ op = o,
           NEW o \in Ops, Staged(o)', at'[Src[o]] = o
    PROVE  step' = "restored" /\ op' = o
<1>0. /\ op \in Ops /\ FileInv /\ RowInv /\ StepOfTheMode
      /\ Src[o] \in Paths /\ \A q \in Ops : Src[q] # Dst[q] /\ Src[q] \in Paths /\ Dst[q] \in Paths
      /\ part[op] \in {op, NoFile} /\ o # NoFile
  BY AtTheRow, PlanAssumption, PlanFiles DEF RenameInv, ControlInv
<1>1. CASE Restore /\ at[Src[op]] = NoFile /\ part[op] # NoFile
  <2>1. /\ at' = [at EXCEPT ![Src[op]] = part[op]] /\ Stay("restored") /\ UNCHANGED items
        /\ step = "restore"
    BY <1>1 DEF Restore, journal
  <2>2. at[Src[o]] # o
    BY <2>1 DEF Staged
  <2> QED  BY <1>0, <1>1, <2>1, <2>2 DEF Stay, FileInv, FileTypes
<1>2. CASE ~(Restore /\ at[Src[op]] = NoFile /\ part[op] # NoFile)
  <2>1. at[Src[o]] = o
    <3>1. CASE MoveOut
      BY <1>0, <3>1 DEF MoveOut, disk, FileInv, FileTypes
    <3>2. CASE MoveIn
      <4>1. UNCHANGED at \/ (part[op] = op /\ at' = [at EXCEPT ![Dst[op]] = op])
        BY <1>0, <3>2 DEF MoveIn, disk
      <4> QED  BY <1>0, <4>1 DEF FileInv, FileTypes
    <3>3. CASE Restore
      BY <1>2, <3>3 DEF Restore, disk
    <3>4. CASE ~(MoveOut \/ MoveIn \/ Restore)
      BY <3>4, QuietStep
    <3> QED  BY <3>1, <3>2, <3>3, <3>4
  <2>2. ~BeginPlan /\ items'[o].state = "Staged"
    <3>1. items'[o].state = "Staged"
      BY DEF Staged
    <3>2. BeginPlan => items'[o].state = "Prepared"
      BY DEF BeginPlan, Journal!BeginPlan, Journal!NewItem
    <3> QED  BY <3>1, <3>2
  <2>3. ~(Stage /\ o = op)
    <3> SUFFICES ASSUME Stage, o = op PROVE FALSE
      OBVIOUS
    <3>1. part[op] = op /\ op \notin destroyed
      BY DEF Stage
    <3> QED  BY <1>0, <2>1, <3>1, OnePlace
  <2>4. Staged(o)
    <3>1. CASE UNCHANGED items
      BY <2>2, <3>1 DEF Staged
    <3>2. CASE Stage /\ OnlyRow(op)
      BY <2>2, <2>3, <3>2 DEF OnlyRow, Staged
    <3>3. CASE \E q \in Ops : OnlyRow(q) /\ items'[q].state \notin {"Absent", "Staged"}
      BY <2>2, <3>3 DEF OnlyRow, Staged
    <3> QED  BY <2>2, <3>1, <3>2, <3>3, RowChanges
  <2>5. step = "restored" /\ op = o
    BY <2>1, <2>4
  <2>6. mode = "recovering"
    BY <1>0, <2>5 DEF StepOfTheMode, InSteps
  <2>7. ~Restored
    <3> SUFFICES ASSUME Restored PROVE FALSE
      OBVIOUS
    <3>1. Journal!FailItem(op, items[op].state, FALSE)
      BY DEF Restored
    <3>2. items'[op].state \in {"Completed", "Failed"}
      BY <1>0, <3>1, EndWrite
    <3> QED  BY <2>2, <2>5, <3>2
  <2>8. UNCHANGED vars
    BY <2>2, <2>5, <2>6, <2>7
       DEF Next, Work, Execute, Revalidate, Prepare, MoveOut, Stage, MoveIn, Confirm, Apply,
           Verify, CommitMetadata, Barrier, SyncIndex, Synced, Complete, Settle, NotStarted, Turn,
           Close, Cancel, CancelInTurn, Recover, Restore, BeginPlan, OpenProject
  <2> QED  BY <2>5, <2>8 DEF vars, worker
<1> QED  BY <1>1, <1>2

\* While no row has been written markers stay as they are, and the index as the first
\* scan filled it.
LEMMA FreshStep ==
    ASSUME RenameInv, destroyed = {}, Next, ~Fault, ~(\E p \in Paths : OutsideChange(p)),
           mode = "executing" => Course, Fresh => MarksInTurn,
           Fresh /\ mode = "idle" => index = Src, Fresh'
    PROVE  MarksInTurn' /\ (mode' = "idle" => index' = Src)
<1>0. /\ op \in Ops /\ FileInv /\ RowInv /\ ControlInv
      /\ \A o \in Ops : Src[o] \in Paths /\ Dst[o] \in Paths /\ Src[o] # Dst[o]
  BY AtTheRow, PlanAssumption DEF RenameInv
<1>1. UNCHANGED items
  <2>1. \A o \in Ops : items'[o].state = "Absent"
    BY DEF Fresh
  <2> QED  BY <1>0, <2>1, RowChanges
<1>2. Fresh /\ MarksInTurn
  BY <1>1 DEF Fresh
<1>3. items[op].state = "Absent"
  BY <1>0, <1>2 DEF Fresh
<1>4. UNCHANGED <<markAt, markPart>>
  <2>1. ~CommitMetadata
    BY <1>0, <1>3 DEF CommitMetadata, ControlInv, StepKnowsTheRow
  <2>2. UNCHANGED markers
    BY <2>1 DEF Next, Work, Execute, BeginPlan, Revalidate, Prepare, MoveOut, Stage, MoveIn,
         Confirm, Apply, Verify, Barrier, SyncIndex, Synced, Complete, Settle, NotStarted, Turn,
         Close, Cancel, CancelInTurn, Recover, Restore, Restored, OpenProject, Fault, Crash,
         OutsideChange
  <2> QED  BY <2>2 DEF markers
<1>5. MarksInTurn'
  <2>1. \A o \in Ops : Pending(o)' <=> Pending(o)
    BY <1>1, <1>2 DEF Pending, Fresh
  <2> QED  BY <1>2, <1>4, <2>1, MarksStay
<1>6. ASSUME mode' = "idle" PROVE index' = Src
  <2>1. Close /\ mode \in {"executing", "recovering"}
    <3>1. ~(mode = "executing" /\ Pass)
      <4> SUFFICES ASSUME mode = "executing", Pass PROVE FALSE
        OBVIOUS
      <4>1. /\ Fails => mode' = "executing"
            /\ \A next : Stay(next) => mode' = "executing"
            /\ MoveOn(failed) => mode' = "executing"
        BY DEF Fails, MoveOn, Stay
      <4>2. mode' = "executing"
        BY <4>1 DEF Pass, Revalidate, Prepare, MoveOut, Stage, MoveIn, Confirm, Apply, Verify,
             CommitMetadata, Barrier, SyncIndex, Synced, Complete, Settle
      <4> QED  BY <1>6, <4>2
    <3> QED  BY <1>6, <3>1, WhoActs
  <2>2. mode = "recovering"
    <3> SUFFICES ASSUME mode = "executing" PROVE FALSE
      BY <2>1
    <3>1. step = "close"
      BY <1>0, <2>1 DEF Close, ControlInv, StepOfTheMode, InSteps
    <3> QED  BY <1>0, <1>3, <3>1 DEF Course, Over, Untouched
  <2>3. index' = [o \in Ops |-> IF \E p \in Paths : at[p] = o
                                THEN CHOOSE p \in Paths : at[p] = o ELSE "gone"]
    BY <2>1, <2>2 DEF Close
  <2>4. ASSUME NEW o \in Ops PROVE index'[o] = Src[o]
    <3>1. items[o].state = "Absent"
      BY <1>2 DEF Fresh
    <3>2. part[o] = NoFile /\ at[Dst[o]] # o
      BY <1>0, <3>1 DEF RowInv, OpenRow, StateFits, Skipped
    <3>3. at[Src[o]] = o
      BY <1>0, <3>2, OnePlace, PlanFiles
    <3>4. \A p \in Paths : at[p] = o => p = Src[o]
      <4>1. ASSUME NEW p \in Paths, at[p] = o PROVE p = Src[o]
        <5>1. p \in {Src[o], Dst[o]}
          BY <1>0, <4>1, AtItsPaths
        <5> QED  BY <3>2, <4>1, <5>1
      <4> QED  BY <4>1
    <3> QED  BY <1>0, <2>3, <3>3, <3>4
  <2> QED  BY <2>3, <2>4, PlanAssumption
<1> QED  BY <1>5, <1>6

\* A plan begins with its files at their sources and its markers and index in turn.
LEMMA CourseBegins ==
    ASSUME RenameInv, BeginPlan, failed = {}, Fresh => MarksInTurn,
           Fresh /\ mode = "idle" => index = Src
    PROVE  Course' /\ MarksInTurn' /\ IndexInTurn' /\ NoneSkipped'
<1>1. /\ Fresh /\ mode = "idle" /\ step' = "revalidate"
      /\ \A o \in Ops : items'[o].state = "Prepared"
      /\ UNCHANGED <<part, markAt, markPart, index, failed>>
      /\ \A o \in Ops : part[o] = NoFile
  BY DEF BeginPlan, Journal!BeginPlan, Journal!NewItem, Fresh, disk, markers
<1>2. Course'
  BY <1>1 DEF Course, NotBegun, InSteps
<1>3. \A o \in Ops : Pending(o) /\ Pending(o)' /\ ~Listed(o)'
  BY <1>1 DEF Pending, Listed, Fresh
<1>4. MarksInTurn'
  BY <1>1, <1>3, MarksStay
<1>5. IndexInTurn'
  <2>1. \A o \in Ops : index'[o] = Src[o]
    BY <1>1
  <2> QED  BY <1>3, <2>1 DEF IndexInTurn
<1>6. NoneSkipped'
  BY <1>1 DEF NoneSkipped, Skipped
<1> QED  BY <1>2, <1>4, <1>5, <1>6

\* A plan starts with every marker and every index entry where its file is.
LEMMA CalmInit == Init => CalmInv
<1> SUFFICES ASSUME Init PROVE CalmInv
  OBVIOUS
<1>1. RenameInv /\ crashes = 0 /\ faults = 0 /\ mode = "idle" /\ index = Src /\ failed = {}
  BY RenameInit DEF Init
<1>2. \A o \in Ops : items[o].state = "Absent"
  BY DEF Init, Journal!Init, Journal!NewItem
<1>3. Journal!IncompleteItems = {}
  BY <1>2 DEF Journal!IncompleteItems
<1>4. \A p \in Paths : at[p] = NoFile \/ (at[p] \in Ops /\ Src[at[p]] = p)
  BY DEF Init
<1>5. \A p \in Paths : at[p] # Foreign
  BY <1>4, PlanFiles, PlanAssumption DEF NoFile, Foreign
<1>6. MarksInTurn
  <2> SUFFICES ASSUME NEW o \in Ops
               PROVE  /\ markAt[Dst[o]] # NoFile =>
                            Dst[o] \in Dormant \/ \E b \in Ops : Src[b] = Dst[o] /\ Pending(b)
                      /\ \A b \in Ops : Src[b] = Dst[o] => markPart[b] = NoFile
    BY DEF MarksInTurn
  <2>1. markPart = [q \in Ops |-> NoFile]
    BY DEF Init
  <2>2. \A b \in Ops : Pending(b)
    BY <1>2 DEF Pending
  <2>3. Dst[o] \in Paths
    BY PlanAssumption
  <2>4. markAt[Dst[o]] # NoFile => Dst[o] \in Dormant \/ at[Dst[o]] \in Marked
    BY <2>3 DEF Init
  <2>5. at[Dst[o]] \in Marked => \E b \in Ops : Src[b] = Dst[o]
    BY <1>4, <2>3, PlanAssumption, PlanFiles
  <2> QED  BY <2>1, <2>2, <2>4, <2>5
<1>7. \A o \in Ops : ~Staged(o)
  BY <1>2 DEF Staged
<1> QED  BY <1>1, <1>3, <1>5, <1>6, <1>7 DEF CalmInv, InPasses

\* Every step keeps the invariant.
LEMMA CalmStep ==
    ASSUME RenameInv, RenameInv', ReviewInv, CalmInv, [Next]_vars
    PROVE  CalmInv'
<1>1. /\ crashes' \in Nat /\ faults' \in Nat
      /\ Calm' => /\ Calm /\ ~Fault /\ ~(\E p \in Paths : OutsideChange(p))
                  /\ crashes' = crashes \/ (Crash /\ crashes' = 1 /\ crashes = 0)
  BY CalmBefore DEF CalmInv
<1> SUFFICES ASSUME Calm'
             PROVE  /\ mode' \in {"closed", "recovering"} => crashes' = 1
                    /\ \A p \in Paths : at'[p] # Foreign
                    /\ \A o \in Ops : Staged(o)' /\ at'[Src[o]] = o =>
                          step' = "restored" /\ op' = o
                    /\ Fresh' \/ InPasses' => MarksInTurn'
                    /\ InPasses' => NoneSkipped'
                    /\ Fresh' /\ mode' = "idle" => index' = Src
                    /\ mode' = "executing" => Course' /\ IndexInTurn'
                    /\ mode' = "idle" =>
                          failed' = {} /\ \A o \in Journal!IncompleteItems' : Left(o)'
  BY <1>1 DEF CalmInv
<1>2. /\ ~Fault /\ ~(\E p \in Paths : OutsideChange(p))
      /\ crashes' = crashes \/ (Crash /\ crashes' = 1 /\ crashes = 0)
      /\ mode \in {"closed", "recovering"} => crashes = 1
      /\ \A p \in Paths : at[p] # Foreign
      /\ \A o \in Ops : Staged(o) /\ at[Src[o]] = o => step = "restored" /\ op = o
      /\ Fresh \/ InPasses => MarksInTurn
      /\ InPasses => NoneSkipped
      /\ Fresh /\ mode = "idle" => index = Src
      /\ mode = "executing" => Course /\ IndexInTurn
      /\ mode = "idle" => failed = {} /\ \A o \in Journal!IncompleteItems : Left(o)
      /\ destroyed = {} /\ outside = 0
  BY <1>1 DEF CalmInv, ReviewInv, Calm
<1>3. FileInv /\ ControlInv /\ op \in Ops
  BY AtTheRow DEF RenameInv
<1>4. CASE UNCHANGED vars
  <2>1. UNCHANGED <<items, at, part, markAt, markPart, index, mode, op, step, failed, crashes>>
    BY <1>4 DEF vars, disk, markers, journal, worker, environment
  <2>2. \A o \in Ops : Left(o)' <=> Left(o)
    BY <2>1 DEF Left, Ambiguous, SourceStatus, DestinationStatus, PartStatus, Status
  <2>3. Journal!IncompleteItems' = Journal!IncompleteItems /\ Journal!IncompleteItems \subseteq Ops
    BY <2>1 DEF Journal!IncompleteItems
  <2>4. /\ MarksInTurn' <=> MarksInTurn
        /\ IndexInTurn' <=> IndexInTurn
        /\ Fresh' <=> Fresh
        /\ \A o \in Ops : Staged(o)' <=> Staged(o)
    BY <2>1 DEF MarksInTurn, Pending, IndexInTurn, Listed, Fresh, Staged
  <2>5. Course' <=> Course
    BY <2>1 DEF Course, NotBegun, Aside, Finished, Over, Untouched
  <2>6. (InPasses' <=> InPasses) /\ (NoneSkipped' <=> NoneSkipped)
    BY <2>1 DEF InPasses, NoneSkipped
  <2> QED  BY <1>2, <2>1, <2>2, <2>3, <2>4, <2>5, <2>6
<1>5. CASE Next
  <2>1. \/ mode = "idle" /\ mode' = "executing" /\ BeginPlan
        \/ mode = "executing" /\ Pass
        \/ mode = "executing" /\ mode' = "executing" /\ InTurns
        \/ mode \in {"executing", "recovering"} /\ mode' = "idle" /\ Close
        \/ mode = "closed" /\ mode' = "recovering" /\ OpenProject
        \/ mode' = "closed" /\ Crash
        \/ /\ mode = "recovering" /\ mode' \in {"recovering", "closed"}
           /\ \/ Pass \/ Restore \/ Restored
              \/ \E o \in Ops : Recover(o)
    BY <1>2, <1>5, WhoActs
  <2>2. mode = "executing" /\ Pass => InCourse
    <3>1. Pass => step \notin {"turn", "close"}
      BY DEF Pass, Revalidate, Prepare, MoveOut, Stage, MoveIn, Confirm, Apply, Verify,
           CommitMetadata, Barrier, SyncIndex, Synced, Complete, Settle
    <3> QED  BY <1>2, <3>1 DEF InCourse, InPasses
  <2>3. mode' \in {"closed", "recovering"} => crashes' = 1
    <3>1. mode = "executing" /\ Pass => mode' = "executing"
      BY <2>2, CourseStep
    <3>2. mode = "recovering" => ~(Crash /\ crashes' = 1 /\ crashes = 0)
      BY <1>2
    <3>3. Crash => crashes' = crashes + 1
      BY DEF Crash
    <3>4. crashes \in Nat
      BY DEF CalmInv
    <3> QED  BY <1>2, <2>1, <3>1, <3>2, <3>3, <3>4
  <2>4. \A p \in Paths : at'[p] # Foreign
    BY <1>2, <1>3, OnlyOurFiles
  <2>5. ASSUME NEW o \in Ops, Staged(o)', at'[Src[o]] = o
        PROVE  step' = "restored" /\ op' = o
    <3>1. mode = "recovering" => ~Crash
      <4>1. Crash => crashes' = crashes + 1
        BY DEF Crash
      <4> QED  BY <1>2, <4>1
    <3>2. step = "stage" => part[op] = op
      <4>1. step = "stage" => mode = "executing"
        BY <1>3 DEF ControlInv, StepOfTheMode, InSteps
      <4> QED  BY <1>2, <4>1 DEF Course
    <3> QED  BY <1>2, <2>5, <3>1, <3>2, StagedStep
  <2>6. Fresh' => MarksInTurn' /\ (mode' = "idle" => index' = Src)
    BY <1>2, <1>5, FreshStep
  <2>7. mode' = "executing" => /\ Course' /\ IndexInTurn'
                               /\ InPasses' => MarksInTurn' /\ NoneSkipped'
    <3>1. CASE BeginPlan /\ mode = "idle"
      BY <1>2, <3>1, CourseBegins
    <3>2. CASE mode = "executing" /\ Pass
      BY <2>2, <3>2, CourseStep
    <3>3. CASE mode = "executing" /\ InTurns
      BY <1>2, <3>3, TurnsInCourse
    <3> QED  BY <2>1, <3>1, <3>2, <3>3
  <2>8. mode' = "idle" => failed' = {} /\ \A o \in Journal!IncompleteItems' : Left(o)'
    <3> SUFFICES ASSUME mode' = "idle"
                 PROVE  failed' = {} /\ \A o \in Journal!IncompleteItems' : Left(o)'
      OBVIOUS
    <3>1. Close /\ mode \in {"executing", "recovering"}
      <4>1. mode = "executing" /\ Pass => mode' = "executing"
        BY <2>2, CourseStep
      <4> QED  BY <2>1, <4>1
    <3>2. failed' = {} /\ UNCHANGED <<items, at, part>>
      BY <3>1 DEF Close, Journal!FinishBatch, disk
    <3>3. \A o \in Journal!IncompleteItems : Left(o)
      <4>1. CASE mode = "executing"
        <5>1. step = "close"
          BY <1>3, <3>1, <4>1 DEF Close, ControlInv, StepOfTheMode, InSteps
        <5> QED  BY <1>2, <4>1, <5>1, CourseIsLeft
      <4>2. CASE mode = "recovering"
        <5>1. \A o \in Journal!IncompleteItems : Decision(o) = "review"
          BY <1>2, <4>2, EndOfRecovery
        <5>2. step # "restored"
          BY <3>1 DEF Close
        <5>3. Journal!IncompleteItems \subseteq Ops
          BY DEF Journal!IncompleteItems
        <5> QED  BY <1>2, <5>1, <5>2, <5>3, ReviewIsLeft
      <4> QED  BY <3>1, <4>1, <4>2
    <3>4. /\ Journal!IncompleteItems' = Journal!IncompleteItems
          /\ Journal!IncompleteItems \subseteq Ops
      BY <3>2 DEF Journal!IncompleteItems
    <3>5. \A o \in Ops : Left(o)' <=> Left(o)
      BY <3>2 DEF Left, Ambiguous, SourceStatus, DestinationStatus, PartStatus, Status
    <3> QED  BY <3>2, <3>3, <3>4, <3>5
  <2>9. InPasses' => mode' = "executing"
    BY DEF InPasses
  <2> QED  BY <2>3, <2>4, <2>5, <2>6, <2>7, <2>8, <2>9
<1> QED  BY <1>4, <1>5

\* After one crash and nothing else, recovery leaves only rows it has no way to settle,
\* for a plan of any length and shape (recovery.rs: recover_rename; rename.rs: the passes).
THEOREM RecoveryAlwaysSettles == Spec => []RecoverySettles
<1>1. Init => RenameInv /\ ReviewInv /\ CalmInv
  BY RenameInit, CalmInit DEF Init, ReviewInv
<1>2. RenameInv /\ ReviewInv /\ CalmInv /\ [Next]_vars => (RenameInv /\ ReviewInv /\ CalmInv)'
  BY RenameStepInv, ReviewStep, CalmStep
<1>3. CalmInv => RecoverySettles
  BY DEF CalmInv, Calm, Left, RecoverySettles
<1> QED  BY <1>1, <1>2, <1>3, PTL DEF Spec

-----------------------------------------------------------------------------
(* Markers and index follow the file. *)

\* The plans that the two known flaws of the barrier spare: no marked file takes the
\* place of an unmarked one or leaves its place to one (commit.rs: marker_source would
\* take the other file's marker), and none without a marker goes where an old one lies.
Unmixed ==
    /\ \A o, q \in Ops : Src[q] = Dst[o] => (o \in Marked <=> q \in Marked)
    /\ \A o \in Ops : Dst[o] \in Dormant => o \in Marked

\* Where the marker of a file can be, each excluding the other two.
MarkAtSource(o) == markAt[Src[o]] = o /\ markPart[o] = NoFile /\ markAt[Dst[o]] # o
MarkHidden(o) == markPart[o] = o /\ markAt[Src[o]] # o /\ markAt[Dst[o]] # o
MarkArrived(o) == markAt[Dst[o]] = o /\ markPart[o] = NoFile /\ markAt[Src[o]] # o

\* Every marker is in one of the three places of its file, and nothing else is there.
MarksPlaced ==
    /\ markAt \in [Paths -> Files \cup {NoFile}] /\ markPart \in [Ops -> Files \cup {NoFile}]
    /\ \A p \in Paths : markAt[p] # NoFile =>
          \/ p \in Dormant /\ markAt[p] = Foreign
          \/ \E o \in Marked : markAt[p] = o /\ p \in {Src[o], Dst[o]}
    /\ \A o \in Marked : MarkAtSource(o) \/ MarkHidden(o) \/ MarkArrived(o)
    /\ \A o \in Ops \ Marked :
          markPart[o] = NoFile /\ markAt[Src[o]] = NoFile /\ markAt[Dst[o]] = NoFile

\* What stands in the way of op's marker: the marker of another file of the plan.
LEMMA InTheWay ==
    ASSUME Unmixed, MarksPlaced, op \in Marked, ~MarkArrived(op),
           NEW b \in Blockers(op), markPart[b] = NoFile
    PROVE  b \in Marked /\ Src[b] = Dst[op] /\ MarkAtSource(b)
<1>0. /\ op \in Ops /\ b \in Ops /\ b # op /\ Src[b] = Dst[op] /\ markAt[Src[b]] # NoFile
      /\ Src[b] \in Paths /\ Src[b] # Dst[b] /\ NoFile # b
  BY PlanAssumption, PlanFiles DEF Blockers
<1>1. b \in Marked
  BY <1>0 DEF Unmixed
<1>2. markAt[Src[b]] = b
  <2>1. Src[b] \notin Dormant
    BY <1>0, PlanAssumption
  <2>2. PICK o \in Marked : markAt[Src[b]] = o /\ Src[b] \in {Src[o], Dst[o]}
    BY <1>0, <2>1 DEF MarksPlaced
  <2>3. o \in Ops /\ (Src[b] = Src[o] => o = b) /\ (Src[b] = Dst[o] => o = op)
    BY <1>0, <2>2, PlanAssumption
  <2>4. o # op
    <3>1. markAt[Dst[op]] = op => MarkArrived(op)
      BY <1>0, PlanFiles DEF MarksPlaced, MarkAtSource, MarkHidden
    <3> QED  BY <1>0, <2>2, <3>1
  <2> QED  BY <2>2, <2>3, <2>4
<1> QED  BY <1>0, <1>1, <1>2 DEF MarksPlaced, MarkAtSource, MarkHidden, MarkArrived

\* What the barrier writes.
LEMMA MarkerWrite ==
    ASSUME CommitMetadata, ~MarkerCollision(op)
    PROVE  /\ markAt' = [p \in Paths |->
                  IF p = Dst[op] /\ Carried(op) # NoFile THEN Carried(op)
                  ELSE IF p \in Vacated(op) THEN NoFile ELSE markAt[p]]
           /\ markPart' = [o \in Ops |->
                  IF o \in Blockers(op) THEN markAt[Src[o]]
                  ELSE IF o = op /\ MarkerInPart(op) THEN NoFile ELSE markPart[o]]
           /\ step' = "barrier" /\ UNCHANGED <<items, op, mode, failed, todo>>
BY DEF CommitMetadata, Stay, journal

\* The barrier of an unmarked file, and a second one of a marker that has arrived, moves
\* no marker.
LEMMA NothingToMove ==
    ASSUME MarksPlaced, op \in Ops, CommitMetadata, ~MarkerCollision(op), Unmixed,
           \/ op \notin Marked
           \/ op \in Marked /\ MarkArrived(op) /\ \A b \in Blockers(op) : markPart[b] # NoFile
    PROVE  UNCHANGED <<markAt, markPart>>
<1>0. /\ Src[op] \in Paths /\ Dst[op] \in Paths /\ Src[op] # Dst[op] /\ op # NoFile
      /\ markPart[op] = NoFile /\ ~MarkerInPart(op) /\ Carried(op) = markAt[Src[op]]
  BY PlanAssumption, PlanFiles DEF MarksPlaced, MarkArrived, MarkerInPart, Carried
<1>1. Blockers(op) = {}
  <2>1. CASE op \notin Marked
    BY <2>1, PlanAssumption DEF MarksPlaced, Blockers
  <2>2. CASE op \in Marked
    BY <2>2 DEF MarkerCollision
  <2> QED  BY <2>1, <2>2
<1>2. Vacated(op) = {Src[op]}
  BY <1>0, <1>1 DEF Vacated
<1>3. Carried(op) = NoFile /\ markAt[Src[op]] = NoFile
  <2>1. CASE op \notin Marked
    BY <1>0, <2>1 DEF MarksPlaced
  <2>2. CASE op \in Marked
    BY <1>0, <1>2, <2>2 DEF MarkArrived, MarkerCollision
  <2> QED  BY <2>1, <2>2
<1>4. \A p \in Paths : markAt'[p] = markAt[p]
  BY <1>2, <1>3, MarkerWrite
<1>5. \A o \in Ops : markPart'[o] = markPart[o]
  BY <1>0, <1>1, MarkerWrite
<1>6. markAt' \in [Paths -> Files \cup {NoFile}] /\ markPart' \in [Ops -> Files \cup {NoFile}]
  <2>1. /\ markAt' = [p \in Paths |-> markAt'[p]] /\ markPart' = [o \in Ops |-> markPart'[o]]
    BY MarkerWrite
  <2> QED  BY <1>4, <1>5, <2>1 DEF MarksPlaced
<1> QED  BY <1>4, <1>5, <1>6 DEF MarksPlaced

\* The barrier takes the marker of a file to its destination, and the marker of the file
\* that has left that place under the hidden name of that file.
LEMMA MarkArrives ==
    ASSUME MarksPlaced, Unmixed, op \in Marked, ~MarkArrived(op), items[op].temporary,
           CommitMetadata, ~MarkerCollision(op)
    PROVE  /\ MarksPlaced' /\ MarkArrived(op)'
           /\ \A o \in Marked \ {op} : MarkArrived(o)' <=> MarkArrived(o)
<1>0. /\ op \in Ops /\ op # NoFile /\ op \in Files
      /\ \A o \in Ops : Src[o] \in Paths /\ Dst[o] \in Paths /\ Src[o] # Dst[o] /\ o # NoFile
      /\ \A o, q \in Ops : o # q => Src[o] # Src[q] /\ Dst[o] # Dst[q]
      /\ Marked \subseteq Ops /\ op' = op
  BY PlanAssumption, PlanFiles, MarkerWrite
<1>1. \A b \in Blockers(op) : /\ b \in Marked /\ b # op /\ Src[b] = Dst[op]
                              /\ MarkAtSource(b)
  BY InTheWay DEF MarkerCollision, Blockers
<1>2. Carried(op) = op /\ (MarkAtSource(op) <=> ~MarkerInPart(op))
      /\ (MarkHidden(op) <=> MarkerInPart(op))
  BY <1>0 DEF MarksPlaced, MarkAtSource, MarkHidden, Carried, MarkerInPart
<1>3. /\ Dst[op] \notin Vacated(op) => markAt[Dst[op]] = NoFile
      /\ \A p \in Vacated(op) : p = Dst[op] \/ (p = Src[op] /\ MarkAtSource(op))
      /\ MarkAtSource(op) => Src[op] \in Vacated(op)
  BY <1>0, <1>1, <1>2 DEF MarkerCollision, Vacated
<1>4. /\ markAt'[Dst[op]] = op
      /\ \A p \in Paths : p # Dst[op] =>
            markAt'[p] = IF p = Src[op] /\ MarkAtSource(op) THEN NoFile ELSE markAt[p]
  <2>1. markAt'[Dst[op]] = op
    BY <1>0, <1>2, MarkerWrite
  <2>2. ASSUME NEW p \in Paths, p # Dst[op]
        PROVE  markAt'[p] = IF p = Src[op] /\ MarkAtSource(op) THEN NoFile ELSE markAt[p]
    <3>1. markAt'[p] = IF p \in Vacated(op) THEN NoFile ELSE markAt[p]
      BY <2>2, MarkerWrite
    <3> QED  BY <1>3, <2>2, <3>1
  <2> QED  BY <2>1, <2>2
<1>5. /\ markPart'[op] = NoFile
      /\ \A b \in Blockers(op) : markPart'[b] = b
      /\ \A o \in Ops \ {op} : o \notin Blockers(op) => markPart'[o] = markPart[o]
  <2>1. op \notin Blockers(op)
    BY DEF Blockers
  <2>2. markPart'[op] = NoFile
    <3>1. markPart'[op] = IF MarkerInPart(op) THEN NoFile ELSE markPart[op]
      BY <1>0, <2>1, MarkerWrite
    <3> QED  BY <1>2, <3>1 DEF MarksPlaced, MarkHidden, MarkAtSource
  <2>3. ASSUME NEW b \in Blockers(op) PROVE markPart'[b] = b
    <3>1. b \in Ops /\ markAt[Src[b]] = b
      BY <1>0, <1>1 DEF MarkAtSource
    <3> QED  BY <3>1, MarkerWrite
  <2>4. ASSUME NEW o \in Ops \ {op}, o \notin Blockers(op) PROVE markPart'[o] = markPart[o]
    BY <2>4, MarkerWrite
  <2> QED  BY <2>2, <2>3, <2>4
<1>6. MarkArrived(op)'
  <2>1. markAt'[Src[op]] # op
    BY <1>0, <1>2, <1>4 DEF MarksPlaced, MarkHidden
  <2> QED  BY <1>0, <1>4, <1>5, <2>1 DEF MarkArrived
<1>7. ASSUME NEW o \in Marked, o # op
      PROVE  /\ MarkAtSource(o)' \/ MarkHidden(o)' \/ MarkArrived(o)'
             /\ MarkArrived(o)' <=> MarkArrived(o)
  <2>1. o \in Ops /\ o # NoFile /\ Dst[o] # Dst[op] /\ Src[o] # Src[op] /\ Src[o] # Dst[o]
        /\ Src[o] \in Paths /\ Dst[o] \in Paths
    BY <1>0, <1>7
  <2>2. Dst[o] = Src[op] /\ MarkAtSource(op) => markAt[Dst[o]] = op
    BY DEF MarkAtSource
  <2>3. markAt'[Dst[o]] = o <=> markAt[Dst[o]] = o
    BY <1>4, <1>7, <2>1, <2>2
  <2>4. CASE o \in Blockers(op)
    <3>1. MarkAtSource(o) /\ markPart'[o] = o /\ markAt'[Src[o]] # o
      BY <1>1, <1>4, <1>5, <1>7, <2>4
    <3> QED  BY <2>1, <2>3, <3>1 DEF MarkAtSource, MarkArrived, MarkHidden
  <2>5. CASE o \notin Blockers(op)
    <3>1. markPart'[o] = markPart[o]
      BY <1>5, <1>7, <2>1, <2>5
    <3>2. CASE Src[o] = Dst[op]
      <4>1. markAt[Src[o]] # o
        <5>1. \A b \in Blockers(op) : FALSE
          BY <1>0, <1>1, <2>1, <2>5, <3>2
        <5>2. Vacated(op) \subseteq {Src[op]}
          BY <5>1 DEF Vacated
        <5> QED  BY <1>0, <1>3, <2>1, <3>2, <5>2
      <4> QED  BY <1>4, <1>7, <2>3, <3>1, <3>2, <4>1 DEF MarksPlaced, MarkAtSource, MarkArrived, MarkHidden
    <3>3. CASE Src[o] # Dst[op]
      <4>1. markAt'[Src[o]] = markAt[Src[o]]
        BY <1>4, <2>1, <3>3
      <4> QED  BY <2>3, <3>1, <4>1 DEF MarksPlaced, MarkAtSource, MarkArrived, MarkHidden
    <3> QED  BY <3>2, <3>3
  <2> QED  BY <2>4, <2>5
<1>8. ASSUME NEW o \in Ops \ Marked
      PROVE  markPart'[o] = NoFile /\ markAt'[Src[o]] = NoFile /\ markAt'[Dst[o]] = NoFile
  <2>1. o # op /\ Src[o] # Dst[op] /\ Dst[o] # Dst[op] /\ o \notin Blockers(op)
    BY <1>0, <1>1 DEF Unmixed
  <2>2. markPart[o] = NoFile /\ markAt[Src[o]] = NoFile /\ markAt[Dst[o]] = NoFile
    BY DEF MarksPlaced
  <2> QED  BY <1>0, <1>4, <1>5, <2>1, <2>2
<1>9. \A p \in Paths : markAt'[p] # NoFile =>
         \/ p \in Dormant /\ markAt'[p] = Foreign
         \/ \E o \in Marked : markAt'[p] = o /\ p \in {Src[o], Dst[o]}
  BY <1>0, <1>4 DEF MarksPlaced
<1>10. markAt' \in [Paths -> Files \cup {NoFile}]
  <2>1. \A p \in Paths : markAt'[p] \in Files \cup {NoFile}
    BY <1>0, <1>4 DEF MarksPlaced
  <2>2. markAt' = [p \in Paths |-> markAt'[p]]
    BY MarkerWrite
  <2> QED  BY <2>1, <2>2
<1>11. markPart' \in [Ops -> Files \cup {NoFile}]
  <2>1. \A o \in Ops : markPart'[o] \in Files \cup {NoFile}
    BY <1>0, <1>5, PlanFiles DEF MarksPlaced
  <2>2. markPart' = [o \in Ops |-> markPart'[o]]
    BY MarkerWrite
  <2> QED  BY <2>1, <2>2
<1>12. \A o \in Marked : MarkAtSource(o)' \/ MarkHidden(o)' \/ MarkArrived(o)'
  BY <1>0, <1>6, <1>7
<1> QED  BY <1>6, <1>7, <1>8, <1>9, <1>10, <1>11, <1>12 DEF MarksPlaced

\* The writes that come after the metadata barrier.
MetadataSteps == {"barrier", "index", "synced", "complete"}

\* How the state of a row changes: before the barrier, by the worker after it, by the
\* result Failed or by a cancellation.
RowMove(o) ==
    \/ items'[o].state = items[o].state /\ items'[o].result = items[o].result
    \/ /\ items[o].state \in {"Absent", "Prepared", "Staged", "FsApplied"}
       /\ items'[o].state \in {"Prepared", "Staged", "FsApplied", "Verified"}
    \/ /\ op = o
       /\ <<step, items[o].state, items'[o].state>> \in
             {<<"barrier", "Verified", "MetaCommitted">>,
              <<"synced", "MetaCommitted", "IndexSynced">>,
              <<"complete", "IndexSynced", "Completed">>}
    \/ items[o].state \in Journal!LiveStates /\ items'[o].state = "Failed"
    \/ items[o].state \notin Journal!Terminal /\ Skipped(items'[o])

\* The journal writes of every step are such changes.
LEMMA RowMoves ==
    ASSUME RenameInv, [Next]_vars, NEW o \in Ops
    PROVE  RowMove(o)
<1>0. op \in Ops /\ RowInv /\ items[op] \in Journal!ItemRow
  BY AtTheRow
<1>1. CASE BeginPlan
  <2>1. items' = [q \in Ops |-> Journal!NewItem("Skip", "planned")] /\ items[o].state = "Absent"
    BY <1>1 DEF BeginPlan, Journal!BeginPlan
  <2> QED  BY <2>1 DEF Journal!NewItem, RowMove
<1>2. CASE Prepare
  <2>1. CASE Journal!RecordPreparedEvidence(op)
    <3>1. /\ OnlyRow(op) /\ items[op].state = "Prepared"
          /\ items'[op] = [items[op] EXCEPT !.temporary = TRUE, !.evidence = TRUE]
      BY <1>0, <2>1, EvidenceWrite
    <3>2. items'[op].state = "Prepared" /\ items'[op].result = items[op].result
      BY <1>0, <3>1 DEF Journal!ItemRow
    <3> QED  BY <1>0, <3>1, <3>2 DEF OnlyRow, RowMove
  <2>2. CASE UNCHANGED items
    BY <2>2 DEF RowMove
  <2> QED  BY <1>2, <2>1, <2>2 DEF Prepare, journal
<1>4. CASE Stage \/ Verify \/ Barrier \/ Synced
  <2>1. CASE Stage
    <3>1. /\ OnlyRow(op) /\ items[op].state = "Prepared"
          /\ items'[op] = [items[op] EXCEPT !.state = "Staged"]
      BY <1>0, <2>1, AdvanceWrite DEF Stage
    <3>2. items'[op].state = "Staged"
      BY <1>0, <3>1 DEF Journal!ItemRow
    <3> QED  BY <2>1, <3>1, <3>2 DEF Stage, OnlyRow, RowMove
  <2>2. CASE Verify
    <3>1. /\ OnlyRow(op) /\ items[op].state = "FsApplied"
          /\ items'[op] = [items[op] EXCEPT !.state = "Verified"]
      BY <1>0, <2>2, AdvanceWrite DEF Verify
    <3>2. items'[op].state = "Verified"
      BY <1>0, <3>1 DEF Journal!ItemRow
    <3> QED  BY <2>2, <3>1, <3>2 DEF Verify, OnlyRow, RowMove
  <2>3. CASE Barrier
    <3>1. /\ OnlyRow(op) /\ items[op].state = "Verified"
          /\ items'[op] = [items[op] EXCEPT !.state = "MetaCommitted"]
      BY <1>0, <2>3, AdvanceWrite DEF Barrier
    <3>2. items'[op].state = "MetaCommitted"
      BY <1>0, <3>1 DEF Journal!ItemRow
    <3> QED  BY <2>3, <3>1, <3>2 DEF Barrier, OnlyRow, RowMove
  <2>4. CASE Synced
    <3>1. /\ OnlyRow(op) /\ items[op].state = "MetaCommitted"
          /\ items'[op] = [items[op] EXCEPT !.state = "IndexSynced"]
      BY <1>0, <2>4, AdvanceWrite DEF Synced
    <3>2. items'[op].state = "IndexSynced"
      BY <1>0, <3>1 DEF Journal!ItemRow
    <3> QED  BY <2>4, <3>1, <3>2 DEF Synced, OnlyRow, RowMove
  <2> QED  BY <1>4, <2>1, <2>2, <2>3, <2>4
<1>5. CASE Apply
  <2>1. /\ OnlyRow(op) /\ items[op].state = "Staged"
        /\ items'[op] = [items[op] EXCEPT !.state = "FsApplied", !.evidence = TRUE]
    BY <1>0, <1>5, AppliedWrite DEF Apply
  <2>2. items'[op].state = "FsApplied"
    BY <1>0, <2>1 DEF Journal!ItemRow
  <2> QED  BY <2>1, <2>2 DEF OnlyRow, RowMove
<1>6. CASE Complete
  <2>1. Journal!CompleteItem(op, "IndexSynced") /\ step = "complete"
    BY <1>6 DEF Complete
  <2>2. OnlyRow(op) /\ items[op].state = "IndexSynced" /\ items'[op].state = "Completed"
    BY <1>0, <2>1, EndWrite
  <2> QED  BY <2>1, <2>2 DEF OnlyRow, RowMove
<1>7. ASSUME NEW q \in Ops, NEW expected, Journal!FailItem(q, expected, FALSE)
      PROVE  RowMove(o)
  <2>1. ~Journal!CompleteItem(q, expected)
    BY <1>0, <1>7 DEF Journal!CompleteItem, Journal!FailItem, Journal!FinishItem, RowInv,
         Journal!ItemRow
  <2>2. /\ OnlyRow(q) /\ items'[q].state = "Failed" /\ items[q] \in Journal!ItemRow
        /\ items[q].state \notin Journal!Terminal /\ items[q].state = expected
    BY <1>0, <1>7, <2>1, EndWrite DEF RowInv
  <2>3. items[q].state \in Journal!LiveStates
    BY <1>7, <2>2 DEF Journal!FailItem, Journal!CanTransition, Journal!LiveStates
  <2> QED  BY <2>2, <2>3 DEF OnlyRow, RowMove
<1>8. CASE Settle \/ Restored
  <2>1. \/ \E expected : Journal!FailItem(op, expected, FALSE)
        \/ UNCHANGED items
    BY <1>8 DEF Settle, Restored, journal
  <2> QED  BY <1>0, <1>7, <2>1 DEF RowMove
<1>9. CASE \E q \in Ops : Recover(q)
  <2>1. \/ \E q \in Ops : \E expected : Journal!FailItem(q, expected, FALSE)
        \/ UNCHANGED items
    BY <1>9 DEF Recover, journal
  <2> QED  BY <1>7, <2>1 DEF RowMove
<1>10. CASE \/ Revalidate \/ MoveOut \/ MoveIn \/ Confirm \/ CommitMetadata \/ SyncIndex
            \/ Restore \/ OpenProject \/ Fault \/ Crash \/ Close
            \/ (\E p \in Paths : OutsideChange(p)) \/ UNCHANGED vars
  <2>1. UNCHANGED items
    BY <1>10 DEF Revalidate, MoveOut, MoveIn, Confirm, CommitMetadata, SyncIndex, Restore,
         OpenProject, Fault, Crash, Close, Journal!FinishBatch, OutsideChange, journal, vars
  <2> QED  BY <2>1 DEF RowMove
<1>11. CASE InTurns
  <2>1. UNCHANGED items \/ \E expected : Journal!SkipItem(op, expected, FALSE)
    BY <1>11 DEF InTurns, NotStarted, Turn, Cancel, CancelInTurn, journal
  <2>2. ASSUME NEW expected, Journal!SkipItem(op, expected, FALSE) PROVE RowMove(o)
    <3>1. /\ OnlyRow(op) /\ items[op].state \notin Journal!Terminal
          /\ items'[op].state = "Completed" /\ items'[op].result = "skipped"
      BY <1>0, <2>2, SkipWrite
    <3> QED  BY <3>1 DEF OnlyRow, RowMove, Skipped
  <2>3. CASE UNCHANGED items
    BY <2>3 DEF RowMove
  <2> QED  BY <2>1, <2>2, <2>3
<1> QED  BY <1>1, <1>2, <1>4, <1>5, <1>6, <1>8, <1>9, <1>10, <1>11 DEF Next, Work, Execute, InTurns

\* The barrier is the only step that moves markers.
LEMMA MarkersStay ==
    ASSUME [Next]_vars
    PROVE  UNCHANGED <<markAt, markPart>> \/ (CommitMetadata /\ ~MarkerCollision(op))
<1>1. CASE CommitMetadata
  BY <1>1 DEF CommitMetadata, markers
<1>2. CASE ~CommitMetadata
  BY <1>2 DEF Next, Work, Execute, BeginPlan, Revalidate, Prepare, MoveOut, Stage, MoveIn,
       Confirm, Apply, Verify, Barrier, SyncIndex, Synced, Complete, Settle, NotStarted, Turn,
       Close, Cancel, CancelInTurn, Recover, Restore, Restored, OpenProject, Fault, Crash,
       OutsideChange, markers, vars
<1> QED  BY <1>1, <1>2

\* The write after the barrier is due only when the barrier has been passed.
LEMMA BarrierIsNext ==
    ASSUME RenameInv, [Next]_vars, ~Fault, ~(\E p \in Paths : OutsideChange(p)),
           step' = "barrier"
    PROVE  \/ CommitMetadata /\ ~MarkerCollision(op) /\ op' = op
           \/ UNCHANGED vars
<1>0. op \in Ops
  BY AtTheRow
<1>1. ASSUME NEW STATE lost, MoveOn(lost) PROVE FALSE
  <2>1. CASE mode = "executing"
    <3>1. step' = "turn" \/ \E p \in 1..4 : step' = Passes[p]
      BY <1>1, <2>1, NextStop
    <3> QED  BY <3>1 DEF Passes
  <2>2. CASE mode = "recovering"
    BY <1>1, <2>2 DEF MoveOn
  <2>3. CASE mode \notin {"executing", "recovering"}
    <3>1. LET stops == Stops(PassOf(step), op, lost)
          IN  step' = "turn" \/ (stops # {} /\ step' = Passes[Earliest(stops)[1]])
      BY <1>1, <2>3 DEF MoveOn
    <3>2. LET stops == Stops(PassOf(step), op, lost)
          IN  stops # {} => Earliest(stops)[1] \in 1..4
      BY EarliestIsAStop DEF Stops
    <3> QED  BY <3>1, <3>2 DEF Passes
  <2> QED  BY <2>1, <2>2, <2>3
<1>2. ~Fails
  BY <1>1 DEF Fails, Shutdown
<1>3. CASE CommitMetadata
  BY <1>2, <1>3 DEF CommitMetadata, Stay
<1>4. CASE \E o \in Ops : Recover(o)
  <2>1. PICK o \in Ops : Recover(o)
    BY <1>4
  <2>2. step' = "choose" \/ step' = Decision(o)
    BY <2>1 DEF Recover
  <2>3. Decision(o) # "barrier"
    BY DEF Decision, Journal!AppliedStates
  <2> QED  BY <2>2, <2>3
<1>5. CASE \/ Prepare \/ MoveOut \/ Stage \/ MoveIn \/ Confirm \/ Apply \/ Verify \/ Barrier
           \/ SyncIndex \/ Synced \/ Complete \/ Settle \/ Restore \/ Restored
  BY <1>1, <1>2, <1>5 DEF Prepare, MoveOut, Stage, MoveIn, Confirm, Apply, Verify, Barrier,
       SyncIndex, Synced, Complete, Settle, Restore, Restored, Stay
<1>6. CASE BeginPlan \/ Revalidate \/ Close \/ OpenProject \/ Crash \/ InTurns
  BY <1>6 DEF BeginPlan, Revalidate, Close, OpenProject, Crash, Shutdown, InTurns, NotStarted,
       Turn, Cancel, CancelInTurn, EndTurn, worker
<1> QED  BY <1>3, <1>4, <1>5, <1>6 DEF Next, Work, Execute, InTurns

\* The worker does not leave a row between the barrier and its result, unless it dies.
LEMMA BarrierIsFollowed ==
    ASSUME RenameInv, [Next]_vars, ~Fault, ~(\E p \in Paths : OutsideChange(p)),
           step \in MetadataSteps,
           mode' = "executing" => \A o \in Ops : o \in failed' => items'[o].state # "MetaCommitted"
    PROVE  \/ op' = op /\ step' \in MetadataSteps
           \/ Crash
           \/ items'[op].state = "Completed"
<1>0. op \in Ops /\ RowInv /\ ControlInv
  BY AtTheRow
<1>1. mode \in {"executing", "recovering"}
  BY <1>0 DEF ControlInv, StepOfTheMode, MetadataSteps
<1>2. CASE Barrier \/ Synced
  BY <1>2 DEF Barrier, Synced, Stay, MetadataSteps
<1>3. CASE SyncIndex
  <2>1. CASE Stay("synced")
    BY <2>1 DEF Stay, MetadataSteps
  <2>2. CASE ~Stay("synced")
    <3>1. mode = "executing" /\ Fails /\ UNCHANGED items /\ items[op].state = "MetaCommitted"
      BY <1>0, <1>1, <1>3, <2>2 DEF SyncIndex, journal, ControlInv, StepKnowsTheRow
    <3>2. mode' = "executing" /\ op \in failed'
      BY <3>1 DEF Fails, MoveOn
    <3> QED  BY <1>0, <3>1, <3>2
  <2> QED  BY <2>1, <2>2
<1>4. CASE Complete
  <2>1. items'[op].state = "Completed"
    BY <1>0, <1>4, EndWrite DEF Complete
  <2> QED  BY <2>1
<1>5. CASE UNCHANGED vars
  BY <1>5 DEF vars, worker
<1>6. CASE ~(Barrier \/ SyncIndex \/ Synced \/ Complete \/ Crash \/ UNCHANGED vars)
  BY <1>1, <1>6 DEF Next, Work, Execute, BeginPlan, Revalidate, Prepare, MoveOut, Stage, MoveIn,
       Confirm, Apply, Verify, CommitMetadata, Settle, NotStarted, Turn, Close, Cancel,
       CancelInTurn, Recover, Restore, Restored, OpenProject, MetadataSteps
<1> QED  BY <1>2, <1>3, <1>4, <1>5, <1>6

\* A file that has arrived is not failed.
LEMMA ArrivedDoesNotFail ==
    ASSUME RenameInv, RenameInv', destroyed = {}, destroyed' = {}, [Next]_vars,
           NEW o \in Ops, items[o].state \in Journal!AppliedStates
    PROVE  items'[o].state # "Failed"
<1> SUFFICES ASSUME items'[o].state = "Failed" PROVE FALSE
  OBVIOUS
<1>1. at[Dst[o]] = o /\ at'[Src[o]] = o
  BY DEF RenameInv, RowInv, StateFits, Skipped, Journal!AppliedStates
<1>2. ~UNCHANGED items
  BY DEF Journal!AppliedStates
<1>3. ~MoveOut /\ ~MoveIn /\ ~Restore /\ ~(\E p \in Paths : OutsideChange(p))
  BY <1>2 DEF MoveOut, MoveIn, Restore, OutsideChange, journal
<1>4. UNCHANGED at
  BY <1>3, QuietStep
<1> QED  BY <1>1, <1>4, OnePlace DEF RenameInv

\* A row that was left after its marker had moved; recovery will repeat what the row asks.
InDoubt(o) ==
    /\ MarkArrived(o) /\ items[o].state \in {"Verified", "MetaCommitted", "IndexSynced"}
    /\ ~(op = o /\ step \in MetadataSteps)

\* A row that has passed the barrier, unless a cancellation has ended it.
Arrived(o) == items[o].state \in {"MetaCommitted", "IndexSynced"} \/ items[o].result = "completed"

\* A row says where the marker of its file is, except at the barrier itself.
RowsTell ==
    \A o \in Marked :
        /\ Arrived(o) => MarkArrived(o)
        /\ step = "barrier" /\ op = o => MarkArrived(o)
        /\ MarkArrived(o) =>
              items[o].state \in {"Verified", "MetaCommitted", "IndexSynced", "Completed"}

\* A crash leaves at most one row in doubt, and an executor none.
OneInDoubt ==
    \A o \in Marked : InDoubt(o) =>
        /\ mode # "executing"
        /\ \A q \in Marked : InDoubt(q) => q = o

\* When nobody works, the index has what is completed at its new path.
IndexFollows ==
    mode = "idle" => \A o \in Ops : items[o].result = "completed" => index[o] = Dst[o]

\* Where markers and index are in a plan that at most one crash interrupts.
MetadataInv == Calm => MarksPlaced /\ RowsTell /\ OneInDoubt /\ IndexFollows

\* When a row in doubt is taken up again, whatever could be in the way of its marker has
\* its own marker under its hidden name: the barrier reports that and moves nothing.
LEMMA SecondBarrier ==
    ASSUME RenameInv, MarksPlaced, RowsTell, OneInDoubt, Unmixed, CommitMetadata,
           op \in Marked, MarkArrived(op), NEW b \in Blockers(op)
    PROVE  markPart[b] # NoFile
<1>0. /\ op \in Ops /\ b \in Ops /\ b # op /\ Src[b] = Dst[op] /\ op # NoFile
      /\ b \in Journal!IncompleteItems /\ items[op].state = "Verified" /\ step = "metadata"
      /\ Src[op] # Dst[op] /\ SoundRow(items[b])
  BY AtTheRow, PlanAssumption, PlanFiles
     DEF Blockers, CommitMetadata, ControlInv, StepKnowsTheRow, RowInv
<1>1. b \in Marked
  BY <1>0 DEF Unmixed
<1>2. InDoubt(op)
  BY <1>0 DEF InDoubt, MetadataSteps
<1>3. ~MarkAtSource(b)
  BY <1>0 DEF MarkAtSource, MarkArrived
<1>4. ~MarkArrived(b)
  <2> SUFFICES ASSUME MarkArrived(b) PROVE FALSE
    OBVIOUS
  <2>1. items[b].state \in {"Verified", "MetaCommitted", "IndexSynced", "Completed"}
    BY <1>1 DEF RowsTell
  <2>2. items[b].state # "Completed"
    BY <1>0 DEF Journal!IncompleteItems, Journal!Terminal, SoundRow
  <2>3. InDoubt(b)
    BY <1>0, <2>1, <2>2 DEF InDoubt
  <2> QED  BY <1>0, <1>1, <1>2, <2>3 DEF OneInDoubt
<1> QED  BY <1>0, <1>1, <1>3, <1>4, PlanFiles DEF MarksPlaced, MarkHidden

\* Every step keeps the markers in their places; only the barrier brings one to its
\* destination, that of its own file.
LEMMA MarksStep ==
    ASSUME RenameInv, MarksPlaced, RowsTell, OneInDoubt, Unmixed, [Next]_vars
    PROVE  /\ MarksPlaced'
           /\ \A o \in Marked :
                 \/ MarkArrived(o)' <=> MarkArrived(o)
                 \/ /\ o = op /\ op' = op /\ step' = "barrier" /\ MarkArrived(o)'
                    /\ items'[o].state = "Verified"
           /\ CommitMetadata /\ ~MarkerCollision(op) /\ op \in Marked => MarkArrived(op)'
<1>0. op \in Ops /\ RowInv /\ ControlInv /\ SoundRow(items[op])
  BY AtTheRow
<1>1. CASE UNCHANGED <<markAt, markPart>> /\ ~(CommitMetadata /\ ~MarkerCollision(op))
  BY <1>1 DEF MarksPlaced, MarkAtSource, MarkHidden, MarkArrived
<1>2. CASE CommitMetadata /\ ~MarkerCollision(op)
  <2>1. /\ items[op].state = "Verified" /\ items[op].temporary
        /\ op' = op /\ step' = "barrier" /\ UNCHANGED items
    BY <1>0, <1>2, MarkerWrite
       DEF CommitMetadata, ControlInv, StepKnowsTheRow, SoundRow, Journal!AppliedStates
  <2>2. CASE op \in Marked /\ ~MarkArrived(op)
    BY <1>2, <2>1, <2>2, MarkArrives
  <2>3. CASE ~(op \in Marked /\ ~MarkArrived(op))
    <3>1. UNCHANGED <<markAt, markPart>>
      BY <1>0, <1>2, <2>3, NothingToMove, SecondBarrier
    <3> QED  BY <2>1, <2>3, <3>1 DEF MarksPlaced, MarkAtSource, MarkHidden, MarkArrived
  <2> QED  BY <2>2, <2>3
<1> QED  BY <1>1, <1>2, MarkersStay

\* The rows keep telling where the markers are.
LEMMA RowsStep ==
    ASSUME RenameInv, RenameInv', destroyed = {}, destroyed' = {}, MarksPlaced, RowsTell,
           OneInDoubt, Unmixed, [Next]_vars, ~Fault, ~(\E p \in Paths : OutsideChange(p))
    PROVE  RowsTell'
<1> SUFFICES ASSUME NEW o \in Marked
             PROVE  /\ Arrived(o)' => MarkArrived(o)'
                    /\ step' = "barrier" /\ op' = o => MarkArrived(o)'
                    /\ MarkArrived(o)' => items'[o].state \in
                          {"Verified", "MetaCommitted", "IndexSynced", "Completed"}
  BY DEF RowsTell
<1>0. /\ o \in Ops /\ op \in Ops /\ RowMove(o)
      /\ Arrived(o) => MarkArrived(o)
      /\ step = "barrier" /\ op = o => MarkArrived(o)
      /\ MarkArrived(o) => items[o].state \in {"Verified", "MetaCommitted", "IndexSynced", "Completed"}
  BY AtTheRow, RowMoves, PlanAssumption DEF RowsTell
<1>1. \/ MarkArrived(o)' <=> MarkArrived(o)
      \/ MarkArrived(o)' /\ items'[o].state = "Verified"
  BY MarksStep
<1>2. Arrived(o)' => MarkArrived(o)'
  <2>0. SoundRow(items'[o])
    BY <1>0 DEF RenameInv, RowInv
  <2>1. Arrived(o)' => MarkArrived(o)
    BY <1>0, <2>0 DEF RowMove, Arrived, SoundRow, ResultOf, Skipped
  <2> QED  BY <1>1, <2>1
<1>3. step' = "barrier" /\ op' = o => MarkArrived(o)'
  <2> SUFFICES ASSUME step' = "barrier", op' = o PROVE MarkArrived(o)'
    OBVIOUS
  <2>1. CASE CommitMetadata /\ ~MarkerCollision(op) /\ op' = op
    <3>1. o = op /\ MarkArrived(op)'
      BY <2>1, MarksStep
    <3> QED  BY <2>1, <3>1 DEF MarkArrived
  <2>2. CASE UNCHANGED vars
    BY <1>0, <2>2 DEF vars, worker, markers, MarkArrived
  <2> QED  BY <2>1, <2>2, BarrierIsNext
<1>4. MarkArrived(o)' =>
         items'[o].state \in {"Verified", "MetaCommitted", "IndexSynced", "Completed"}
  <2> SUFFICES ASSUME MarkArrived(o)', MarkArrived(o)
               PROVE  items'[o].state \in {"Verified", "MetaCommitted", "IndexSynced", "Completed"}
    BY <1>1
  <2>1. items[o].state \in {"Verified", "MetaCommitted", "IndexSynced", "Completed"}
    BY <1>0
  <2>2. items[o].state = "Completed" => items'[o].state = "Completed"
    BY <1>0 DEF RowMove, Skipped, Journal!LiveStates
  <2>3. items[o].state # "Completed" => items'[o].state # "Failed"
    BY <1>0, <2>1, ArrivedDoesNotFail DEF Journal!AppliedStates
  <2> QED  BY <1>0, <2>1, <2>2, <2>3 DEF RowMove, Skipped
<1> QED  BY <1>2, <1>3, <1>4

\* Only a crash puts a row in doubt, and then there is no other.
LEMMA DoubtStep ==
    ASSUME RenameInv, RenameInv', CalmInv, CalmInv', Calm, Calm', MarksPlaced, RowsTell,
           OneInDoubt, Unmixed, [Next]_vars, ~Fault, ~(\E p \in Paths : OutsideChange(p)),
           crashes' = crashes \/ (Crash /\ crashes' = 1 /\ crashes = 0)
    PROVE  OneInDoubt'
<1>0. op \in Ops /\ ControlInv /\ Marked \subseteq Ops
  BY AtTheRow, PlanAssumption
<1>1. mode' = "executing" => \A o \in Ops : o \in failed' => items'[o].state # "MetaCommitted"
  <2> SUFFICES ASSUME mode' = "executing", NEW o \in Ops, o \in failed'
               PROVE  items'[o].state # "MetaCommitted"
    OBVIOUS
  <2>1. Course'
    BY DEF CalmInv
  <2>2. items'[o].state = "Verified" \/ Over(o)'
    BY <2>1 DEF Course
  <2> QED  BY <2>2 DEF Over, Untouched
<1>2. Crash => mode \in {"executing", "idle"} /\ mode' = "closed"
  BY <1>0 DEF Crash, Shutdown, CalmInv, ControlInv, StepOfTheMode
<1>3. ASSUME NEW o \in Marked, InDoubt(o)'
      PROVE  InDoubt(o) \/ (Crash /\ op = o /\ step \in MetadataSteps)
  <2>1. /\ MarkArrived(o)' /\ items'[o].state \in {"Verified", "MetaCommitted", "IndexSynced"}
        /\ ~(op' = o /\ step' \in MetadataSteps)
    BY <1>3 DEF InDoubt
  <2>2. MarkArrived(o)
    BY <2>1, MarksStep DEF MetadataSteps
  <2>3. items[o].state \in {"Verified", "MetaCommitted", "IndexSynced"}
    <3>1. RowMove(o)
      BY <1>0, RowMoves
    <3>2. items[o].state \in {"Verified", "MetaCommitted", "IndexSynced", "Completed"}
      BY <2>2 DEF RowsTell
    <3> QED  BY <2>1, <3>1, <3>2 DEF RowMove, Skipped
  <2>4. CASE op = o /\ step \in MetadataSteps
    BY <1>1, <2>1, <2>4, BarrierIsFollowed
  <2>5. CASE ~(op = o /\ step \in MetadataSteps)
    BY <2>2, <2>3, <2>5 DEF InDoubt
  <2> QED  BY <2>4, <2>5
<1>4. ASSUME NEW o \in Marked, InDoubt(o)' PROVE mode' # "executing"
  <2> SUFFICES ASSUME mode' = "executing" PROVE FALSE
    OBVIOUS
  <2>1. InDoubt(o) /\ mode # "executing"
    BY <1>2, <1>3, <1>4 DEF OneInDoubt
  <2>2. BeginPlan
    <3>1. ~UNCHANGED vars
      BY <2>1 DEF vars, worker
    <3> QED  BY <2>1, <3>1, WhoActs
  <2>3. items'[o].state = "Prepared"
    BY <1>0, <2>2 DEF BeginPlan, Journal!BeginPlan, Journal!NewItem
  <2> QED  BY <1>4, <2>3 DEF InDoubt
<1>5. ASSUME NEW o \in Marked, NEW q \in Marked, InDoubt(o)', InDoubt(q)' PROVE q = o
  <2>1. CASE InDoubt(o) /\ InDoubt(q)
    BY <2>1 DEF OneInDoubt
  <2>2. CASE Crash /\ step \in MetadataSteps
    <3>1. mode = "executing"
      BY <1>0, <1>2, <2>2 DEF ControlInv, StepOfTheMode, MetadataSteps
    <3>2. ~InDoubt(o) /\ ~InDoubt(q)
      BY <3>1 DEF OneInDoubt
    <3> QED  BY <1>3, <1>5, <3>2
  <2> QED  BY <1>3, <1>5, <2>1, <2>2
<1> QED  BY <1>4, <1>5 DEF OneInDoubt

\* When the batch ends the index has every renamed file at its new path: the executor has
\* synchronised it row by row, and after a recovery the scan fills it from the folder.
LEMMA IndexStep ==
    ASSUME RenameInv, RenameInv', CalmInv, Calm, destroyed = {}, IndexFollows,
           [Next]_vars, ~Fault, ~(\E p \in Paths : OutsideChange(p))
    PROVE  IndexFollows'
<1>0. /\ FileInv /\ RowInv
      /\ \A o \in Ops : Src[o] \in Paths /\ Dst[o] \in Paths /\ Src[o] # Dst[o]
  BY PlanAssumption DEF RenameInv
<1>1. CASE UNCHANGED vars
  BY <1>1 DEF IndexFollows, vars, worker, journal
<1>2. CASE Close
  <2>1. /\ UNCHANGED items /\ mode \in {"executing", "recovering"}
        /\ index' = IF mode = "executing" THEN index
                    ELSE [o \in Ops |-> IF \E p \in Paths : at[p] = o
                                        THEN CHOOSE p \in Paths : at[p] = o ELSE "gone"]
    <3>1. mode \in {"executing", "recovering"}
      BY <1>2 DEF Close, RenameInv, ControlInv, StepOfTheMode, InSteps
    <3> QED  BY <1>2, <3>1 DEF Close, Journal!FinishBatch
  <2>2. ASSUME NEW o \in Ops, items[o].result = "completed" PROVE index'[o] = Dst[o]
    <3>0. items[o].state = "Completed" /\ ~Skipped(items[o])
      BY <1>0, <2>2 DEF RowInv, SoundRow, ResultOf, Skipped
    <3>1. CASE mode = "executing"
      <4>1. IndexInTurn
        BY <3>1 DEF CalmInv
      <4> QED  BY <2>1, <3>0, <3>1, <4>1 DEF IndexInTurn, Listed
    <3>2. CASE mode = "recovering"
      <4>1. at[Dst[o]] = o
        BY <1>0, <3>0 DEF RowInv, StateFits
      <4>2. PathsOf(o) \in {{Src[o]}, {Dst[o]}} /\ Dst[o] \in PathsOf(o)
        BY <1>0, <4>1 DEF FileInv, NoFileLost, PathsOf
      <4>3. PathsOf(o) = {Dst[o]}
        BY <1>0, <4>2
      <4>4. \A p \in Paths : at[p] = o <=> p = Dst[o]
        BY <1>0, <4>3 DEF PathsOf
      <4>5. (CHOOSE p \in Paths : at[p] = o) = Dst[o]
        BY <1>0, <4>4
      <4> QED  BY <1>0, <2>1, <3>2, <4>1, <4>5
    <3> QED  BY <2>1, <3>1, <3>2
  <2> QED  BY <2>1, <2>2 DEF IndexFollows
<1>3. CASE Next /\ ~Close
  <2>1. mode' # "idle"
    <3>1. CASE mode = "executing" /\ Pass
      <4>1. /\ Fails => mode' = "executing"
            /\ \A next : Stay(next) => mode' = mode
            /\ MoveOn(failed) => mode' = mode
        BY <3>1 DEF Fails, Stay, MoveOn
      <4> QED  BY <3>1, <4>1 DEF Pass, Revalidate, Prepare, MoveOut, Stage, MoveIn, Confirm,
                 Apply, Verify, CommitMetadata, Barrier, SyncIndex, Synced, Complete, Settle
    <3> QED  BY <1>3, <3>1, WhoActs
  <2> QED  BY <2>1 DEF IndexFollows
<1> QED  BY <1>1, <1>2, <1>3

\* Before the plan every marker lies with its file.
LEMMA MetadataInit == Unmixed /\ Init => MetadataInv
<1> SUFFICES ASSUME Unmixed, Init PROVE MetadataInv
  OBVIOUS
<1>0. /\ \A o \in Ops : Src[o] \in Paths /\ Dst[o] \in Paths /\ Src[o] # Dst[o]
      /\ \A o, q \in Ops : o # q => Src[o] # Src[q] /\ Dst[o] # Dst[q]
      /\ Marked \subseteq Ops /\ \A o \in Ops : Src[o] \notin Dormant
      /\ \A o \in Ops : o \in Files /\ o # NoFile
  BY PlanAssumption, PlanFiles
<1>1. /\ \A o \in Ops : items[o].state = "Absent"
      /\ markPart = [o \in Ops |-> NoFile]
      /\ markAt = [p \in Paths |-> IF at[p] \in Marked THEN at[p]
                                   ELSE IF p \in Dormant THEN Foreign ELSE NoFile]
      /\ \A o \in Ops : at[Src[o]] = o
      /\ \A p \in Paths : at[p] = NoFile \/ (at[p] \in Ops /\ Src[at[p]] = p)
  BY <1>0 DEF Init, Journal!Init, Journal!NewItem
<1>2. \A o \in Marked : MarkAtSource(o)
  <2>1. ASSUME NEW o \in Marked PROVE markAt[Src[o]] = o /\ markAt[Dst[o]] # o
    <3>1. at[Src[o]] = o /\ at[Dst[o]] # o
      BY <1>0, <1>1
    <3>2. o # Foreign
      BY <1>0, PlanFiles
    <3> QED  BY <1>0, <1>1, <3>1, <3>2
  <2> QED  BY <1>0, <1>1, <2>1 DEF MarkAtSource
<1>3. \A o \in Ops \ Marked :
          markPart[o] = NoFile /\ markAt[Src[o]] = NoFile /\ markAt[Dst[o]] = NoFile
  <2>1. ASSUME NEW o \in Ops \ Marked PROVE markAt[Src[o]] = NoFile /\ markAt[Dst[o]] = NoFile
    <3>1. Dst[o] \notin Dormant /\ Src[o] \notin Dormant
      BY <1>0 DEF Unmixed
    <3>2. at[Dst[o]] \notin Marked
      <4>1. \A q \in Ops : Src[q] = Dst[o] => q \notin Marked
        BY DEF Unmixed
      <4> QED  BY <1>0, <1>1, <4>1
    <3> QED  BY <1>0, <1>1, <3>1, <3>2
  <2> QED  BY <1>1, <2>1
<1>4. MarksPlaced
  <2>1. markAt \in [Paths -> Files \cup {NoFile}]
    <3>1. Foreign \in Files
      BY PlanAssumption DEF Foreign, Files
    <3> QED  BY <1>0, <1>1, <3>1
  <2>2. markPart \in [Ops -> Files \cup {NoFile}]
    BY <1>1
  <2>3. \A p \in Paths : markAt[p] # NoFile =>
            \/ p \in Dormant /\ markAt[p] = Foreign
            \/ \E o \in Marked : markAt[p] = o /\ p \in {Src[o], Dst[o]}
    BY <1>0, <1>1
  <2> QED  BY <1>2, <1>3, <2>1, <2>2, <2>3 DEF MarksPlaced
<1>5. \A o \in Marked : ~MarkArrived(o)
  BY <1>2 DEF MarkAtSource, MarkArrived
<1>6. \A o \in Marked : o \in Ops /\ items[o].state = "Absent" /\ step = "none"
  BY <1>0, <1>1 DEF Init
<1>a. \A o \in Ops : items[o].result = "none"
  BY DEF Init, Journal!Init, Journal!NewItem
<1>7. RowsTell
  BY <1>5, <1>6, <1>a DEF RowsTell, Arrived
<1>8. OneInDoubt /\ IndexFollows
  BY <1>1, <1>5, <1>a DEF OneInDoubt, InDoubt, IndexFollows
<1> QED  BY <1>4, <1>7, <1>8 DEF MetadataInv

\* Every step keeps markers, rows and index together.
LEMMA MetadataStep ==
    ASSUME RenameInv, RenameInv', ReviewInv, ReviewInv', CalmInv, CalmInv', MetadataInv,
           Unmixed, [Next]_vars
    PROVE  MetadataInv'
<1> SUFFICES ASSUME Calm' PROVE MarksPlaced' /\ RowsTell' /\ OneInDoubt' /\ IndexFollows'
  BY DEF MetadataInv
<1>1. /\ Calm /\ ~Fault /\ ~(\E p \in Paths : OutsideChange(p))
      /\ crashes' = crashes \/ (Crash /\ crashes' = 1 /\ crashes = 0)
  BY CalmBefore DEF CalmInv
<1>2. destroyed = {} /\ destroyed' = {}
  BY <1>1 DEF Calm, ReviewInv
<1>3. MarksPlaced /\ RowsTell /\ OneInDoubt /\ IndexFollows
  BY <1>1 DEF MetadataInv
<1>4. MarksPlaced'
  BY <1>3, MarksStep
<1>5. RowsTell'
  BY <1>1, <1>2, <1>3, RowsStep
<1>6. OneInDoubt'
  BY <1>1, <1>3, DoubtStep
<1>7. IndexFollows'
  BY <1>1, <1>2, <1>3, IndexStep
<1> QED  BY <1>4, <1>5, <1>6, <1>7

\* In an unmixed plan that at most one crash interrupts, markers and index follow every
\* file, whatever the order in which recovery takes the rows (commit.rs, markers.rs).
THEOREM MetadataAlwaysFollows ==
    ASSUME Unmixed
    PROVE  Spec => [](Calm => MetadataFollowsFile)
<1>1. Init => RenameInv /\ ReviewInv /\ CalmInv /\ MetadataInv
  BY RenameInit, CalmInit, MetadataInit DEF Init, ReviewInv
<1>2. RenameInv /\ ReviewInv /\ CalmInv /\ MetadataInv /\ [Next]_vars
      => (RenameInv /\ ReviewInv /\ CalmInv /\ MetadataInv)'
  BY RenameStepInv, ReviewStep, CalmStep, MetadataStep
<1>3. RenameInv /\ MetadataInv => (Calm => MetadataFollowsFile)
  <2> SUFFICES ASSUME RenameInv, MetadataInv, Calm PROVE MetadataFollowsFile
    OBVIOUS
  <2>0. MarksPlaced /\ RowsTell /\ IndexFollows
    BY DEF MetadataInv
  <2>1. MarkerFollowsFile
    BY <2>0 DEF MarkerFollowsFile, MarksPlaced, RowsTell, Arrived, MarkArrived
  <2> QED  BY <2>0, <2>1 DEF MetadataFollowsFile, IndexFollows
<1> QED  BY <1>1, <1>2, <1>3, PTL DEF Spec

-----------------------------------------------------------------------------
(* The transaction implements FileRelocation. *)

Places == [o \in Ops |-> PlaceOf(o)]
Reports == [o \in Ops |-> items[o].result]

RelocationStep == [Relocation!Next]_<<Places, Reports, failed>>

\* The batch meets an error or forgets about them.
Stopped(lost) == lost = {} \/ \E group \in SUBSET Ops : lost = failed \cup group

\* A write to an unreported row is a report of where the file is, or nothing to see.
LEMMA ReportStep ==
    ASSUME RenameInv, RenameInv', NEW o \in Ops, OnlyRow(o),
           UNCHANGED <<at, part, destroyed, failed>>, items[o].state \notin Journal!Terminal,
           Skipped(items'[o]) => PlaceOf(o) \in {"source", "overwritten"} \/ o \in failed
    PROVE  RelocationStep
<1>1. Places' = Places
  BY DEF Places, PlaceOf
<1>2. items[o].result = "none"
  BY DEF RenameInv, RowInv, SoundRow, ResultOf, Skipped, Journal!Terminal
<1>3. \A q \in Ops \ {o} : items'[q].result = items[q].result
  BY DEF OnlyRow
<1>4. Reports' = [Reports EXCEPT ![o] = items'[o].result]
  BY <1>3 DEF Reports
<1>5. items'[o].result = ResultOf(items'[o].state) \/ Skipped(items'[o])
  BY DEF RenameInv, RowInv, SoundRow
<1>6. CASE items'[o].result = "none"
  <2>1. Reports' = Reports
    BY <1>2, <1>4, <1>6 DEF Reports
  <2> QED  BY <1>1, <2>1 DEF RelocationStep
<1>7. CASE Skipped(items'[o])
  <2>1. items'[o].result = "skipped" /\ Places[o] = PlaceOf(o) /\ Reports[o] = "none"
    BY <1>2, <1>7 DEF Skipped, Places, Reports
  <2>2. "skipped" \in Relocation!Outcomes(o)
    BY <1>7, <2>1 DEF Relocation!Outcomes, Places
  <2>3. Relocation!Report(o)
    BY <1>1, <1>4, <2>1, <2>2 DEF Relocation!Report, Places, Reports
  <2> QED  BY <2>3 DEF RelocationStep, Relocation!Next
<1>8. CASE items'[o].result # "none" /\ ~Skipped(items'[o])
  <2>1. \/ items'[o].result = "completed" /\ items'[o].state = "Completed"
        \/ items'[o].result = "failed" /\ items'[o].state = "Failed"
    BY <1>5, <1>8 DEF ResultOf
  <2>2. part[o] # NoFile => FALSE
    BY <1>8, <2>1 DEF RenameInv, RowInv, OpenRow
  <2>3. o \notin destroyed => StateFits(o, items[o].state)'
    BY <1>8 DEF RenameInv, RowInv
  <2>4. o \notin destroyed => /\ items'[o].state = "Completed" => at[Dst[o]] = o
                              /\ items'[o].state = "Failed" => at[Src[o]] = o
    BY <2>1, <2>3 DEF StateFits, Journal!AppliedStates
  <2>5. o \notin destroyed /\ items'[o].state = "Failed" => at[Dst[o]] # o
    BY <2>4, OnePlace DEF RenameInv
  <2>6. PlaceOf(o) = IF o \in destroyed THEN "overwritten"
                     ELSE IF items'[o].state = "Completed" THEN "destination" ELSE "source"
    BY <2>1, <2>2, <2>4, <2>5, PlanFiles DEF PlaceOf
  <2>7. Places[o] = PlaceOf(o) /\ Reports[o] = "none"
    BY <1>2 DEF Places, Reports
  <2>8. items'[o].result \in Relocation!Outcomes(o)
    BY <2>1, <2>6, <2>7 DEF Relocation!Outcomes, Places
  <2>9. Relocation!Report(o)
    BY <1>1, <1>4, <2>7, <2>8 DEF Relocation!Report, Places, Reports
  <2> QED  BY <2>9 DEF RelocationStep, Relocation!Next
<1> QED  BY <1>6, <1>7, <1>8

\* A step that leaves disk and results alone is an error or nothing to see.
LEMMA NothingToSee ==
    ASSUME UNCHANGED <<at, part, destroyed>>, \A o \in Ops : items'[o].result = items[o].result,
           Stopped(failed')
    PROVE  RelocationStep
<1>1. Places' = Places
  BY DEF Places, PlaceOf
<1>2. Reports' = Reports
  BY DEF Reports
<1>3. Relocation!Forget \/ \E group \in SUBSET Ops : Relocation!Stop(group)
  BY <1>1, <1>2 DEF Relocation!Forget, Relocation!Stop, Stopped, Places, Reports
<1> QED  BY <1>3 DEF RelocationStep, Relocation!Next

\* What every step does to the operations the batch met an error with.
LEMMA EveryStepStops ==
    ASSUME RenameInv, failed \subseteq Ops, [Next]_vars
    PROVE  Stopped(failed') /\ failed' \subseteq Ops
<1>0. op \in Ops
  BY AtTheRow
<1>1. failed' = failed => Stopped(failed') /\ failed' \subseteq Ops
  BY DEF Stopped
<1>2. failed' = failed \cup {op} => Stopped(failed') /\ failed' \subseteq Ops
  BY <1>0 DEF Stopped
<1>3. failed' = {} => Stopped(failed') /\ failed' \subseteq Ops
  BY DEF Stopped
<1>4. failed' = Ops => Stopped(failed') /\ failed' \subseteq Ops
  <2>1. Ops = failed \cup Ops
    OBVIOUS
  <2> QED  BY <2>1 DEF Stopped
<1>5. /\ \A next : Stay(next) => failed' = failed
      /\ MoveOn(failed) => failed' = failed
      /\ Fails => failed' = {} \/ failed' = failed \cup {op}
  BY DEF Stay, MoveOn, Fails, Shutdown
<1>6. CASE Pass
  BY <1>1, <1>2, <1>3, <1>4, <1>5, <1>6
     DEF Pass, Revalidate, Prepare, MoveOut, Stage, MoveIn, Confirm, Apply, Verify,
         CommitMetadata, Barrier, SyncIndex, Synced, Complete, Settle
<1>7. CASE InTurns \/ Close \/ Restore \/ Restored \/ (\E o \in Ops : Recover(o))
  BY <1>1, <1>2, <1>3, <1>5, <1>7
     DEF InTurns, NotStarted, Turn, Cancel, CancelInTurn, EndTurn, worker, Close, Restore,
         Restored, Recover
<1>8. CASE \/ BeginPlan \/ OpenProject \/ Fault \/ Crash
           \/ (\E p \in Paths : OutsideChange(p)) \/ UNCHANGED vars
  BY <1>1, <1>2, <1>3, <1>5, <1>8
     DEF BeginPlan, OpenProject, Fault, Crash, Shutdown, OutsideChange, vars, worker
<1> QED  BY <1>6, <1>7, <1>8 DEF Next, Work, Execute, Pass, InTurns

\* A refused rename is nothing to see; one that happens changes the place of its file.
LEMMA RenameIsMove ==
    ASSUME RenameInv, failed \subseteq Ops, [Next]_vars, MoveOut \/ MoveIn \/ Restore
    PROVE  RelocationStep
<1>0. op \in Ops /\ RowInv /\ FileInv /\ UNCHANGED <<items, destroyed>>
  BY AtTheRow DEF RenameInv, MoveOut, MoveIn, Restore, journal, environment
<1>1. CASE UNCHANGED disk
  BY <1>0, <1>1, EveryStepStops, NothingToSee DEF disk
<1>2. PICK o \in Ops : o = op
  BY <1>0
<1>3. Src[o] \in Paths /\ Dst[o] \in Paths /\ Src[o] # Dst[o] /\ \A q \in Ops : q # NoFile
  BY PlanAssumption, PlanFiles
<1>8. ~UNCHANGED disk => failed' = failed
  BY DEF MoveOut, MoveIn, Restore, Stay
<1>4. Reports' = Reports
  BY <1>0 DEF Reports
<1>5. ASSUME NEW place, OpenRow(items[o]), o \notin destroyed,
             PlaceOf(o)' = place,
             \A q \in Ops \ {o} : part'[q] = part[q] /\ \A p \in Paths : at'[p] = q <=> at[p] = q
      PROVE  Places' = [Places EXCEPT ![o] = place] /\ Reports[o] = "none"
  <2>1. OpenRow(items[o]) /\ SoundRow(items[o])
    BY <1>0, <1>5 DEF RowInv
  <2>2. Reports[o] = "none"
    BY <2>1 DEF OpenRow, SoundRow, ResultOf, Skipped, Reports
  <2>3. ASSUME NEW q \in Ops, q # o PROVE PlaceOf(q)' = PlaceOf(q)
    <3>1. Dst[q] \in Paths
      BY PlanAssumption
    <3>2. part'[q] = part[q] /\ (at'[Dst[q]] = q <=> at[Dst[q]] = q)
      BY <1>5, <2>3, <3>1
    <3> QED  BY <1>0, <3>2 DEF PlaceOf
  <2>4. Places' = [q \in Ops |-> IF q = o THEN place ELSE PlaceOf(q)]
    BY <1>5, <2>3 DEF Places
  <2> QED  BY <2>2, <2>4 DEF Places
<1>6. CASE MoveOut /\ ~UNCHANGED disk
  <2>1. /\ at' = [at EXCEPT ![Src[o]] = NoFile] /\ part' = [part EXCEPT ![o] = o]
        /\ at[Src[o]] = o /\ part[o] = NoFile
    BY <1>2, <1>6 DEF MoveOut
  <2>2. OpenRow(items[o])
    BY <1>2, <1>6, AtTheRow DEF MoveOut, ControlInv, StepKnowsTheRow, Ready, OpenRow
  <2>3. o \notin destroyed
    BY <1>0, <1>3, <2>1 DEF FileInv, DestroyedAreGone, PathsOf
  <2>4. PlaceOf(o) = "source"
    BY <1>0, <1>3, <2>1, <2>3, OnePlace DEF PlaceOf
  <2>5. PlaceOf(o)' = "hidden"
    BY <1>0, <2>1, <2>3 DEF PlaceOf, FileInv, FileTypes
  <2>6. \A q \in Ops \ {o} : part'[q] = part[q] /\ \A p \in Paths : at'[p] = q <=> at[p] = q
    BY <1>0, <1>3, <2>1 DEF FileInv, FileTypes
  <2>7. Places' = [Places EXCEPT ![o] = "hidden"] /\ Reports[o] = "none"
    BY <1>5, <2>2, <2>3, <2>5, <2>6
  <2>8. Relocation!Hide(o)
    BY <1>4, <1>6, <1>8, <2>4, <2>7 DEF Relocation!Hide, Places, Reports
  <2> QED  BY <2>8 DEF RelocationStep, Relocation!Next
<1>7. CASE (MoveIn \/ Restore) /\ ~UNCHANGED disk
  <2>1. PICK path \in {Src[o], Dst[o]} :
          /\ at[path] = NoFile /\ part[o] # NoFile
          /\ at' = [at EXCEPT ![path] = part[o]] /\ part' = [part EXCEPT ![o] = NoFile]
    BY <1>2, <1>7 DEF MoveIn, Restore
  <2>2. part[o] = o /\ o \notin destroyed /\ path \in Paths
    BY <1>0, <1>2, <1>3, <2>1, AtTheRow, DestroyedNotHidden
  <2>3. PlaceOf(o) = "hidden"
    BY <2>2 DEF PlaceOf
  <2>4. at[Dst[o]] # o /\ OpenRow(items[o])
    <3>1. items[o].state # "Completed"
      BY <1>2, <1>7, AtTheRow
         DEF MoveIn, Restore, ControlInv, StepKnowsTheRow, Staged, Journal!Terminal
    <3> QED  BY <1>0, <1>2, <2>1, <2>2, <3>1, AtTheRow, OnePlace
  <2>5. PlaceOf(o)' = IF path = Dst[o] THEN "destination" ELSE "source"
    BY <1>0, <1>3, <2>1, <2>2, <2>4 DEF PlaceOf, FileInv, FileTypes
  <2>6. \A q \in Ops \ {o} : part'[q] = part[q] /\ \A p \in Paths : at'[p] = q <=> at[p] = q
    BY <1>0, <1>3, <2>1, <2>2 DEF FileInv, FileTypes
  <2>7. /\ Places' = [Places EXCEPT ![o] = IF path = Dst[o] THEN "destination" ELSE "source"]
        /\ Reports[o] = "none"
    BY <1>5, <2>1, <2>2, <2>4, <2>5, <2>6
  <2>8. Relocation!Place(o) \/ Relocation!Restore(o)
    BY <1>4, <1>7, <1>8, <2>3, <2>7 DEF Relocation!Place, Relocation!Restore, Places, Reports
  <2> QED  BY <2>8 DEF RelocationStep, Relocation!Next
<1> QED  BY <1>1, <1>6, <1>7

\* Another application overwrites a file of the plan or is nothing to see.
LEMMA OutsideIsOverwrite ==
    ASSUME RenameInv, NEW p \in Paths, OutsideChange(p)
    PROVE  RelocationStep
<1>1. /\ UNCHANGED <<items, part, failed>> /\ destroyed' = destroyed \cup ({at[p]} \cap Ops)
  BY DEF OutsideChange, journal, worker
<1>2. PICK f \in {NoFile, Foreign} : at' = [at EXCEPT ![p] = f]
  BY DEF OutsideChange, ForeignAppears, ForeignLeaves, ForeignReplaces
<1>3. \A o \in Ops : Dst[o] \in Paths /\ o # f
  BY <1>2, PlanAssumption, PlanFiles
<1>4. Reports' = Reports
  BY <1>1 DEF Reports
<1>5. ASSUME NEW o \in Ops, o # at[p] PROVE PlaceOf(o)' = PlaceOf(o)
  <2>1. o \in destroyed' <=> o \in destroyed
    BY <1>1, <1>5
  <2>2. at'[Dst[o]] = o <=> at[Dst[o]] = o
    BY <1>2, <1>3, <1>5 DEF RenameInv, FileInv, FileTypes
  <2> QED  BY <1>1, <2>1, <2>2 DEF PlaceOf
<1>6. CASE at[p] \notin Ops
  <2>1. Places' = Places
    BY <1>5, <1>6 DEF Places
  <2> QED  BY <1>1, <1>4, <2>1 DEF RelocationStep
<1>7. CASE at[p] \in Ops
  <2>1. PICK o \in Ops : o = at[p]
    BY <1>7
  <2>2. PlaceOf(o)' = "overwritten"
    BY <1>1, <2>1 DEF PlaceOf
  <2>3. Places' = [q \in Ops |-> IF q = o THEN "overwritten" ELSE PlaceOf(q)]
    BY <1>5, <2>1, <2>2 DEF Places
  <2>4. Places' = [Places EXCEPT ![o] = "overwritten"]
    BY <2>3 DEF Places
  <2>5. Relocation!Overwrite(o)
    BY <1>1, <1>4, <2>4 DEF Relocation!Overwrite, Places, Reports
  <2> QED  BY <2>5 DEF RelocationStep, Relocation!Next
<1> QED  BY <1>6, <1>7

\* Every other step of the worker writes at most one row, which had no result yet.
LEMMA WriteIsReport ==
    ASSUME RenameInv, RenameInv', failed \subseteq Ops, [Next]_vars,
           ~MoveOut, ~MoveIn, ~Restore, ~(\E p \in Paths : OutsideChange(p))
    PROVE  RelocationStep
<1>0. op \in Ops /\ RowInv /\ ControlInv /\ FileInv
  BY AtTheRow DEF RenameInv
<1>1. UNCHANGED <<at, part, destroyed>> /\ Stopped(failed')
  BY QuietStep, EveryStepStops
<1>a. /\ \A next : Stay(next) => UNCHANGED failed
      /\ MoveOn(failed) => UNCHANGED failed
  BY DEF Stay, MoveOn
<1>2. ASSUME NEW o \in Ops, OnlyRow(o), items[o].state \notin Journal!Terminal, UNCHANGED failed,
             ~Skipped(items'[o])
      PROVE  RelocationStep
  BY <1>1, <1>2, ReportStep
<1>3. CASE UNCHANGED items
  BY <1>1, <1>3, NothingToSee
<1>4. CASE BeginPlan
  <2>1. \A o \in Ops : items[o].state = "Absent" /\ items'[o].state = "Prepared"
    BY <1>4 DEF BeginPlan, Journal!BeginPlan, Journal!NewItem
  <2>2. \A o \in Ops : items'[o].result = items[o].result
    <3>1. \A o \in Ops : items[o].result = ResultOf(items[o].state)
      BY <1>0, <2>1 DEF RowInv, SoundRow, Skipped
    <3>2. \A o \in Ops : items'[o].result = ResultOf(items'[o].state)
      BY <2>1 DEF RenameInv, RowInv, SoundRow, Skipped
    <3> QED  BY <2>1, <3>1, <3>2 DEF ResultOf
  <2> QED  BY <1>1, <2>2, NothingToSee
<1>5. CASE Prepare
  <2>1. (Journal!RecordPreparedEvidence(op) /\ MoveOn(failed)) \/ UNCHANGED items
    BY <1>5 DEF Prepare, journal
  <2>2. CASE Journal!RecordPreparedEvidence(op) /\ MoveOn(failed)
    <3>1. /\ OnlyRow(op) /\ items[op].state = "Prepared"
          /\ items'[op] = [items[op] EXCEPT !.temporary = TRUE, !.evidence = TRUE]
      BY <1>0, <2>2, EvidenceWrite
    <3>2. items'[op].state = "Prepared"
      BY <1>0, <3>1 DEF RowInv, Journal!ItemRow
    <3> QED  BY <1>0, <1>2, <1>a, <2>2, <3>1, <3>2 DEF Journal!Terminal, Skipped
  <2> QED  BY <1>3, <2>1, <2>2
<1>6. CASE Apply
  <2>1. /\ OnlyRow(op) /\ items[op].state = "Staged" /\ UNCHANGED failed
        /\ items'[op] = [items[op] EXCEPT !.state = "FsApplied", !.evidence = TRUE]
    BY <1>0, <1>6, <1>a, AppliedWrite DEF Apply
  <2>2. items'[op].state = "FsApplied"
    BY <1>0, <2>1 DEF RowInv, Journal!ItemRow
  <2> QED  BY <1>0, <1>2, <2>1, <2>2 DEF Journal!Terminal, Skipped
<1>7. CASE Stage \/ Verify \/ Barrier \/ Synced
  <2>1. PICK next \in {"Staged", "Verified", "MetaCommitted", "IndexSynced"} :
          /\ OnlyRow(op) /\ items[op].state \notin Journal!Terminal
          /\ items'[op] = [items[op] EXCEPT !.state = next]
    <3>1. CASE Stage
      <4>1. OnlyRow(op) /\ items[op].state = "Prepared"
            /\ items'[op] = [items[op] EXCEPT !.state = "Staged"]
        BY <1>0, <3>1, AdvanceWrite DEF Stage
      <4> QED  BY <4>1 DEF Journal!Terminal
    <3>2. CASE Verify
      <4>1. OnlyRow(op) /\ items[op].state = "FsApplied"
            /\ items'[op] = [items[op] EXCEPT !.state = "Verified"]
        BY <1>0, <3>2, AdvanceWrite DEF Verify
      <4> QED  BY <4>1 DEF Journal!Terminal
    <3>3. CASE Barrier
      <4>1. OnlyRow(op) /\ items[op].state = "Verified"
            /\ items'[op] = [items[op] EXCEPT !.state = "MetaCommitted"]
        BY <1>0, <3>3, AdvanceWrite DEF Barrier
      <4> QED  BY <4>1 DEF Journal!Terminal
    <3>4. CASE Synced
      <4>1. OnlyRow(op) /\ items[op].state = "MetaCommitted"
            /\ items'[op] = [items[op] EXCEPT !.state = "IndexSynced"]
        BY <1>0, <3>4, AdvanceWrite DEF Synced
      <4> QED  BY <4>1 DEF Journal!Terminal
    <3> QED  BY <1>7, <3>1, <3>2, <3>3, <3>4
  <2>2. items'[op].state = next
    BY <1>0, <2>1 DEF RowInv, Journal!ItemRow
  <2>3. UNCHANGED failed
    BY <1>7, <1>a DEF Stage, Verify, Barrier, Synced
  <2> QED  BY <1>0, <1>2, <2>1, <2>2, <2>3 DEF Journal!Terminal, Skipped
<1>b. ASSUME NEW o \in Ops, NEW expected, UNCHANGED failed,
             Journal!CompleteItem(o, expected) \/ Journal!FailItem(o, expected, FALSE)
      PROVE  RelocationStep
  <2>1. /\ OnlyRow(o) /\ items[o].state \notin Journal!Terminal
        /\ items'[o].result = ResultOf(items'[o].state)
    BY <1>0, <1>b, EndWrite
  <2>2. ~Skipped(items'[o])
    BY <2>1 DEF Skipped, ResultOf
  <2> QED  BY <1>2, <1>b, <2>1, <2>2
<1>8. CASE Complete
  BY <1>0, <1>a, <1>b, <1>8 DEF Complete
<1>9. CASE Settle \/ Restored
  <2>1. /\ Journal!FailItem(op, items[op].state, FALSE) \/ UNCHANGED items
        /\ UNCHANGED failed
    BY <1>9, <1>a DEF Settle, Restored, journal
  <2> QED  BY <1>0, <1>3, <1>b, <2>1
<1>10. ASSUME NEW o \in Ops, Recover(o) PROVE RelocationStep
  <2>1. /\ Journal!FailItem(o, items[o].state, FALSE) \/ UNCHANGED items
        /\ UNCHANGED failed
    BY <1>10 DEF Recover, journal
  <2> QED  BY <1>0, <1>3, <1>b, <2>1
<1>12. CASE InTurns
  <2>1. UNCHANGED items \/ \E expected : Journal!SkipItem(op, expected, FALSE)
    BY <1>12 DEF InTurns, NotStarted, Turn, Cancel, CancelInTurn, journal
  <2>2. CASE \E expected : Journal!SkipItem(op, expected, FALSE)
    <3>1. OnlyRow(op) /\ items[op].state \notin Journal!Terminal
      BY <1>0, <2>2, SkipWrite
    <3>2. ~Cancel
      BY <2>2, <3>1, SkipWrite, <1>0 DEF Cancel, journal, Journal!Terminal
    <3>3. mode = "executing" /\ step \in {"revalidate", "turn"} /\ UNCHANGED failed
      BY <1>0, <1>12, <3>2 DEF InTurns, NotStarted, Turn, CancelInTurn, EndTurn, ControlInv,
           StepOfTheMode, InSteps
    <3>4. CASE op \notin failed
      <4>1. Untouched(op)
        BY <1>0, <3>1, <3>3, <3>4 DEF ControlInv, PassesInOrder, Done, Journal!Terminal
      <4>2. part[op] = NoFile /\ (op \notin destroyed => at[Dst[op]] # op)
        BY <1>0, <4>1 DEF RowInv, Untouched, OpenRow, StateFits, Skipped
      <4>3. PlaceOf(op) \in {"source", "overwritten"}
        BY <1>0, <4>2, PlanFiles DEF PlaceOf
      <4> QED  BY <1>0, <1>1, <3>1, <3>3, <4>3, ReportStep
    <3>5. CASE op \in failed
      BY <1>0, <1>1, <3>1, <3>3, <3>5, ReportStep
    <3> QED  BY <3>4, <3>5
  <2> QED  BY <1>3, <2>1, <2>2
<1>11. CASE \/ Revalidate \/ Confirm \/ CommitMetadata \/ SyncIndex \/ Close
            \/ OpenProject \/ Fault \/ Crash \/ UNCHANGED vars
  BY <1>3, <1>11 DEF Revalidate, Confirm, CommitMetadata, SyncIndex, Close, OpenProject, Fault,
       Crash, journal, vars, Journal!FinishBatch
<1> QED  BY <1>4, <1>5, <1>6, <1>7, <1>8, <1>9, <1>10, <1>11, <1>12 DEF Next, Work, Execute, InTurns

\* The renames, with every error, crash, cancellation and recovery, implement the
\* relocation that the design promises: a file is at its source, hidden or at its
\* destination, reported completed only at the destination, failed only at the source and
\* skipped only at the source or after an error, and a reported file is not touched again.
THEOREM RelocatesAsPromised == Spec => ImplementsRelocation
<1>1. Init => Relocation!Init
  <2> SUFFICES ASSUME Init PROVE Relocation!Init
    OBVIOUS
  <2>1. RenameInv
    BY RenameInit
  <2>2. \A o \in Ops : part[o] = NoFile /\ at[Src[o]] = o
    BY PlanAssumption DEF Init
  <2>3. destroyed = {} /\ \A o \in Ops : items[o].state = "Absent"
    BY DEF Init, Journal!Init, Journal!NewItem
  <2>4. \A o \in Ops : PlaceOf(o) = "source"
    BY <2>1, <2>2, <2>3, OnePlace, PlanFiles DEF PlaceOf, RenameInv
  <2>5. \A o \in Ops : items[o].result = "none"
    BY <2>1, <2>3 DEF RenameInv, RowInv, SoundRow, ResultOf, Skipped
  <2>6. failed = {}
    BY DEF Init
  <2> QED  BY <2>4, <2>5, <2>6 DEF Relocation!Init
<1>2. /\ Init => failed \subseteq Ops
      /\ RenameInv /\ failed \subseteq Ops /\ [Next]_vars => (failed \subseteq Ops)'
  BY EveryStepStops DEF Init
<1>3. RenameInv /\ RenameInv' /\ failed \subseteq Ops /\ [Next]_vars => RelocationStep
  BY RenameIsMove, OutsideIsOverwrite, WriteIsReport
<1> QED  BY <1>1, <1>2, <1>3, RenameInvariance, PTL
         DEF Spec, ImplementsRelocation, Relocation!Spec, RelocationStep, Places, Reports
=============================================================================
