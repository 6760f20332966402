--------------------------- MODULE FileCommandRuntime ---------------------------
(***************************************************************************)
(* One project session running batches of file commands while the user may *)
(* cancel, undo, or close the project:                                     *)
(*   src-tauri operation_runtime/      OperationRuntime, OperationRecord   *)
(*   viewer-application                FileCommandService::execute,        *)
(*     file_commands.rs                  cancel and progress publication   *)
(*   viewer-infrastructure             LocalFileCommandAdapter: which rows *)
(*     operation/service/                of a batch end how, rename groups *)
(*   src-tauri state/session.rs        request_close_for, close_project    *)
(*   viewer-application undo.rs        UndoStack, UndoService::undo_last   *)
(*                                                                         *)
(* Each batch has two tasks, the worker and the forwarder of its progress. *)
(* A step ends where the code takes or drops a lock or awaits, so what a   *)
(* task read before such a point may be stale after it.  The work on one   *)
(* file (RenameTransaction models a rename) is one step here.              *)
(***************************************************************************)
EXTENDS Naturals, FiniteSets, Sequences

CONSTANTS
    Batches,        \* start requests; each would get a batch id of its own
    NoBatch,
    N,              \* files in a batch
    Requests,       \* what may be asked for: kind and items whose conflict is skipped
    ComponentOf,    \* a rename's component, named by the first file in it
    MaxRetained,    \* MAX_RETAINED_BATCHES, 16 in the code
    MaxCancels,     \* batches that are cancelled
    MaxUndos,       \* undo requests
    MaxFaults       \* journal or commit failures

Items == 1..N

ASSUME RuntimeAssumption ==
    /\ IsFiniteSet(Batches) /\ NoBatch \notin Batches
    /\ \A other \in {"free", "close", "undo"} : other \notin Batches
    /\ N \in Nat \ {0}
    /\ Requests \subseteq [kind : {"Rename", "Move", "Copy", "Trash"}, skip : SUBSET Items]
    /\ Requests # {}
    /\ ComponentOf \in [Items -> Items]
    /\ \A i \in Items : ComponentOf[i] <= i /\ ComponentOf[ComponentOf[i]] = ComponentOf[i]
    /\ \A r \in Requests : \A i \in Items :
          r.kind = "Rename" => (ComponentOf[i] \in r.skip <=> i \in r.skip)
    /\ MaxRetained \in Nat \ {0}
    /\ {MaxCancels, MaxUndos, MaxFaults} \subseteq Nat

VARIABLES
    session,        \* whether DesktopState still has the session
    current,        \* whether the coordinator still holds the session's token
    close, target,  \* where the close request is, and the batch it waits for
    start, request, \* where each start request is, and what it asks for
    gate,           \* who holds start_gate
    lane,           \* who holds the session's write lane
    active, order,  \* OperationRuntimeState: the active batch, the retained ones
    record,         \* OperationRecord of each batch
    svcActive,      \* ServiceState: the registered batch,
    intents,        \*   the early cancellations,
    cancelled,      \*   and the batches whose token is cancelled
    cancelling,     \* cancel calls between their check and request_cancel
    asked,          \* batches on which request_cancel has run
    shared,         \* progress the worker and cancel share
    channel,        \* the watch channel from the service to the forwarder
    forwarder, held,\* the forwarder, and the progress it has read
    worker, then,   \* the worker's next step, and the one after a publication
    item, results,  \* the file it is at, and the results so far
    life, sending,  \* its own lifecycle, and the progress it is about to send
    component,      \* the leader of the last rename component that has run
    groupRan,       \* rename_executed
    rows,           \* the journal rows
    moved,          \* the files that are not where the batch found them
    stack,          \* UndoStack: the batches that can be undone
    undo, undos,    \* where the undo request is; how many there were
    shown,          \* the last event of each batch, and how many said Completed
    faults

closing == <<session, current, close, target>>
starting == <<start, gate, request>>
runtime == <<active, order, record>>
service == <<svcActive, intents, cancelled, shared, channel>>
cancels == <<cancelling, asked>>
forwarding == <<forwarder, held>>
steps == <<item, results, life, sending>>
working == <<worker, then, steps>>
files == <<component, groupRan, rows, moved, faults>>
undoing == <<stack, undo, undos>>
batchWork == <<runtime, service, cancels, forwarding, working, files, shown>>
outside == <<closing, starting, undoing, cancels, forwarding, shown>>
vars == <<closing, starting, lane, undoing, batchWork>>

Undoable(b) == request[b].kind \in {"Rename", "Move"}
Over == {"Completed", "Failed", "Skipped"}
JournalClosed(b) == \A i \in Items : rows[b][i] \in Over
CompletedItems(b) == {i \in Items : rows[b][i] = "Completed"}

NoRequest == [kind |-> "none", skip |-> {}]
Queued == [life |-> "Queued", done |-> 0]
Progress(b) == [life |-> life[b], done |-> Len(results[b])]

Init ==
    /\ session = "open" /\ current = TRUE /\ close = "idle" /\ target = NoBatch
    /\ start = [b \in Batches |-> "new"] /\ gate = NoBatch /\ lane = "free"
    /\ request = [b \in Batches |-> NoRequest]
    /\ active = NoBatch /\ order = <<>>
    /\ record = [b \in Batches |-> [life |-> "None", done |-> 0, result |-> "none",
                                    complete |-> FALSE]]
    /\ svcActive = NoBatch /\ intents = {} /\ cancelled = {}
    /\ cancelling = {} /\ asked = {}
    /\ shared = [b \in Batches |-> Queued]
    /\ channel = [b \in Batches |-> [value |-> Queued, fresh |-> FALSE]]
    /\ forwarder = [b \in Batches |-> "off"] /\ held = [b \in Batches |-> Queued]
    /\ worker = [b \in Batches |-> "off"] /\ then = [b \in Batches |-> "off"]
    /\ item = [b \in Batches |-> 1] /\ results = [b \in Batches |-> <<>>]
    /\ life = [b \in Batches |-> "Queued"] /\ sending = [b \in Batches |-> Queued]
    /\ component = [b \in Batches |-> 0] /\ groupRan = [b \in Batches |-> FALSE]
    /\ rows = [b \in Batches |-> [i \in Items |-> "Absent"]]
    /\ moved = [b \in Batches |-> {}]
    /\ stack = <<>> /\ undo = "idle" /\ undos = 0
    /\ shown = [b \in Batches |-> [life |-> "None", done |-> 0, ends |-> 0]]
    /\ faults = 0

Emit(b, progress) ==
    shown' = [shown EXCEPT ![b] =
        [life |-> progress.life, done |-> progress.done,
         ends |-> IF progress.life = "Completed" THEN @.ends + 1 ELSE @.ends]]

-----------------------------------------------------------------------------
(* OperationRuntime::start. *)

StartAt(b, place) == start' = [start EXCEPT ![b] = place] /\ UNCHANGED request

\* active_operations: the command found the session open.
Start(b, r) ==
    /\ start[b] = "new" /\ session = "open"
    /\ start' = [start EXCEPT ![b] = "gate"]
    /\ request' = [request EXCEPT ![b] = r]
    /\ UNCHANGED <<batchWork, closing, gate, lane, undoing>>

\* One batch at a time; validate_command asks the coordinator.
PassGate(b) ==
    /\ start[b] = "gate" /\ gate = NoBatch
    /\ IF active # NoBatch \/ ~current
       THEN StartAt(b, "rejected") /\ UNCHANGED gate
       ELSE StartAt(b, "lane") /\ gate' = b
    /\ UNCHANGED <<batchWork, closing, lane, undoing>>

\* The preflight does not queue for the write lane.
TryLane(b) ==
    /\ start[b] = "lane"
    /\ IF lane = "free"
       THEN lane' = b /\ StartAt(b, "preflight") /\ UNCHANGED gate
       ELSE StartAt(b, "rejected") /\ gate' = NoBatch /\ UNCHANGED lane
    /\ UNCHANGED <<batchWork, closing, undoing>>

\* The port answers: rows it cannot plan, or a plan for a session that is gone,
\* end the request.
Preflight(b) ==
    /\ start[b] = "preflight"
    /\ lane' = "free"
    /\ \E planned \in BOOLEAN :
          IF planned /\ current
          THEN StartAt(b, "admit") /\ UNCHANGED gate
          ELSE StartAt(b, "rejected") /\ gate' = NoBatch
    /\ UNCHANGED <<batchWork, closing, undoing>>

\* Only the newest records are retained.
Retain(sequence) ==
    IF Len(sequence) > MaxRetained
    THEN SubSeq(sequence, Len(sequence) - MaxRetained + 1, Len(sequence)) ELSE sequence

Admit(b) ==
    /\ start[b] = "admit"
    /\ active' = b
    /\ order' = Retain(Append(order, b))
    /\ record' = [record EXCEPT ![b].life = "Queued"]
    /\ StartAt(b, "announce")
    /\ UNCHANGED <<closing, gate, lane, service, cancels, forwarding, working,
                   files, undoing, shown>>

\* The first event, and the two tasks.
Announce(b) ==
    /\ start[b] = "announce"
    /\ Emit(b, Queued)
    /\ forwarder' = [forwarder EXCEPT ![b] = "idle"]
    /\ worker' = [worker EXCEPT ![b] = "validate"]
    /\ StartAt(b, "started") /\ gate' = NoBatch
    /\ UNCHANGED <<closing, lane, runtime, service, cancels, held, then, files,
                   undoing, steps>>

-----------------------------------------------------------------------------
(* The forwarder: the latest progress, but never the last one. *)

Take(b) ==
    /\ forwarder[b] = "idle" /\ channel[b].fresh /\ worker[b] # "join"
    /\ channel' = [channel EXCEPT ![b].fresh = FALSE]
    /\ held' = [held EXCEPT ![b] = channel[b].value]
    /\ forwarder' = [forwarder EXCEPT ![b] =
                        IF channel[b].value.life = "Completed" THEN "idle" ELSE "busy"]
    /\ UNCHANGED <<closing, starting, lane, runtime, svcActive, intents, cancelled,
                   shared, cancels, working, files, undoing, shown>>

Forward(b) ==
    /\ forwarder[b] = "busy"
    /\ record' = [record EXCEPT ![b].life = held[b].life, ![b].done = held[b].done]
    /\ Emit(b, held[b])
    /\ forwarder' = [forwarder EXCEPT ![b] = "idle"]
    /\ held' = [held EXCEPT ![b] = Queued]
    /\ UNCHANGED <<closing, starting, lane, active, order, service, cancels,
                   working, files, undoing>>

\* Mutant: the forwarder stops when it has seen the batch complete.
StopForwarder_AtTheEnd(b) ==
    /\ forwarder[b] = "idle" /\ channel[b].value.life = "Completed"
    /\ forwarder' = [forwarder EXCEPT ![b] = "done"]
    /\ UNCHANGED <<closing, starting, lane, runtime, service, cancels, held,
                   working, files, undoing, shown>>

StopForwarder(b) ==
    /\ forwarder[b] = "idle" /\ worker[b] = "join"
    /\ forwarder' = [forwarder EXCEPT ![b] = "done"]
    /\ UNCHANGED <<closing, starting, lane, runtime, service, cancels, held,
                   working, files, undoing, shown>>

-----------------------------------------------------------------------------
(* The worker: FileCommandService::execute, then the end of the spawned task. *)

Goto(b, place) == worker' = [worker EXCEPT ![b] = place]
GotoPublish(b, next) == Goto(b, "publish") /\ then' = [then EXCEPT ![b] = next]

\* validate_command again; a stale batch ends with an error and no result.
Validate(b) ==
    /\ worker[b] = "validate"
    /\ Goto(b, IF current THEN "wantLane" ELSE "join")
    /\ UNCHANGED <<outside, lane, runtime, service, then, files, steps>>

TakeLane(b) ==
    /\ worker[b] = "wantLane" /\ lane = "free"
    /\ lane' = b
    /\ Goto(b, "register")
    /\ UNCHANGED <<outside, runtime, service, then, files, steps>>

\* An early cancellation is taken up as the batch becomes the active one.
Register(b) ==
    /\ worker[b] = "register"
    /\ svcActive' = b
    /\ intents' = intents \ {b}
    /\ cancelled' = cancelled \cup (intents \cap {b})
    /\ life' = [life EXCEPT ![b] = IF b \in intents THEN "Cancelling" ELSE "Running"]
    /\ shared' = [shared EXCEPT ![b].life = "Running"]
    /\ GotoPublish(b, "check")
    /\ UNCHANGED <<outside, lane, runtime, channel, item, results, sending, files>>

\* publish_progress under the lock it shares with cancel ...
SetShared(b) ==
    /\ worker[b] = "publish"
    /\ LET overtaken == shared[b].life = "Cancelling" /\ life[b] = "Running"
           progress == [Progress(b) EXCEPT !.life = IF overtaken THEN "Cancelling" ELSE @]
       IN  /\ shared' = [shared EXCEPT ![b] = progress]
           /\ sending' = [sending EXCEPT ![b] = progress]
    /\ Goto(b, "send")
    /\ UNCHANGED <<outside, lane, runtime, svcActive, intents, cancelled, channel,
                   then, item, results, life, files>>

\* ... and after it has dropped the lock (the locals are gone when it returns).
Send(b) ==
    /\ worker[b] = "send"
    /\ channel' = [channel EXCEPT ![b] = [value |-> sending[b], fresh |-> TRUE]]
    /\ sending' = [sending EXCEPT ![b] = Queued]
    /\ Goto(b, then[b]) /\ then' = [then EXCEPT ![b] = "off"]
    /\ UNCHANGED <<outside, lane, runtime, svcActive, intents, cancelled, shared,
                   item, results, life, files>>

\* Before each file: is the session still current, is the batch cancelled?
Check(b) ==
    /\ worker[b] = "check"
    /\ CASE item[b] > N -> Goto(b, "summarise") /\ UNCHANGED <<then, life>>
         [] item[b] <= N /\ (~current \/ b \in cancelled) ->
               /\ life' = [life EXCEPT ![b] = "Cancelling"]
               /\ Goto(b, "drain") /\ UNCHANGED then
         [] OTHER -> GotoPublish(b, "begin") /\ UNCHANGED life
    /\ UNCHANGED <<outside, lane, runtime, service, item, results, sending, files>>

\* ensure_journal_started: the first row that is touched prepares them all.
Started(b) == [i \in Items |-> IF rows[b][i] = "Absent" THEN "Prepared" ELSE rows[b][i]]

\* Mutant: a row that was prepared is not settled.
Settles_AbsentOnly(b, i) == rows[b][i] = "Absent"

\* settle_unstarted_item: skip_item takes Prepared rows only.
Settles(b, i) == rows[b][i] \in {"Absent", "Prepared"}

\* The files that are left are settled one after the other; a row that is not
\* Prepared, or a journal failure (at the rows of "faulty"), reports a failed file.
Drain(b) ==
    /\ worker[b] = "drain"
    /\ LET pending == item[b]..N IN
       \E faulty \in SUBSET pending :
          LET settled == {i \in pending \ faulty : Settles(b, i)} IN
          /\ faults + Cardinality(faulty) <= MaxFaults
          /\ faults' = faults + Cardinality(faulty)
          /\ rows' = [rows EXCEPT ![b] =
                IF faulty = pending THEN rows[b]
                ELSE [i \in Items |-> IF i \in settled THEN "Skipped" ELSE Started(b)[i]]]
          /\ results' = [results EXCEPT ![b] =
                [i \in Items |-> IF i < item[b] THEN results[b][i]
                                 ELSE IF i \in settled THEN "cancelled" ELSE "failed"]]
    /\ item' = [item EXCEPT ![b] = N + 1]
    /\ GotoPublish(b, "check")
    /\ UNCHANGED <<outside, lane, runtime, service, life, sending, component,
                   groupRan, moved>>

\* The file is done; its result goes into the progress.
Settle(b, result) ==
    /\ results' = [results EXCEPT ![b] = Append(results[b], result)]
    /\ Goto(b, "report")

Fault == faults < MaxFaults /\ faults' = faults + 1

\* mark_cancelled skips a row in any state but an ended one.
MarkCancelled(b, i) ==
    rows' = [rows EXCEPT ![b] =
                IF rows[b][i] \in Over THEN rows[b] ELSE [Started(b) EXCEPT ![i] = "Skipped"]]

\* execute_prepared_item up to the route, or settle_unstarted for a conflict the
\* user resolved with "skip".  Here cancellation is looked at again.
Begin(b) ==
    /\ worker[b] = "begin"
    /\ LET i == item[b] IN
       \/ Fault /\ Settle(b, "failed") /\ UNCHANGED rows
       \/ /\ i \in request[b].skip
          /\ rows' = [rows EXCEPT ![b] =
                IF Settles(b, i) THEN [Started(b) EXCEPT ![i] = "Skipped"] ELSE Started(b)]
          /\ Settle(b, IF Settles(b, i) THEN "skipped" ELSE "failed")
          /\ UNCHANGED faults
       \/ /\ i \notin request[b].skip /\ b \in cancelled
          /\ MarkCancelled(b, i) /\ Settle(b, "cancelled")
          /\ UNCHANGED faults
       \/ /\ i \notin request[b].skip /\ b \notin cancelled
          /\ rows' = [rows EXCEPT ![b] = Started(b)]
          /\ Goto(b, IF request[b].kind = "Rename" THEN "group" ELSE "run")
          /\ UNCHANGED <<results, faults>>
    /\ UNCHANGED <<outside, lane, runtime, service, then, item, life, sending,
                   component, groupRan, moved>>

\* How the work on the files of "group" ends in the journal and on the disk.  A
\* fault leaves rows that only the recovery at the next open can settle.
Work(b, group, row) ==
    /\ rows' = [rows EXCEPT ![b] = [i \in Items |-> IF i \in group THEN row ELSE rows[b][i]]]
    /\ moved' = [moved EXCEPT ![b] =
                    IF row \in {"Completed", "Applied"} THEN @ \cup group ELSE @]

\* Mutant: a cancellation that comes too late is reported all the same.
Completes_LateCancel(b) ==
    /\ Work(b, {item[b]}, "Completed")
    /\ Settle(b, IF b \in cancelled THEN "cancelled" ELSE "completed")

Completes(b) == Work(b, {item[b]}, "Completed") /\ Settle(b, "completed")

\* One move, copy or trash.  Only a copy, that of a move to another volume
\* included, notices a cancellation while it runs.
Run(b) ==
    /\ worker[b] = "run"
    /\ LET file == {item[b]} IN
       \/ Completes(b) /\ UNCHANGED faults
       \/ Work(b, file, "Failed") /\ Settle(b, "failed") /\ UNCHANGED faults
       \/ /\ Work(b, file, "Applied") \/ Work(b, file, "Prepared")
          /\ Settle(b, "failed") /\ Fault
       \/ /\ request[b].kind \in {"Copy", "Move"} /\ b \in cancelled
          /\ Work(b, file, "Skipped") /\ Settle(b, "cancelled") /\ UNCHANGED faults
    /\ UNCHANGED <<outside, lane, runtime, service, then, item, life, sending,
                   component, groupRan>>

Leaders(b) == {ComponentOf[i] : i \in Items \ request[b].skip}
ComponentsLeft(b) == {leader \in Leaders(b) : leader > component[b]}
NextLeader(b) == CHOOSE l \in ComponentsLeft(b) : \A m \in ComponentsLeft(b) : l <= m

\* Mutant: only the first component asks whether the batch is cancelled.
GroupGoesOn_FirstOnly(b) == ComponentsLeft(b) # {} /\ (component[b] = 0 => b \notin cancelled)

GroupGoesOn(b) == ComponentsLeft(b) # {} /\ b \notin cancelled

\* execute_rename_group runs every component at the first file that gets here,
\* and stops before a component when the batch is cancelled.
PickComponent(b) ==
    /\ worker[b] = "group" /\ ~groupRan[b]
    /\ GroupGoesOn(b)
    /\ component' = [component EXCEPT ![b] = NextLeader(b)]
    /\ Goto(b, "rename")
    /\ UNCHANGED <<outside, lane, runtime, service, then, groupRan, rows, moved,
                   faults, steps>>

RenameComponent(b) ==
    /\ worker[b] = "rename"
    /\ LET group == {i \in Items : ComponentOf[i] = component[b]} IN
       \/ Work(b, group, "Completed") /\ UNCHANGED faults
       \/ Work(b, group, "Failed") /\ UNCHANGED faults
       \/ (Work(b, group, "Applied") \/ Work(b, group, "Prepared")) /\ Fault
    /\ Goto(b, "group")
    /\ UNCHANGED <<outside, lane, runtime, service, then, component, groupRan, steps>>

\* The outcome the group has for this file; a file it did not reach has failed.
RenameOutcome(b) ==
    /\ worker[b] = "group"
    /\ groupRan[b] \/ ~GroupGoesOn(b)
    /\ groupRan' = [groupRan EXCEPT ![b] = TRUE]
    /\ Settle(b, IF rows[b][item[b]] = "Completed" THEN "completed" ELSE "failed")
    /\ UNCHANGED <<outside, lane, runtime, service, then, item, life, sending,
                   component, rows, moved, faults>>

Report(b) ==
    /\ worker[b] = "report"
    /\ life' = [life EXCEPT ![b] = IF b \in cancelled THEN "Cancelling" ELSE @]
    /\ item' = [item EXCEPT ![b] = @ + 1]
    /\ GotoPublish(b, "check")
    /\ UNCHANGED <<outside, lane, runtime, service, results, sending, files>>

\* take_undo_actions answers only for a batch whose journal is finished.
Summarise(b) ==
    /\ worker[b] = "summarise"
    /\ \/ /\ Undoable(b) /\ JournalClosed(b) /\ CompletedItems(b) # {}
          /\ stack' = Append(stack, b)
          /\ UNCHANGED faults
       \/ /\ ~(Undoable(b) /\ JournalClosed(b) /\ CompletedItems(b) # {})
          /\ UNCHANGED <<stack, faults>>
       \/ /\ Undoable(b) /\ JournalClosed(b)
          /\ Fault /\ UNCHANGED stack
    /\ Goto(b, "unregister")
    /\ UNCHANGED <<closing, starting, lane, runtime, service, cancels, forwarding,
                   then, component, groupRan, rows, moved, undo, undos, shown,
                   steps>>

\* ActiveBatchRegistration::finish, then the last publication.
Unregister(b) ==
    /\ worker[b] = "unregister"
    /\ svcActive' = IF svcActive = b THEN NoBatch ELSE svcActive
    /\ life' = [life EXCEPT ![b] = "Completed"]
    /\ GotoPublish(b, "return")
    /\ UNCHANGED <<outside, lane, runtime, intents, cancelled, shared, channel,
                   item, results, sending, files>>

\* execute returns: the lane is dropped, the forwarder is told to stop.
Return(b) ==
    /\ worker[b] = "return"
    /\ lane' = "free"
    /\ Goto(b, "join")
    /\ UNCHANGED <<outside, runtime, service, then, files, steps>>

Final == [life |-> "Completed", done |-> N]

\* Mutant: the batch ends before its results are stored.
Join_StoresNothing(b) ==
    /\ worker[b] = "join" /\ forwarder[b] = "done"
    /\ record' = [record EXCEPT ![b].life = Final.life, ![b].done = Final.done]
    /\ Goto(b, "clear")
    /\ UNCHANGED <<outside, lane, active, order, service, then, files, steps>>

Join(b) ==
    /\ worker[b] = "join" /\ forwarder[b] = "done"
    /\ record' = [record EXCEPT ![b].life = Final.life, ![b].done = Final.done]
    /\ Goto(b, "store")
    /\ UNCHANGED <<outside, lane, active, order, service, then, files, steps>>

Store(b) ==
    /\ worker[b] = "store"
    /\ record' = [record EXCEPT ![b].result = IF results[b] = <<>> THEN "error" ELSE "ok"]
    /\ Goto(b, "clear")
    /\ UNCHANGED <<outside, lane, active, order, service, then, files, steps>>

ClearActive(b) ==
    /\ worker[b] = "clear"
    /\ active' = IF active = b THEN NoBatch ELSE active
    /\ Goto(b, "announce")
    /\ UNCHANGED <<outside, lane, order, record, service, then, files, steps>>

AnnounceEnd(b) ==
    /\ worker[b] = "announce"
    /\ Emit(b, Final)
    /\ Goto(b, "mark")
    /\ UNCHANGED <<closing, starting, lane, runtime, service, cancels, forwarding,
                   then, files, undoing, steps>>

MarkComplete(b) ==
    /\ worker[b] = "mark"
    /\ record' = [record EXCEPT ![b].complete = TRUE]
    /\ Goto(b, "done")
    /\ UNCHANGED <<outside, lane, active, order, service, then, files, steps>>

-----------------------------------------------------------------------------
(* Cancelling: OperationRuntime::cancel, FileCommandService::request_cancel. *)

Retained(b) == \E k \in DOMAIN order : order[k] = b
Cancellable(b) == Retained(b) /\ active = b /\ ~record[b].complete

CancelProgress(b) == [shared[b] EXCEPT !.life = "Cancelling"]

\* request_cancel, under the service's lock; the progress it sends is the shared one.
RequestCancel(b) ==
    /\ asked' = asked \cup {b}
    /\ IF svcActive = b
       THEN /\ cancelled' = cancelled \cup {b}
            /\ shared' = [shared EXCEPT ![b] = CancelProgress(b)]
            /\ channel' = [channel EXCEPT ![b] = [value |-> CancelProgress(b), fresh |-> TRUE]]
            /\ UNCHANGED intents
       ELSE /\ intents' = intents \cup {b}
            /\ UNCHANGED <<cancelled, shared, channel>>
    /\ UNCHANGED svcActive

\* The check and the request are under different locks.
CancelCheck(b) ==
    /\ session = "open" /\ Cancellable(b)
    /\ b \notin asked \cup cancelling /\ Cardinality(asked \cup cancelling) < MaxCancels
    /\ cancelling' = cancelling \cup {b}
    /\ UNCHANGED <<closing, starting, lane, runtime, service, asked, forwarding,
                   working, files, undoing, shown>>

CancelSend(b) ==
    /\ b \in cancelling
    /\ cancelling' = cancelling \ {b}
    /\ RequestCancel(b)
    /\ UNCHANGED <<closing, starting, lane, runtime, forwarding, working, files,
                   undoing, shown>>

-----------------------------------------------------------------------------
(* Closing: request_close_for, then close_project. *)

\* The user may wait or cancel when a batch is active.  When the process exits,
\* finalize_process_exit closes without asking.
RequestClose ==
    /\ close = "idle" /\ session = "open"
    /\ \/ /\ active # NoBatch
          /\ target' = active /\ close' \in {"wait", "cancel"}
       \/ close' = "take" /\ UNCHANGED target
    /\ UNCHANGED <<batchWork, session, current, starting, lane, undoing>>

CloseCancel ==
    /\ close = "cancel"
    /\ close' = IF Cancellable(target) THEN "request" ELSE "wait"
    /\ UNCHANGED <<batchWork, session, current, target, starting, lane, undoing>>

CloseRequest ==
    /\ close = "request"
    /\ RequestCancel(target)
    /\ close' = "wait"
    /\ UNCHANGED <<session, current, target, starting, lane, runtime, cancelling,
                   forwarding, working, files, undoing, shown>>

\* wait: for mark_complete, unless the record is no longer retained.
CloseWait ==
    /\ close = "wait"
    /\ record[target].complete \/ ~Retained(target)
    /\ close' = IF session = "open" THEN "take" ELSE "lane"
    /\ UNCHANGED <<batchWork, session, current, target, starting, lane, undoing>>

TakeSession ==
    /\ close = "take"
    /\ session' = "closed" /\ close' = "revoke"
    /\ UNCHANGED <<batchWork, current, target, starting, lane, undoing>>

\* Mutant: the token stays valid while the session is taken apart.
Revoke_KeepsToken ==
    /\ close = "revoke"
    /\ close' = "read"
    /\ UNCHANGED <<batchWork, session, current, target, starting, lane, undoing>>

\* coordinator.cancel_session, before the first await.
Revoke ==
    /\ close = "revoke"
    /\ current' = FALSE /\ close' = "read"
    /\ UNCHANGED <<batchWork, session, target, starting, lane, undoing>>

\* cancel_and_wait_active reads the active batch once.
ReadActive ==
    /\ close = "read"
    /\ IF active = NoBatch
       THEN close' = "lane" /\ UNCHANGED target
       ELSE close' = "cancel" /\ target' = active
    /\ UNCHANGED <<batchWork, session, current, starting, lane, undoing>>

CloseLane ==
    /\ close = "lane" /\ lane = "free"
    /\ lane' = "close" /\ close' = "clear"
    /\ UNCHANGED <<batchWork, session, current, target, starting, undoing>>

\* UndoStack::close_session; the write guard is dropped as close_project returns.
CloseUndo ==
    /\ close = "clear"
    /\ stack' = <<>> /\ lane' = "free" /\ close' = "closed"
    /\ UNCHANGED <<batchWork, session, current, target, starting, undo, undos>>

-----------------------------------------------------------------------------
(* Undo: UndoService::undo_last, with LocalFileCommandAdapter::reverse_batch. *)

UndoCall ==
    /\ undo = "idle" /\ session = "open" /\ undos < MaxUndos
    /\ undo' = "lane" /\ undos' = undos + 1
    /\ UNCHANGED <<batchWork, closing, starting, lane, stack>>

\* The session was checked before the wait for the lane, and is not after it.
UndoLane ==
    /\ undo = "lane" /\ lane = "free"
    /\ IF stack = <<>>
       THEN undo' = "idle" /\ UNCHANGED lane
       ELSE undo' = "reverse" /\ lane' = "undo"
    /\ UNCHANGED <<batchWork, closing, starting, stack, undos>>

\* A reversal that fails half way leaves the batch on the stack.
UndoReverse ==
    /\ undo = "reverse"
    /\ LET b == stack[Len(stack)] IN
       \/ /\ moved' = [moved EXCEPT ![b] = {}]
          /\ stack' = SubSeq(stack, 1, Len(stack) - 1)
       \/ /\ \E left \in SUBSET moved[b] \ {{}} : moved' = [moved EXCEPT ![b] = left]
          /\ UNCHANGED stack
    /\ undo' = "idle" /\ lane' = "free"
    /\ UNCHANGED <<closing, starting, runtime, service, cancels, forwarding,
                   working, component, groupRan, rows, faults, undos, shown>>

-----------------------------------------------------------------------------
Starting(b) == PassGate(b) \/ TryLane(b) \/ Preflight(b) \/ Admit(b) \/ Announce(b)
Forwarding(b) == Take(b) \/ Forward(b) \/ StopForwarder(b)
Executing(b) ==
    \/ Validate(b) \/ TakeLane(b) \/ Register(b) \/ SetShared(b) \/ Send(b) \/ Check(b)
    \/ Drain(b) \/ Begin(b) \/ Run(b) \/ PickComponent(b) \/ RenameComponent(b)
    \/ RenameOutcome(b) \/ Report(b) \/ Summarise(b) \/ Unregister(b) \/ Return(b)
Ending(b) ==
    Join(b) \/ Store(b) \/ ClearActive(b) \/ AnnounceEnd(b) \/ MarkComplete(b)
Closing ==
    \/ CloseCancel \/ CloseRequest \/ CloseWait \/ TakeSession \/ Revoke \/ ReadActive
    \/ CloseLane \/ CloseUndo
Undoing == UndoLane \/ UndoReverse

Next ==
    \/ \E b \in Batches :
          \/ (\E r \in Requests : Start(b, r)) \/ Starting(b) \/ Forwarding(b) \/ Executing(b) \/ Ending(b)
          \/ CancelCheck(b) \/ CancelSend(b)
    \/ RequestClose \/ Closing
    \/ UndoCall \/ Undoing

\* Every task that can take a step is polled in the end, and the locks are fair;
\* nobody has to start, cancel, close or undo anything.
Fairness ==
    /\ \A b \in Batches :
          /\ WF_vars(Starting(b)) /\ WF_vars(Forwarding(b))
          /\ WF_vars(Executing(b) \/ Ending(b)) /\ WF_vars(CancelSend(b))
    /\ WF_vars(Closing) /\ WF_vars(Undoing)

Spec == Init /\ [][Next]_vars /\ Fairness

-----------------------------------------------------------------------------
\* Whoever is told that a batch has ended, by its last event or by wait, finds
\* its results stored and can start the next batch (runtime.rs:166-177).
EndedMeansReady ==
    \A b \in Batches :
        record[b].complete \/ shown[b].ends > 0 =>
            record[b].result # "none" /\ record[b].life = "Completed" /\ active # b

\* The event that says a batch has ended is its last, and its status never
\* leaves Completed: no late progress overtakes them (runtime.rs:164-166).  And
\* when close_project has returned no file is touched any more, no journal row
\* is written, and nothing can be undone (session.rs:436-509).
EndIsFinal ==
    [][/\ \A b \in Batches :
             /\ shown[b].life = "Completed" => shown'[b] = shown[b]
             /\ record[b].life = "Completed" => record'[b].life = "Completed"
       /\ close = "closed" => UNCHANGED <<moved, rows, stack>> /\ stack = <<>>]_vars

\* Once a cancellation was taken, by a batch that runs or ahead of it, no work on
\* another file or group begins (file_commands.rs:591, execution.rs:859).
CancelStopsTheRest ==
    [][\A b \in asked :
          worker'[b] \in {"run", "rename"} => worker'[b] = worker[b]]_vars

\* What a batch reports as completed its journal row says too, and but for renames,
\* whose group runs while the loop is at its first file, the other way round, and a
\* file reported skipped or cancelled was left where it was (file_commands.rs:456-471).
ResultsAreTrue ==
    \A b \in Batches : \A i \in DOMAIN results[b] :
        /\ results[b][i] = "completed" => rows[b][i] = "Completed"
        /\ request[b].kind # "Rename" =>
              /\ rows[b][i] = "Completed" => results[b][i] = "completed"
              /\ results[b][i] \in {"skipped", "cancelled"} => i \notin moved[b]

\* Without faults a batch that has moved files can be undone until the project
\* closes, also when it was cancelled half way (service/undo.rs:34-40).
MovedCanBeUndone ==
    \A b \in Batches :
        Undoable(b) /\ worker[b] \in {"return", "join", "done"} /\ moved[b] # {} /\ close # "closed"
          /\ faults = 0 => \E k \in DOMAIN stack : stack[k] = b

\* A batch that was started ends, whatever is cancelled, closed or undone and whatever
\* fails, and a request to close is never stuck behind one (runtime.rs:132-178,
\* session.rs:536-578).
BatchAndCloseEnd ==
    /\ \A b \in Batches : start[b] = "started" ~> worker[b] = "done"
    /\ close # "idle" ~> close = "closed"

====
