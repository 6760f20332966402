---------------------------- MODULE ProjectIndex ----------------------------
(***************************************************************************)
(* How the session index follows the project folder: the scan of a freshly *)
(* opened project, the watcher loop with its planner and request queue,    *)
(* the reconciler that both the watcher and a text save call, the marks    *)
(* that move with their files, the derived text of a row, and the close    *)
(* that ends all of it.  The folder belongs to other programs too: they    *)
(* create, write, rename, replace and remove files at any time, also while *)
(* a walk is under way, and the watcher only ever learns which paths to    *)
(* look at again.                                                          *)
(*                                                                         *)
(* A file is an inode and the stamp of its last write; a row is what the   *)
(* index knows of a file.  Folders are fixed; Holds gives the paths below  *)
(* a folder and Root holds all of them.                                    *)
(***************************************************************************)
EXTENDS Naturals, Sequences, FiniteSets

CONSTANTS
    Paths,         \* the paths a file can have
    Folders,       \* the folders, Root among them
    Root,          \* the project folder
    Home,          \* the folder a path lies in
    Holds,         \* the paths at or below a folder
    WalkOrder,     \* the paths in the order a walk meets them
    FirstInode,    \* the inode at each path when the project is opened, or 0
    FirstMarks,    \* the paths marked in the portable store at that time
    MaxQueued,     \* MAX_QUEUED_RECONCILES
    MaxWrites,     \* bound: changes by other programs and saves together
    MaxSaves       \* bound: text saves made through the program

\* A folder can have files of its own, so no two folders hold the same paths.
ASSUME FoldersAssumption ==
    /\ IsFiniteSet(Paths)
    /\ Holds \in [Folders -> SUBSET Paths] /\ Home \in [Paths -> Folders]
    /\ Root \in Folders /\ Holds[Root] = Paths
    /\ \A f, g \in Folders :
          /\ Holds[f] \cap Holds[g] = {} \/ Holds[f] \subseteq Holds[g] \/ Holds[g] \subseteq Holds[f]
          /\ Holds[f] = Holds[g] => f = g
    /\ \A f \in Folders : Holds[f] # {}
    /\ \A p \in Paths : p \in Holds[Home[p]]
    /\ {WalkOrder[i] : i \in DOMAIN WalkOrder} = Paths
\* No two paths are links to one file.
ASSUME FilesAssumption ==
    /\ FirstInode \in [Paths -> 0 .. Cardinality(Paths)]
    /\ \A p, q \in Paths : FirstInode[p] = FirstInode[q] /\ FirstInode[p] # 0 => p = q
ASSUME BoundsAssumption ==
    /\ MaxQueued \in Nat \ {0}
    /\ MaxWrites \in Nat /\ MaxSaves \in Nat

VARIABLES
    disk,      \* the folder: a file or NoFile at each path
    store,     \* the paths that carry a mark in the portable store
    index,     \* the rows of the session index
    lane,      \* who holds the session's write lane
    heard,     \* paths the platform has noticed and not yet delivered
    pending,   \* the planner's events since its last request
    queue,     \* requests the watcher loop has not started
    loop,      \* where the watcher loop stands
    rec,       \* the reconcile each caller has under way
    derive,    \* the derived work each caller has under way
    scan,      \* the scan of the project
    close,     \* how far the close of the project has come
    errors,    \* the failures the watcher loop has announced
    spent      \* writes and saves so far

vars == <<disk, store, index, lane, heard, pending, queue, loop, rec, derive,
          scan, close, errors, spent>>

Callers == {"watcher", "saver"}    \* of the reconciler
Workers == {"watcher", "scan"}     \* of the derived work

NoFile == [id |-> 0, stamp |-> 0]
Stamp == spent.writes + 1
NewInode == Cardinality(Paths) + Stamp

Idle == [pc |-> "idle", roots |-> {}, todo |-> {}, seen |-> {}, moves |-> {}]
Rested == [todo |-> {}, node |-> {}, read |-> "no", body |-> NoFile]
NoEvents == [homes |-> {}, overflow |-> FALSE]

\* The session is the one the task coordinator publishes for.
Current == close = "open"

Covered(roots) == UNION {Holds[f] : f \in roots}

\* The path that a walk with these paths left meets next.
NextOf(paths) ==
    LET at == {i \in DOMAIN WalkOrder : WalkOrder[i] \in paths}
    IN WalkOrder[CHOOSE i \in at : \A j \in at : i <= j]

-----------------------------------------------------------------------------
(* Rows                                                                    *)

Sight(p) == {[id |-> disk[p].id, path |-> p, stamp |-> disk[p].stamp] :
                f \in {disk[p]} \ {NoFile}}
Node(r) == [id |-> r.id, path |-> r.path, stamp |-> r.stamp]
NewRow(s) == [id |-> s.id, path |-> s.path, stamp |-> s.stamp,
              text |-> "pending", body |-> NoFile, mark |-> FALSE]
RowsOf(id) == {r \in index : r.id = id}
RowsAt(p) == {r \in index : r.path = p}

\* (mutant: a new content keeps the old text)
Merged_KeepsText(s) ==
    IF RowsOf(s.id) = {} THEN NewRow(s)
    ELSE LET r == CHOOSE r \in RowsOf(s.id) : TRUE
         IN [r EXCEPT !.path = s.path, !.stamp = s.stamp]

\* What a reconcile leaves of a row it has seen on disk: a new content resets
\* the derived text, a new path alone keeps it, the mark stays with the row.
Merged(s) ==
    IF RowsOf(s.id) = {} THEN NewRow(s)
    ELSE LET r == CHOOSE r \in RowsOf(s.id) : TRUE
         IN IF r.stamp # s.stamp
            THEN [NewRow(s) EXCEPT !.mark = r.mark]
            ELSE [r EXCEPT !.path = s.path]

\* The rows after the paths of the roots were seen to hold exactly these files.
Reconciled(roots, seen) ==
    {r \in index : /\ r.path \notin Covered(roots)
                   /\ \A s \in seen : s.id # r.id}
        \cup {Merged(s) : s \in seen}

\* A file met twice by one walk, or two rows on one path, refuse the commit.
Acceptable(roots, seen) ==
    /\ \A s, t \in seen : s.id = t.id => s = t
    /\ \A r, q \in Reconciled(roots, seen) : r.path = q.path => r = q

IdentityMoves(seen) ==
    {m \in Paths \X Paths : \E r \in index, s \in seen :
        r.id = s.id /\ r.path # s.path /\ m = <<r.path, s.path>>}

\* A mark that would arrive on a path whose own mark stays is a conflict.
MarksCollide(moves) ==
    \E m \in moves : /\ m[1] \in store /\ m[2] \in store
                     /\ \A n \in moves : n[1] # m[2]
\* (mutant: the mark is taken from the old path only)
MovedMarks_SourceOnly(moves) == {p \in store : \A m \in moves : m[1] # p}
MovedMarks(moves) ==
    {p \in store : \A m \in moves : m[1] # p}
        \cup {m[2] : m \in {n \in moves : n[1] \in store}}

-----------------------------------------------------------------------------
(* Other programs at work in the folder.  The platform notices every path  *)
(* they touch.                                                             *)

Change(f, touched) ==
    /\ spent.writes < MaxWrites /\ Current
    /\ disk' = f
    /\ heard' = heard \cup touched
    /\ spent' = [spent EXCEPT !.writes = @ + 1]
    /\ UNCHANGED <<store, index, lane, pending, queue, loop, rec, derive,
                   scan, close, errors>>

\* An editor that writes in place, or one that writes aside and renames.
WriteFile(p) ==
    /\ disk[p] # NoFile
    /\ Change([disk EXCEPT ![p].stamp = Stamp], {p})
PutFile(p) == Change([disk EXCEPT ![p] = [id |-> NewInode, stamp |-> Stamp]], {p})
RemoveFile(p) ==
    /\ disk[p] # NoFile
    /\ Change([disk EXCEPT ![p] = NoFile], {p})
MoveFile(p, q) ==
    /\ p # q /\ disk[p] # NoFile
    /\ Change([disk EXCEPT ![p] = NoFile, ![q] = disk[p]], {p, q})

OtherProgram ==
    \/ \E p \in Paths : WriteFile(p) \/ PutFile(p) \/ RemoveFile(p)
    \/ \E p, q \in Paths : MoveFile(p, q)

-----------------------------------------------------------------------------
(* The planner and the queue                                               *)

\* No root below another root.
Minimized(roots) == {f \in roots : \A g \in roots \ {f} : ~(Holds[f] \subseteq Holds[g])}

\* smallest_common_parent.
CommonParent(folders) ==
    CHOOSE f \in Folders :
        /\ Covered(folders) \subseteq Holds[f]
        /\ \A g \in Folders : Covered(folders) \subseteq Holds[g] => Holds[f] \subseteq Holds[g]

\* take_request: the folders of the paths, or, after an overflow, one folder
\* that holds all of them.
RequestOf(events) ==
    IF events.overflow THEN {CommonParent(events.homes)} ELSE Minimized(events.homes)

\* (mutant: a full queue takes no more)
Enqueued_Full(request) ==
    IF Len(queue) < MaxQueued THEN Append(queue, request) ELSE queue

\* enqueue_reconcile: a full queue is replaced by one request for everything.
Enqueued(request) ==
    IF Len(queue) < MaxQueued THEN Append(queue, request) ELSE <<{Root}>>

\* A batch of the platform reaches the planner.  Paths it could not deliver
\* one by one arrive as an overflow: of the paths it still knows, or of none.
\* (A batch that comes late first closes the request before it: a Flush.)
Push(batch, overflow) ==
    /\ loop = "select" /\ close # "stopping"
    /\ batch # {} /\ batch \subseteq heard
    /\ heard' = heard \ batch
    /\ LET places == IF overflow = "everywhere" THEN {Root}
                     ELSE {Home[p] : p \in batch}
           homes == Minimized(pending.homes \cup places)
       IN pending' = [homes |-> homes,
                      overflow |-> /\ homes # {Root}
                                   /\ pending.overflow \/ overflow # "none"]
    /\ UNCHANGED <<disk, store, index, lane, queue, loop, rec, derive, scan,
                   close, errors, spent>>

\* The tick after a quiet period turns the events into a request.
Flush ==
    /\ loop = "select" /\ pending # NoEvents
    /\ queue' = Enqueued(RequestOf(pending))
    /\ pending' = NoEvents
    /\ UNCHANGED <<disk, store, index, lane, heard, loop, rec, derive, scan,
                   close, errors, spent>>

-----------------------------------------------------------------------------
(* The reconciler.  One request at a time holds the write lane; the walk   *)
(* looks at one path after another while the folder goes on changing.      *)

Ended(c) == rec' = [rec EXCEPT ![c] = Idle]

\* (mutant: a stale session leaves the loop where it is)
WatcherGoesOn_StaleStays(c, outcome) ==
    IF c # "watcher" \/ outcome = "StaleSession" THEN UNCHANGED <<loop, errors, derive>>
    ELSE /\ errors' = errors \cup ({outcome} \ {"ok"})
         /\ loop' = "rebuild"
         /\ derive' = [derive EXCEPT !["watcher"].todo =
                {Node(r) : r \in {x \in index' : x.path \in Covered(rec[c].roots)}}]

\* What follows the end of a reconcile for its caller: the watcher loop
\* announces a failure and rebuilds, unless the session is gone.
WatcherGoesOn(c, outcome) ==
    IF c # "watcher" THEN UNCHANGED <<loop, errors, derive>>
    ELSE IF outcome = "StaleSession"
    THEN loop' = "select" /\ UNCHANGED <<errors, derive>>
    ELSE /\ errors' = errors \cup ({outcome} \ {"ok"})
         /\ loop' = "rebuild"
         /\ derive' = [derive EXCEPT !["watcher"].todo =
                {Node(r) : r \in {x \in index' : x.path \in Covered(rec[c].roots)}}]

Give(c, outcome) ==
    /\ Ended(c)
    /\ lane' = "free"
    /\ WatcherGoesOn(c, outcome)

TakeLane(c) ==
    /\ rec[c].pc = "lane" /\ lane = "free"
    /\ IF Current
       THEN /\ lane' = c
            /\ rec' = [rec EXCEPT ![c].pc = "walk",
                                  ![c].todo = Covered(rec[c].roots)]
            /\ UNCHANGED <<loop, errors, derive>>
       ELSE UNCHANGED lane /\ Ended(c) /\ WatcherGoesOn(c, "StaleSession")
    /\ UNCHANGED <<disk, store, index, heard, pending, queue, scan, close, spent>>

\* snapshot_subtrees meets one path.
Walk(c) ==
    /\ rec[c].pc = "walk"
    /\ \E p \in rec[c].todo :
          /\ p = NextOf(rec[c].todo)
          /\ rec' = [rec EXCEPT ![c].todo = @ \ {p}, ![c].seen = @ \cup Sight(p)]
    /\ UNCHANGED <<disk, store, index, lane, heard, pending, queue, loop,
                   derive, scan, close, errors, spent>>

\* reconcile_identity_moves: rows whose file was seen at another path.
PlanMoves(c) ==
    /\ rec[c].pc = "walk" /\ rec[c].todo = {}
    /\ IF Current /\ Acceptable(rec[c].roots, rec[c].seen)
       THEN /\ rec' = [rec EXCEPT ![c].pc = "marks",
                                  ![c].moves = IdentityMoves(rec[c].seen)]
            /\ UNCHANGED <<lane, loop, errors, derive, index>>
       ELSE /\ UNCHANGED index
            /\ Give(c, IF Current THEN "IndexUnavailable" ELSE "StaleSession")
    /\ UNCHANGED <<disk, store, heard, pending, queue, scan, close, spent>>

\* move_paths, in one transaction of the portable store.  Whether the session is
\* current was asked before the call and is asked after it, not during it.
MoveMarks(c) ==
    /\ rec[c].pc = "marks"
    /\ UNCHANGED <<disk, index, heard, pending, queue, scan, close, spent>>
    /\ IF MarksCollide(rec[c].moves)
       THEN UNCHANGED store /\ Give(c, "MarkerUnavailable")
       ELSE /\ store' = MovedMarks(rec[c].moves)
            /\ IF Current
               THEN /\ rec' = [rec EXCEPT ![c].pc = "commit"]
                    /\ UNCHANGED <<lane, loop, errors, derive>>
               ELSE Give(c, "StaleSession")

\* reconcile_subtrees, in one transaction of the index, and the last question.
Commit(c) ==
    /\ rec[c].pc = "commit"
    /\ LET accepted == Acceptable(rec[c].roots, rec[c].seen)
       IN /\ index' = IF accepted THEN Reconciled(rec[c].roots, rec[c].seen)
                      ELSE index
          /\ Give(c, IF ~accepted THEN "IndexUnavailable"
                     ELSE IF Current THEN "ok" ELSE "StaleSession")
    /\ UNCHANGED <<disk, store, heard, pending, queue, scan, close, spent>>

Reconcile(c) ==
    \/ TakeLane(c)
    \/ Walk(c)
    \/ PlanMoves(c)
    \/ MoveMarks(c)
    \/ Commit(c)

-----------------------------------------------------------------------------
(* Derived text: rows that are pending are read from the disk one by one.  *)
(* Between looking at the row, checking the file, reading it and writing   *)
(* the text, the row and the file may change.                              *)

Working(w) == derive[w].node # {} \/ derive[w].todo # {}

Consider(w, n) ==
    /\ derive[w].node = {}
    /\ n \in derive[w].todo /\ n.path = NextOf({m.path : m \in derive[w].todo})
    /\ derive' = [derive EXCEPT ![w] =
          IF ~Current THEN Rested
          ELSE [@ EXCEPT !.todo = derive[w].todo \ {n},
                         !.node = {r \in {n} : \E x \in index :
                                      Node(x) = n /\ x.text = "pending"}]]
    /\ UNCHANGED <<disk, store, index, lane, heard, pending, queue, loop, rec,
                   scan, close, errors, spent>>

\* validated_indexed_source: the path still leads to the file of the row.
Validate(w) ==
    /\ derive[w].read = "no"
    /\ \E n \in derive[w].node :
          derive' = [derive EXCEPT ![w] =
             IF ~Current THEN Rested
             ELSE [@ EXCEPT !.read = IF disk[n.path].id = n.id THEN "checked" ELSE "failed"]]
    /\ UNCHANGED <<disk, store, index, lane, heard, pending, queue, loop, rec,
                   scan, close, errors, spent>>

\* Another thread opens the path again, and reads whatever file is there by then.
Extract(w) ==
    /\ derive[w].read = "checked"
    /\ \E n \in derive[w].node :
          derive' = [derive EXCEPT ![w] =
             IF disk[n.path] = NoFile THEN [@ EXCEPT !.read = "failed"]
             ELSE [@ EXCEPT !.read = "ready", !.body = disk[n.path]]]
    /\ UNCHANGED <<disk, store, index, lane, heard, pending, queue, loop, rec,
                   scan, close, errors, spent>>

\* replace_text and mark_text_failed: the row is found by entity and path.
WriteText(w) ==
    /\ derive[w].read \in {"ready", "failed"}
    /\ \E n \in derive[w].node :
          index' = {IF r.id = n.id /\ r.path = n.path
                    THEN [r EXCEPT !.text = derive[w].read,
                                   !.body = derive[w].body]
                    ELSE r : r \in index}
    /\ derive' = [derive EXCEPT ![w] = [Rested EXCEPT !.todo = derive[w].todo]]
    /\ UNCHANGED <<disk, store, lane, heard, pending, queue, loop, rec, scan,
                   close, errors, spent>>

Derive(w) ==
    \/ \E n \in derive[w].todo : Consider(w, n)
    \/ Validate(w)
    \/ Extract(w)
    \/ WriteText(w)

-----------------------------------------------------------------------------
(* The watcher loop                                                        *)

\* Drains the queue once the scan is done.
StartRequest ==
    /\ loop = "select" /\ scan.pc = "done" /\ queue # <<>>
    /\ close # "stopping"
    /\ queue' = Tail(queue)
    /\ IF Current
       THEN /\ loop' = "reconcile"
            /\ rec' = [rec EXCEPT !["watcher"] =
                  [Idle EXCEPT !.pc = "lane", !.roots = Head(queue)]]
       ELSE UNCHANGED <<loop, rec>>
    /\ UNCHANGED <<disk, store, index, lane, heard, pending, derive, scan,
                   close, errors, spent>>

RebuildEnds ==
    /\ loop = "rebuild" /\ ~Working("watcher")
    /\ loop' = "select"
    /\ UNCHANGED <<disk, store, index, lane, heard, pending, queue, rec,
                   derive, scan, close, errors, spent>>

\* The stop flag of a close, or a scan that ended without saying "ready".
LoopEnds ==
    /\ loop = "select"
    /\ close = "stopping" \/ scan.pc \in {"failed", "cancelled"}
    /\ loop' = "ended"
    /\ UNCHANGED <<disk, store, index, lane, heard, pending, queue, rec,
                   derive, scan, close, errors, spent>>

-----------------------------------------------------------------------------
(* The scan.  Files are published after the walk, a batch at a time.       *)

ScanWalk ==
    /\ scan.pc = "walk"
    /\ \E p \in scan.todo :
          /\ p = NextOf(scan.todo)
          /\ scan' = [scan EXCEPT !.todo = @ \ {p}, !.seen = @ \cup Sight(p)]
    /\ UNCHANGED <<disk, store, index, lane, heard, pending, queue, loop, rec,
                   derive, close, errors, spent>>

\* upsert_batch: keyed by entity; a path that is taken fails the whole scan.
ScanPublish(s) ==
    /\ scan.pc = "walk" /\ scan.todo = {}
    /\ s \in scan.seen /\ s.path = NextOf({t.path : t \in scan.seen})
    /\ IF \E r \in RowsAt(s.path) : r.id # s.id
       THEN scan' = [scan EXCEPT !.pc = "failed"] /\ UNCHANGED index
       ELSE /\ scan' = [scan EXCEPT !.seen = @ \ {s}]
            /\ index' = (index \ RowsOf(s.id)) \cup
                  (IF RowsOf(s.id) = {} THEN {NewRow(s)}
                   ELSE {[r EXCEPT !.path = s.path, !.stamp = s.stamp] :
                            r \in RowsOf(s.id)})
    /\ UNCHANGED <<disk, store, lane, heard, pending, queue, loop, rec,
                   derive, close, errors, spent>>

\* A scan whose session is gone returns before it hydrates.
ScanGivesUp ==
    /\ scan.pc = "walk" /\ ~Current
    /\ scan' = [scan EXCEPT !.pc = "cancelled"]
    /\ UNCHANGED <<disk, store, index, lane, heard, pending, queue, loop, rec,
                   derive, close, errors, spent>>

\* hydrate_portable_markers, under the write lane, and the rows to derive.
Hydrate ==
    /\ scan.pc = "walk" /\ scan.todo = {} /\ scan.seen = {} /\ lane = "free"
    /\ index' = {[r EXCEPT !.mark = @ \/ r.path \in store] : r \in index}
    /\ scan' = [scan EXCEPT !.pc = "derive"]
    /\ derive' = [derive EXCEPT !["scan"].todo =
          IF Current THEN {Node(r) : r \in index} ELSE {}]
    /\ UNCHANGED <<disk, store, lane, heard, pending, queue, loop, rec,
                   close, errors, spent>>

ScanReady ==
    /\ scan.pc = "derive" /\ ~Working("scan")
    /\ scan' = [scan EXCEPT !.pc = "done"]
    /\ UNCHANGED <<disk, store, index, lane, heard, pending, queue, loop, rec,
                   derive, close, errors, spent>>

\* cancel_task: the user gives up on the scan.
CancelScan ==
    /\ Current /\ scan.pc \in {"walk", "derive"}
    /\ scan' = [scan EXCEPT !.pc = "cancelled"]
    /\ derive' = [derive EXCEPT !["scan"] = Rested]
    /\ UNCHANGED <<disk, store, index, lane, heard, pending, queue, loop, rec,
                   close, errors, spent>>

Scan ==
    \/ ScanWalk
    \/ \E s \in scan.seen : ScanPublish(s)
    \/ ScanGivesUp
    \/ Hydrate
    \/ ScanReady

-----------------------------------------------------------------------------
(* Saving a text: an atomic rename puts a new inode at the path, or a copy *)
(* appears beside it; the folder is reconciled after the lane is given up. *)

SaveText(p, q) ==
    /\ Current /\ spent.writes < MaxWrites /\ spent.saves < MaxSaves
    /\ rec["saver"] = Idle /\ lane = "free"
    /\ \E r \in RowsAt(p) : r.id = disk[p].id
    /\ q = p \/ (disk[q] = NoFile /\ Home[q] = Home[p])
    /\ disk' = [disk EXCEPT ![q] = [id |-> NewInode, stamp |-> Stamp]]
    /\ heard' = heard \cup {q}
    /\ spent' = [spent EXCEPT !.writes = @ + 1, !.saves = @ + 1]
    /\ rec' = [rec EXCEPT !["saver"] =
          [Idle EXCEPT !.pc = "lane", !.roots = {Home[p]}]]
    /\ UNCHANGED <<store, index, lane, pending, queue, loop, derive, scan,
                   close, errors>>

-----------------------------------------------------------------------------
(* Closing the project.  It waits for a save, which holds the lifecycle    *)
(* gate, but not for the scan or the watcher loop.                         *)

CloseProject ==
    /\ close = "open" /\ rec["saver"] = Idle
    /\ close' = "cancelled"
    /\ UNCHANGED <<disk, store, index, lane, heard, pending, queue, loop, rec,
                   derive, scan, errors, spent>>

StopWatcher ==
    /\ close = "cancelled"
    /\ close' = "stopping"
    /\ UNCHANGED <<disk, store, index, lane, heard, pending, queue, loop, rec,
                   derive, scan, errors, spent>>

\* (mutant: the scan is not aborted)
FinishClose_LeavesScan ==
    /\ close = "stopping" /\ loop = "ended" /\ lane = "free"
    /\ close' = "closed"
    /\ UNCHANGED <<disk, store, index, lane, heard, pending, queue, loop, rec,
                   derive, scan, errors, spent>>

FinishClose ==
    /\ close = "stopping" /\ loop = "ended" /\ lane = "free"
    /\ close' = "closed"
    /\ scan' = IF scan.pc = "done" THEN scan ELSE [scan EXCEPT !.pc = "cancelled"]
    /\ derive' = [derive EXCEPT !["scan"] = Rested]
    /\ UNCHANGED <<disk, store, index, lane, heard, pending, queue, loop, rec,
                   errors, spent>>

-----------------------------------------------------------------------------
Init ==
    /\ disk = [p \in Paths |-> [id |-> FirstInode[p], stamp |-> 0]]
    /\ store = FirstMarks
    /\ index = {}
    /\ lane = "free"
    /\ heard = {} /\ pending = NoEvents /\ queue = <<>>
    /\ loop = "select"
    /\ rec = [c \in Callers |-> Idle]
    /\ derive = [w \in Workers |-> Rested]
    /\ scan = [pc |-> "walk", todo |-> Paths, seen |-> {}]
    /\ close = "open"
    /\ errors = {}
    /\ spent = [writes |-> 0, saves |-> 0]

Deliver ==
    \E batch \in SUBSET heard, overflow \in {"none", "known", "everywhere"} :
       Push(batch, overflow)

WatcherTask ==
    \/ Deliver \/ Flush \/ StartRequest
    \/ Reconcile("watcher") \/ Derive("watcher") \/ RebuildEnds
    \/ LoopEnds
ScanTask == Scan \/ Derive("scan")
CloseTask == StopWatcher \/ FinishClose

Next ==
    \/ OtherProgram
    \/ WatcherTask \/ ScanTask \/ CloseTask
    \/ CancelScan \/ CloseProject
    \/ \E p, q \in Paths : SaveText(p, q)
    \/ Reconcile("saver")

\* Every task the program has started runs on, and the platform delivers what
\* it noticed; nothing in a task repeats for ever.  Other programs, the user's
\* saves, cancels and the close may never happen.
Fairness ==
    /\ WF_vars(WatcherTask)
    /\ WF_vars(ScanTask)
    /\ WF_vars(CloseTask)
    /\ WF_vars(Reconcile("saver"))

Spec == Init /\ [][Next]_vars /\ Fairness

-----------------------------------------------------------------------------
(* Properties                                                              *)

IndexAgrees(p) == {Node(r) : r \in RowsAt(p)} = Sight(p)

\* Nothing left to hear of, to plan, to reconcile or to rebuild.
Settled ==
    /\ heard = {} /\ pending = NoEvents /\ queue = <<>> /\ loop = "select"
    /\ scan.pc = "done" /\ \A c \in Callers : rec[c] = Idle

\* Somebody has still to look at the path.
Awaited(p) ==
    \/ p \in heard \/ p \in Covered(RequestOf(pending))
    \/ \E i \in DOMAIN queue : p \in Covered(queue[i])
    \/ \E c \in Callers : rec[c].pc # "idle" /\ p \in Covered(rec[c].roots)
    \/ p \in scan.todo \/ \E s \in scan.seen : s.path = p

\* A path where the index differs from the folder is always still awaited:
\* no overflow of the queue, no walk of a folder that changes under it, no
\* split of one rename over two requests and no overtaking between the scan,
\* the watcher and a save makes the program forget a change.
NoChangeIsForgotten ==
    (Current /\ scan.pc \in {"walk", "derive", "done"} /\ errors = {})
        => \A p \in Paths : IndexAgrees(p) \/ Awaited(p)

\* Once everything is quiet, the text the search finds for a row is the text the file
\* has now, although the row, the file and the text are looked at, read and written at
\* different moments.  The one exception: text that was read from another file, which
\* took the path after the check of the file and before it was opened; such a text
\* stays with the row when the row's own file was only moved.  (A save may break this
\* too: see the README.)
TextIsCurrent ==
    (Settled /\ Current /\ errors = {} /\ spent.saves = 0) =>
        \A r \in index : r.text = "ready" => r.body = disk[r.path] \/ r.body.id # r.id

\* The mark a row shows is in the portable store at the row's path: a file
\* that another program moved takes its mark along, in the store first and in
\* the index after it, and neither alone.
ShownMarkIsStored ==
    (Current /\ \A c \in Callers : rec[c].pc # "commit") =>
        \A r \in index : r.mark => r.path \in store

\* After a save through the program, and nothing else, the row of the saved
\* path still shows the mark that the portable store has for it.
StoredMarkIsShown ==
    (Settled /\ Current /\ spent.saves = spent.writes) =>
        \A r \in index : r.path \in store => r.mark

\* Once the close of the project has returned, nothing writes to the index,
\* which is being deleted, or to the portable store.
ClosedIsQuiet == [][close = "closed" => UNCHANGED <<store, index>>]_vars

\* In the end a close that has begun has returned, nobody it waits for having
\* waited for it; and while the project stays open the index has come to agree
\* with the folder, unless the scan was cancelled or failed or the loop has
\* announced that a request failed.
ComesToRest ==
    <>[]( /\ close \in {"open", "closed"}
          /\ \/ close = "closed"
             \/ scan.pc \in {"failed", "cancelled"}
             \/ errors # {}
             \/ \A p \in Paths : IndexAgrees(p) )

=============================================================================
