------------------------- MODULE ProjectIndex_proofs -------------------------
(***************************************************************************)
(* Theorems about ProjectIndex, for every tree of folders and any number    *)
(* of files, changes by other programs, saves, cancellations and closes:    *)
(* no change of the folder is forgotten, a mark that is shown is stored, a  *)
(* text that can be found is the one the file has, and a closed project is  *)
(* left alone.                                                             *)
(*                                                                         *)
(* BaseInv is about the tasks: who holds the write lane, and which paths    *)
(* each walk has behind it.  LookInv is about the folder: a path whose row  *)
(* is wrong will be looked at again, and what a walk has seen is still so,  *)
(* or will be looked at again.  MarkInv and TextInv say the same of marks   *)
(* and texts that are on their way.                                         *)
(***************************************************************************)
EXTENDS ProjectIndex, FiniteSetTheorems, WellFoundedInduction, TLAPS

-----------------------------------------------------------------------------
(* What every state is made of.                                            *)

Nodes == [id : Nat, path : Paths, stamp : Nat]
Contents == [id : Nat, stamp : Nat]
Rows == [id : Nat, path : Paths, stamp : Nat, text : {"pending", "ready", "failed"},
         body : Contents, mark : BOOLEAN]
Requests == SUBSET Folders
Holding == {"walk", "marks", "commit"}
Running == [pc : {"idle", "lane"} \cup Holding, roots : Requests, todo : SUBSET Paths,
            seen : SUBSET Nodes, moves : SUBSET (Paths \X Paths)]
Deriving == [todo : SUBSET Nodes, node : SUBSET Nodes,
             read : {"no", "checked", "ready", "failed"}, body : Contents]
Scanning == [pc : {"walk", "derive", "done", "failed", "cancelled"}, todo : SUBSET Paths,
             seen : SUBSET Nodes]

TypesFiles ==
    /\ disk \in [Paths -> Contents]
    /\ heard \subseteq Paths
    /\ spent \in [writes : Nat, saves : Nat]
TypesIndex ==
    /\ index \subseteq Rows
    /\ scan \in Scanning
    /\ derive \in [Workers -> Deriving]
TypesLoop ==
    /\ pending \in [homes : Requests, overflow : BOOLEAN]
    /\ pending.overflow => pending.homes # {}
    /\ queue \in Seq(Requests)
    /\ loop \in {"select", "reconcile", "rebuild", "ended"}
    /\ close \in {"open", "cancelled", "stopping", "closed"}
TypesLane ==
    /\ rec \in [Callers -> Running]
    /\ lane \in Callers \cup {"free"}
Types == TypesFiles /\ TypesIndex /\ TypesLoop /\ TypesLane

\* Inodes are never used twice and stamps never come back.
FilesAreDistinct ==
    /\ \A p \in Paths : /\ disk[p].id <= Cardinality(Paths) + spent.writes
                        /\ disk[p].stamp <= spent.writes
                        /\ disk[p].id = 0 => disk[p] = NoFile
    /\ \A p, q \in Paths : disk[p].id = disk[q].id /\ disk[p].id # 0 => p = q

Known(n) ==
    n.id # 0 /\ n.id <= Cardinality(Paths) + spent.writes /\ n.stamp <= spent.writes

\* The index is keyed by file and by path.
RowsAreDistinct ==
    /\ \A r \in index : Known(r)
    /\ \A r, q \in index : r.id = q.id \/ r.path = q.path => r = q

\* The write lane belongs to the one caller that walks, moves marks or commits.
LaneIsHeld == \A c \in Callers : lane = c <=> rec[c].pc \in Holding

\* What a caller has seen of its roots so far.
SightsFitTheWalk(c) ==
    /\ rec[c].pc = "idle" => rec[c] = Idle
    /\ rec[c].pc = "lane" => rec[c].seen = {}
    /\ rec[c].todo \subseteq Covered(rec[c].roots)
    /\ rec[c].pc \in {"marks", "commit"} => rec[c].todo = {}
    /\ \A s \in rec[c].seen : s.path \in Covered(rec[c].roots) \ rec[c].todo /\ Known(s)
    /\ \A s, t \in rec[c].seen : s.path = t.path => s = t
    /\ rec[c].pc \in {"marks", "commit"} => \A s, t \in rec[c].seen : s.id = t.id => s = t

SightsFitTheScan ==
    /\ scan.pc \in {"derive", "done"} => scan.todo = {} /\ scan.seen = {}
    /\ \A s \in scan.seen : s.path \notin scan.todo /\ Known(s)
    /\ \A s, t \in scan.seen : s.path = t.path => s = t

\* Which task does what, and when.
TasksTakeTurns ==
    /\ loop = "reconcile" <=> rec["watcher"].pc # "idle"
    /\ loop # "rebuild" => ~Working("watcher")
    /\ loop \in {"reconcile", "rebuild"} => scan.pc = "done"
    /\ scan.pc # "derive" => ~Working("scan")

CloseWaits ==
    /\ close # "open" => rec["saver"].pc = "idle"
    /\ close = "closed" => /\ loop = "ended" /\ lane = "free"
                           /\ scan.pc \in {"done", "cancelled"}

BaseInv ==
    /\ Types /\ FilesAreDistinct /\ RowsAreDistinct /\ LaneIsHeld
    /\ \A c \in Callers : SightsFitTheWalk(c)
    /\ SightsFitTheScan /\ TasksTakeTurns /\ CloseWaits

-----------------------------------------------------------------------------
(* What is still to be looked at.                                          *)

\* The path has been touched since it was last looked at, and nobody has started
\* to look again.
Told(p) ==
    \/ p \in heard \/ p \in Covered(pending.homes)
    \/ \E i \in DOMAIN queue : p \in Covered(queue[i])

\* The watcher will look at the path, or is about to.
Noticed(p) ==
    Told(p) \/ (rec["watcher"].pc # "idle" /\ p \in Covered(rec["watcher"].roots))

\* Somebody will look at the path after the caller that now holds the lane.
Later(c, p) ==
    \/ Told(p)
    \/ c = "saver" /\ rec["watcher"].pc = "lane" /\ p \in Covered(rec["watcher"].roots)

NodesAt(p) == {Node(r) : r \in RowsAt(p)}

\* A row shows nothing that is not there.
NothingStale(p) == Noticed(p) \/ NodesAt(p) \subseteq Sight(p)

\* A file has its row.
NothingMissing(p) ==
    \/ Noticed(p) \/ Sight(p) \subseteq NodesAt(p)
    \/ p \in scan.todo \/ \E s \in scan.seen : s.path = p

\* What the scan has seen is there, and nowhere else.
ScanIsFresh ==
    \A s \in scan.seen :
        /\ Noticed(s.path) \/ Sight(s.path) = {s}
        /\ \A p \in Paths : disk[p].id = s.id /\ p # s.path => Noticed(p)

\* What the holder of the lane has seen is there, and nowhere else.
WalkIsFresh(c) ==
    rec[c].pc \in Holding =>
        /\ \A p \in Covered(rec[c].roots) \ rec[c].todo :
              Later(c, p) \/ {s \in rec[c].seen : s.path = p} = Sight(p)
        /\ \A s \in rec[c].seen, p \in Paths :
              disk[p].id = s.id /\ p # s.path => Later(c, p)

Live == Current /\ scan.pc \in {"walk", "derive", "done"} /\ errors = {}

LookInv ==
    Live => /\ \A p \in Paths : NothingStale(p) /\ NothingMissing(p)
            /\ ScanIsFresh
            /\ \A c \in Callers : WalkIsFresh(c)

-----------------------------------------------------------------------------
(* Marks                                                                   *)

\* Every row whose file the holder of the lane has seen has its mark where it was
\* seen, every other row that stays has it where it is.
MarksHaveMoved(c) ==
    \A r \in index : r.mark =>
        /\ \A s \in rec[c].seen : s.id = r.id => s.path \in store
        /\ (\A s \in rec[c].seen : s.id # r.id) /\ r.path \notin Covered(rec[c].roots)
              => r.path \in store

MarkInv ==
    /\ scan.pc = "walk" => \A r \in index : ~r.mark
    /\ \A c \in Callers :
          /\ rec[c].pc = "marks" /\ (\E r \in index : r.mark)
                => rec[c].moves = IdentityMoves(rec[c].seen)
          /\ rec[c].pc = "commit" /\ Current => MarksHaveMoved(c)
    /\ ShownMarkIsStored

-----------------------------------------------------------------------------
(* Texts                                                                   *)

\* The file that had this content has another one now, or is gone.
Outdated(n) == \A p \in Paths : disk[p].id = n.id => disk[p].stamp # n.stamp

\* What a worker has in hand: at most one node, and no text that was read from its file
\* while the file still has the content that the node names.
WorkInv(w) ==
    /\ derive[w].node = {} => derive[w].read = "no"
    /\ \A m, n \in derive[w].node : m = n
    /\ \A n \in derive[w].todo \cup derive[w].node : Known(n)
    /\ \A n \in derive[w].node :
          derive[w].read = "ready" /\ derive[w].body.id = n.id /\ derive[w].body.stamp # n.stamp
              => Outdated(n)

\* The row of a node in hand names the content that the node names.
RowsFitWork ==
    \A w \in Workers : \A n \in derive[w].node : \A r \in index :
        r.id = n.id /\ r.path = n.path => r.stamp = n.stamp

\* A text of the row's file is that of the content the row names, or the row is bound to
\* be renewed.
TextsFit ==
    \A r \in index :
        r.text = "ready" /\ r.body.id = r.id /\ r.body.stamp # r.stamp => Outdated(r)

TextInv ==
    /\ scan.pc = "walk" => \A r \in index : r.text = "pending"
    /\ \A w \in Workers : WorkInv(w)
    /\ spent.saves = 0 => rec["saver"].pc = "idle" /\ RowsFitWork /\ TextsFit

-----------------------------------------------------------------------------
(* Folders.                                                                *)

LEMMA Smallest ==
    ASSUME NEW T \in SUBSET Nat, T # {}
    PROVE  \E m \in T : \A n \in T : m <= n
<1> DEFINE R == OpToRel(<, Nat)
<1>1. IsWellFoundedOn(R, Nat)
  BY NatLessThanWellFounded
<1>2. ASSUME NEW x \in Nat, NEW y \in Nat, x < y
      PROVE  <<x, y>> \in R
  BY <1>2 DEF OpToRel
<1> HIDE DEF R
<1>3. PICK m \in T : \A n \in T : ~(<<n, m>> \in R)
  BY <1>1, WFMin
<1>4. \A n \in T : ~(n < m)
  BY <1>2, <1>3
<1>5. m \in Nat /\ \A n \in T : n \in Nat
  OBVIOUS
<1>6. ASSUME NEW n \in T
      PROVE  m <= n
  BY <1>4, <1>5
<1> QED  BY <1>6

LEMMA FolderSize ==
    ASSUME NEW f \in Folders, NEW g \in Folders, Holds[f] \subseteq Holds[g]
    PROVE  /\ Cardinality(Holds[f]) \in Nat /\ Cardinality(Holds[f]) <= Cardinality(Holds[g])
           /\ Cardinality(Holds[g]) <= Cardinality(Paths) /\ Cardinality(Paths) \in Nat
           /\ Cardinality(Holds[f]) = Cardinality(Holds[g]) => f = g
<1>1. IsFiniteSet(Paths) /\ Holds[f] \subseteq Paths /\ Holds[g] \subseteq Paths
  BY FoldersAssumption
<1>2. /\ IsFiniteSet(Holds[g]) /\ Cardinality(Holds[g]) <= Cardinality(Paths)
      /\ IsFiniteSet(Holds[f]) /\ Cardinality(Holds[f]) <= Cardinality(Holds[g])
  BY <1>1, FS_Subset
<1>3. Cardinality(Holds[f]) \in Nat /\ Cardinality(Paths) \in Nat
  BY <1>1, <1>2, FS_CardinalityType
<1>4. Cardinality(Holds[f]) = Cardinality(Holds[g]) => Holds[f] = Holds[g]
  BY <1>2, FS_Subset
<1> QED  BY <1>2, <1>3, <1>4, FoldersAssumption

\* Among some folders there is one that is not below another.
LEMMA Largest ==
    ASSUME NEW G \in SUBSET Folders, G # {}
    PROVE  \E g \in G : \A h \in G : Holds[g] \subseteq Holds[h] => h = g
<1> DEFINE Room(g) == Cardinality(Paths) - Cardinality(Holds[g])
           T == {Room(g) : g \in G}
<1>1. \A g \in G : Room(g) \in Nat
  BY FolderSize
<1>2. T \in SUBSET Nat /\ T # {}
  BY <1>1
<1>3. PICK m \in T : \A n \in T : m <= n
  BY <1>2, Smallest
<1>4. PICK g \in G : m = Room(g)
  BY <1>3
<1>5. ASSUME NEW h \in G, Holds[g] \subseteq Holds[h]
      PROVE  h = g
  <2>1. Room(g) <= Room(h)
    BY <1>3, <1>4
  <2>2. /\ Cardinality(Holds[g]) \in Nat /\ Cardinality(Holds[h]) \in Nat
        /\ Cardinality(Paths) \in Nat /\ Cardinality(Holds[g]) <= Cardinality(Holds[h])
        /\ Cardinality(Holds[g]) = Cardinality(Holds[h]) => g = h
    BY <1>5, FolderSize
  <2> QED  BY <2>1, <2>2
<1> QED  BY <1>5

\* minimize_roots loses no path.
LEMMA MinimizedCovers ==
    ASSUME NEW F \in SUBSET Folders
    PROVE  /\ Minimized(F) \subseteq F
           /\ Covered(Minimized(F)) = Covered(F)
           /\ F # {} => Minimized(F) # {}
<1>1. Minimized(F) \subseteq F
  BY DEF Minimized
<1>2. ASSUME NEW f \in F
      PROVE  \E g \in Minimized(F) : Holds[f] \subseteq Holds[g]
  <2> DEFINE G == {g \in F : Holds[f] \subseteq Holds[g]}
  <2>1. G \in SUBSET Folders /\ f \in G
    OBVIOUS
  <2>2. PICK g \in G : \A h \in G : Holds[g] \subseteq Holds[h] => h = g
    BY <2>1, Largest
  <2>3. g \in Minimized(F)
    BY <2>2 DEF Minimized
  <2> QED  BY <2>2, <2>3
<1>3. Covered(F) \subseteq Covered(Minimized(F))
  BY <1>2 DEF Covered
<1> QED  BY <1>1, <1>2, <1>3 DEF Covered

\* smallest_common_parent holds all of the folders it is asked about.
LEMMA ParentCovers ==
    ASSUME NEW F \in SUBSET Folders, F # {}
    PROVE  CommonParent(F) \in Folders /\ Covered(F) \subseteq Holds[CommonParent(F)]
<1> DEFINE G == {g \in Folders : Covered(F) \subseteq Holds[g]}
           Size(g) == Cardinality(Holds[g])
           T == {Size(g) : g \in G}
<1>1. Root \in G
  BY FoldersAssumption DEF Covered
<1>2. \A g \in Folders : Size(g) \in Nat
  BY FolderSize
<1>3. T \in SUBSET Nat /\ T # {}
  BY <1>1, <1>2
<1>4. PICK m \in T : \A n \in T : m <= n
  BY <1>3, Smallest
<1>5. PICK f \in G : m = Size(f)
  BY <1>4
<1>6. ASSUME NEW g \in Folders, Covered(F) \subseteq Holds[g]
      PROVE  Holds[f] \subseteq Holds[g]
  <2>1. PICK h \in F : Holds[h] # {}
    BY FoldersAssumption
  <2>2. Holds[f] \cap Holds[g] # {}
    BY <1>5, <1>6, <2>1 DEF Covered
  <2>3. Holds[f] \subseteq Holds[g] \/ Holds[g] \subseteq Holds[f]
    BY <2>2, FoldersAssumption
  <2>4. Size(f) <= Size(g) /\ Size(f) \in Nat /\ Size(g) \in Nat
    BY <1>2, <1>4, <1>5, <1>6
  <2>5. ASSUME Holds[g] \subseteq Holds[f]
        PROVE  f = g
    BY <2>4, <2>5, FolderSize
  <2> QED  BY <2>3, <2>5
<1>7. \E c \in Folders :
         /\ Covered(F) \subseteq Holds[c]
         /\ \A g \in Folders : Covered(F) \subseteq Holds[g] => Holds[c] \subseteq Holds[g]
  BY <1>5, <1>6
<1> QED  BY <1>7 DEF CommonParent

\* take_request asks for every folder that an event has named.
LEMMA RequestCovers ==
    ASSUME TypesLoop
    PROVE  RequestOf(pending) \in Requests /\ Covered(pending.homes) \subseteq Covered(RequestOf(pending))
<1>1. pending.homes \in SUBSET Folders
  BY DEF TypesLoop, Requests
<1>2. CASE pending.overflow
  <2>1. /\ CommonParent(pending.homes) \in Folders
        /\ Covered(pending.homes) \subseteq Holds[CommonParent(pending.homes)]
    BY <1>1, <1>2, ParentCovers DEF TypesLoop
  <2> QED  BY <1>2, <2>1 DEF RequestOf, Requests, Covered
<1>3. CASE ~pending.overflow
  BY <1>1, <1>3, MinimizedCovers DEF RequestOf, Requests
<1> QED  BY <1>2, <1>3

-----------------------------------------------------------------------------
(* Changes to the folder.                                                  *)

\* What another program, or a save, does to the folder in one step.
Edits(touched) ==
    \/ \E p \in Paths : /\ disk[p] # NoFile /\ disk' = [disk EXCEPT ![p].stamp = Stamp]
                        /\ touched = {p}
    \/ \E p \in Paths : /\ disk' = [disk EXCEPT ![p] = [id |-> NewInode, stamp |-> Stamp]]
                        /\ touched = {p}
    \/ \E p \in Paths : disk' = [disk EXCEPT ![p] = NoFile] /\ touched = {p}
    \/ \E p, q \in Paths : /\ p # q /\ disk' = [disk EXCEPT ![p] = NoFile, ![q] = disk[p]]
                           /\ touched = {p, q}

EditStep(touched) ==
    /\ Edits(touched) /\ Current
    /\ heard' = heard \cup touched
    /\ spent'.writes = spent.writes + 1
    /\ spent' \in [writes : Nat, saves : Nat]
    /\ UNCHANGED <<store, index, lane, pending, queue, loop, derive, scan, close, errors>>

LEMMA OtherEdits ==
    ASSUME TypesFiles, OtherProgram
    PROVE  (\E touched : EditStep(touched)) /\ rec' = rec /\ spent'.saves = spent.saves
<1>1. PICK f, touched : Change(f, touched) /\ (disk' = f => Edits(touched))
  <2>1. CASE \E p \in Paths : WriteFile(p)
    BY <2>1 DEF WriteFile, Edits
  <2>2. CASE \E p \in Paths : PutFile(p)
    BY <2>2 DEF PutFile, Edits
  <2>3. CASE \E p \in Paths : RemoveFile(p)
    BY <2>3 DEF RemoveFile, Edits
  <2>4. CASE \E p, q \in Paths : MoveFile(p, q)
    BY <2>4 DEF MoveFile, Edits
  <2> QED  BY <2>1, <2>2, <2>3, <2>4 DEF OtherProgram
<1>2. /\ disk' = f /\ Current /\ heard' = heard \cup touched
      /\ spent' = [spent EXCEPT !.writes = @ + 1]
      /\ UNCHANGED <<store, index, lane, pending, queue, loop, rec, derive, scan, close, errors>>
  BY <1>1 DEF Change
<1>3. /\ spent' \in [writes : Nat, saves : Nat] /\ spent'.writes = spent.writes + 1
      /\ spent'.saves = spent.saves
  BY <1>2 DEF TypesFiles
<1> QED  BY <1>1, <1>2, <1>3 DEF EditStep

LEMMA SaveEdits ==
    ASSUME Types, NEW p \in Paths, NEW q \in Paths, SaveText(p, q)
    PROVE  /\ \E touched : EditStep(touched)
           /\ rec["saver"] = Idle /\ rec' \in [Callers -> Running] /\ rec'["watcher"] = rec["watcher"]
           /\ rec'["saver"] = [Idle EXCEPT !.pc = "lane", !.roots = {Home[p]}]
           /\ spent'.saves > 0
<1>1. spent' \in [writes : Nat, saves : Nat] /\ spent'.writes = spent.writes + 1 /\ spent'.saves > 0
  <2>1. spent.writes \in Nat /\ spent.saves \in Nat /\ spent \in [writes : Nat, saves : Nat]
    BY DEF Types, TypesFiles
  <2> DEFINE w == spent.writes + 1
             s == spent.saves + 1
  <2>2. w \in Nat /\ s \in Nat /\ s > 0
    BY <2>1
  <2>3. spent' = [spent EXCEPT !.writes = w, !.saves = s]
    BY DEF SaveText
  <2> HIDE DEF s
  <2> QED  BY <2>1, <2>2, <2>3
<1>2. EditStep({q})
  BY <1>1 DEF SaveText, EditStep, Edits
<1>3. Home[p] \in Folders
  BY FoldersAssumption
<1>4. [Idle EXCEPT !.pc = "lane", !.roots = {Home[p]}] \in Running
  BY <1>3 DEF Idle, Running, Requests
<1>5. rec' = [rec EXCEPT !["saver"] = [Idle EXCEPT !.pc = "lane", !.roots = {Home[p]}]]
  BY DEF SaveText
<1> HIDE DEF Idle, Running
<1>6. /\ rec' \in [Callers -> Running] /\ rec'["watcher"] = rec["watcher"]
      /\ rec'["saver"] = [Idle EXCEPT !.pc = "lane", !.roots = {Home[p]}]
  BY <1>4, <1>5 DEF Types, TypesLane, Callers
<1> QED  BY <1>1, <1>2, <1>6 DEF SaveText

LEMMA EditedFiles ==
    ASSUME TypesFiles, FilesAreDistinct, NEW touched, EditStep(touched)
    PROVE  /\ TypesFiles' /\ FilesAreDistinct'
           /\ touched \subseteq Paths /\ \A q \in Paths \ touched : disk'[q] = disk[q]
           /\ \A n \in Nodes \cup Rows : Known(n) => Known(n)'
           /\ \A n \in Nodes \cup Rows : Known(n) /\ Outdated(n) => Outdated(n)'
<1> USE DEF Contents
<1> DEFINE N == Cardinality(Paths)
           w == spent.writes
<1>1. N \in Nat /\ w \in Nat /\ spent'.writes = w + 1
  BY FoldersAssumption, FS_CardinalityType DEF TypesFiles, EditStep
<1>2. /\ disk \in [Paths -> Contents]
      /\ \A p \in Paths : /\ disk[p].id \in Nat /\ disk[p].stamp \in Nat
                          /\ disk[p].id <= N + w /\ disk[p].stamp <= w
                          /\ disk[p].id = 0 => disk[p] = NoFile
      /\ \A p, q \in Paths : disk[p].id = disk[q].id /\ disk[p].id # 0 => p = q
  BY DEF TypesFiles, FilesAreDistinct
<1>3. /\ touched \subseteq Paths
      /\ disk' \in [Paths -> Contents]
      /\ \A q \in Paths \ touched : disk'[q] = disk[q]
      /\ \/ \E p \in Paths : /\ touched = {p} /\ disk[p] # NoFile
                             /\ disk'[p].id = disk[p].id /\ disk'[p].stamp = w + 1
         \/ \E p \in Paths : touched = {p} /\ disk'[p].id = N + (w + 1) /\ disk'[p].stamp = w + 1
         \/ \E p \in Paths : touched = {p} /\ disk'[p] = NoFile
         \/ \E p, q \in Paths : /\ touched = {p, q} /\ p # q /\ disk'[p] = NoFile
                                /\ disk'[q] = disk[p]
  <2>1. CASE \E p \in Paths : /\ disk[p] # NoFile /\ disk' = [disk EXCEPT ![p].stamp = Stamp]
                              /\ touched = {p}
    BY <1>1, <1>2, <2>1 DEF Stamp
  <2>2. CASE \E p \in Paths : /\ disk' = [disk EXCEPT ![p] = [id |-> NewInode, stamp |-> Stamp]]
                              /\ touched = {p}
    BY <1>1, <1>2, <2>2 DEF Stamp, NewInode
  <2>3. CASE \E p \in Paths : disk' = [disk EXCEPT ![p] = NoFile] /\ touched = {p}
    BY <1>2, <2>3 DEF NoFile
  <2>4. CASE \E p, q \in Paths : /\ p # q /\ disk' = [disk EXCEPT ![p] = NoFile, ![q] = disk[p]]
                                 /\ touched = {p, q}
    BY <1>2, <2>4 DEF NoFile
  <2> QED  BY <2>1, <2>2, <2>3, <2>4 DEF EditStep, Edits
<1> HIDE DEF N, w
<1>4. NoFile.id = 0 /\ NoFile.stamp = 0
  BY DEF NoFile
<1>5. \A p \in Paths : /\ disk'[p].id <= N + spent'.writes /\ disk'[p].stamp <= spent'.writes
                       /\ disk'[p].id = 0 => disk'[p] = NoFile
  BY <1>1, <1>2, <1>3, <1>4
<1>6. \A p, q \in Paths : disk'[p].id = disk'[q].id /\ disk'[p].id # 0 => p = q
  BY <1>1, <1>2, <1>3, <1>4
<1>7. ASSUME NEW n \in Nodes \cup Rows, Known(n), Outdated(n)
      PROVE  Outdated(n)'
  <2>1. n.id \in Nat \ {0} /\ n.stamp \in Nat /\ n.id <= N + w /\ n.stamp <= w
    BY <1>7 DEF Known, Nodes, Rows, N, w
  <2>2. \A p \in Paths : disk[p].id = n.id => disk[p].stamp # n.stamp
    BY <1>7 DEF Outdated
  <2> QED  BY <1>1, <1>2, <1>3, <1>4, <2>1, <2>2 DEF Outdated
<1>8. TypesFiles'
  BY <1>3 DEF TypesFiles, EditStep
<1>9. ASSUME NEW n \in Nodes \cup Rows, Known(n)
      PROVE  Known(n)'
  <2>1. n.id \in Nat /\ n.stamp \in Nat /\ n.id # 0 /\ n.id <= N + w /\ n.stamp <= w
    BY <1>9 DEF Known, Nodes, Rows, N, w
  <2>2. n.id <= N + (w + 1) /\ n.stamp <= w + 1
    BY <1>1, <2>1
  <2> QED  BY <1>1, <2>1, <2>2 DEF Known, N
<1> QED  BY <1>3, <1>5, <1>6, <1>7, <1>8, <1>9 DEF FilesAreDistinct, N

-----------------------------------------------------------------------------
(* Every step keeps files, rows, walks and tasks in order.                 *)

LEMMA EditBase ==
    ASSUME BaseInv, NEW touched, EditStep(touched),
           \/ rec' = rec
           \/ /\ rec' \in [Callers -> Running] /\ rec'["watcher"] = rec["watcher"]
              /\ rec["saver"] = Idle /\ \E roots : rec'["saver"] = [Idle EXCEPT !.pc = "lane", !.roots = roots]
    PROVE  BaseInv'
<1> USE DEF BaseInv
<1>1. TypesFiles' /\ FilesAreDistinct' /\ \A n \in Nodes \cup Rows : Known(n) => Known(n)'
  BY EditedFiles DEF Types
<1>2. UNCHANGED <<store, index, lane, pending, queue, loop, derive, scan, close, errors>> /\ close = "open"
  BY DEF EditStep, Current
<1>3. rec' \in [Callers -> Running] /\ rec'["watcher"] = rec["watcher"]
  BY DEF Types, TypesLane
<1>4. \/ rec'["saver"] = rec["saver"]
      \/ rec["saver"].pc = "idle" /\ rec'["saver"].pc = "lane" /\ rec'["saver"].seen = {} /\ rec'["saver"].todo = {}
  <2>1. \A roots : LET new == [Idle EXCEPT !.pc = "lane", !.roots = roots]
                   IN new.pc = "lane" /\ new.seen = {} /\ new.todo = {}
    BY DEF Idle
  <2>2. Idle.pc = "idle"
    BY DEF Idle
  <2> QED  BY <2>1, <2>2
<1>5. \A c \in Callers : rec[c].seen \subseteq Nodes /\ rec'[c].seen \subseteq Nodes
  BY <1>3 DEF Types, TypesLane, Running
<1>6. Types'
  BY <1>1, <1>2, <1>3 DEF Types, TypesIndex, TypesLoop, TypesLane
<1>7. RowsAreDistinct'
  BY <1>1, <1>2 DEF RowsAreDistinct, Types, TypesIndex
<1>8. LaneIsHeld'
  BY <1>2, <1>3, <1>4 DEF LaneIsHeld, Callers, Holding
<1>9. \A c \in Callers : SightsFitTheWalk(c)'
  BY <1>1, <1>3, <1>4, <1>5 DEF SightsFitTheWalk, Callers
<1>10. SightsFitTheScan'
  BY <1>1, <1>2 DEF SightsFitTheScan, Types, TypesIndex, Scanning
<1>11. TasksTakeTurns' /\ CloseWaits'
  BY <1>2, <1>3 DEF TasksTakeTurns, CloseWaits, Working
<1> QED  BY <1>1, <1>6, <1>7, <1>8, <1>9, <1>10, <1>11

LEMMA ChangeBase ==
    BaseInv /\ (OtherProgram \/ \E p, q \in Paths : SaveText(p, q)) => BaseInv'
<1>1. BaseInv /\ OtherProgram => BaseInv'
  BY OtherEdits, EditBase DEF BaseInv, Types
<1>2. ASSUME BaseInv, NEW p \in Paths, NEW q \in Paths, SaveText(p, q)
      PROVE  BaseInv'
  BY <1>2, SaveEdits, EditBase DEF BaseInv
<1> QED  BY <1>1, <1>2

\* The steps of the watcher loop that move requests along.
LEMMA PlanBase == BaseInv /\ (Deliver \/ Flush) => BaseInv'
<1> SUFFICES ASSUME BaseInv, Deliver \/ Flush PROVE BaseInv'
  OBVIOUS
<1> USE DEF BaseInv
<1>1. UNCHANGED <<disk, store, index, lane, loop, rec, derive, scan, close, errors, spent>>
  BY DEF Deliver, Push, Flush
<1>2. heard' \subseteq Paths
  BY DEF Deliver, Push, Flush, Types, TypesFiles
<1>3. /\ pending' \in [homes : Requests, overflow : BOOLEAN]
      /\ pending'.overflow => pending'.homes # {}
      /\ queue' \in Seq(Requests)
  <2>1. CASE Deliver
    <3>1. PICK batch \in SUBSET heard, overflow \in {"none", "known", "everywhere"} : Push(batch, overflow)
      BY <2>1 DEF Deliver
    <3> DEFINE places == IF overflow = "everywhere" THEN {Root} ELSE {Home[p] : p \in batch}
               homes == Minimized(pending.homes \cup places)
    <3>2. /\ queue' = queue /\ batch # {} /\ batch \subseteq Paths
          /\ pending' = [homes |-> homes,
                         overflow |-> homes # {Root} /\ (pending.overflow \/ overflow # "none")]
      BY <3>1 DEF Push, Types, TypesFiles
    <3>3. places \in SUBSET Folders /\ places # {}
      <4>1. \A p \in batch : Home[p] \in Folders
        BY <3>2, FoldersAssumption
      <4>2. {Home[p] : p \in batch} \in SUBSET Folders /\ {Home[p] : p \in batch} # {}
        BY <3>2, <4>1
      <4> QED  BY <4>2, FoldersAssumption
    <3>4. pending.homes \in SUBSET Folders
      BY DEF Types, TypesLoop, Requests
    <3>5. homes \in Requests /\ homes # {}
      BY <3>3, <3>4, MinimizedCovers DEF Requests
    <3> HIDE DEF homes
    <3> QED  BY <3>2, <3>5 DEF Types, TypesLoop
  <2>2. CASE Flush
    <3>1. RequestOf(pending) \in Requests
      BY RequestCovers DEF Types
    <3>2. pending' = NoEvents /\ queue' = Enqueued(RequestOf(pending))
      BY <2>2 DEF Flush
    <3>3. {Root} \in Requests
      BY FoldersAssumption DEF Requests
    <3>4. queue' \in Seq(Requests)
      <4> HIDE DEF Requests
      <4> QED  BY <3>1, <3>2, <3>3 DEF Enqueued, Types, TypesLoop
    <3> QED  BY <3>2, <3>4 DEF NoEvents, Requests
  <2> QED  BY <2>1, <2>2
<1>4. Types'
  BY <1>1, <1>2, <1>3 DEF Types, TypesFiles, TypesIndex, TypesLoop, TypesLane
<1>5. /\ FilesAreDistinct' /\ RowsAreDistinct' /\ LaneIsHeld' /\ SightsFitTheScan'
      /\ TasksTakeTurns' /\ CloseWaits' /\ \A c \in Callers : SightsFitTheWalk(c)'
  BY <1>1 DEF FilesAreDistinct, RowsAreDistinct, LaneIsHeld, SightsFitTheScan, TasksTakeTurns,
     CloseWaits, SightsFitTheWalk, Known, Working
<1> QED  BY <1>4, <1>5

LEMMA StartBase == BaseInv /\ StartRequest => BaseInv'
<1> SUFFICES ASSUME BaseInv, StartRequest PROVE BaseInv'
  OBVIOUS
<1> USE DEF BaseInv
<1>1. /\ UNCHANGED <<disk, store, index, lane, heard, pending, derive, scan, close, errors, spent>>
      /\ loop = "select" /\ scan.pc = "done" /\ queue # <<>> /\ queue' = Tail(queue)
  BY DEF StartRequest
<1>2. \/ rec' = rec /\ loop' = loop
      \/ /\ loop' = "reconcile" /\ close = "open"
         /\ rec' = [rec EXCEPT !["watcher"] = [Idle EXCEPT !.pc = "lane", !.roots = Head(queue)]]
  BY DEF StartRequest, Current
<1>3. Head(queue) \in Requests /\ queue' \in Seq(Requests)
  <2> HIDE DEF Requests
  <2> QED  BY <1>1 DEF Types, TypesLoop
<1> DEFINE new == [Idle EXCEPT !.pc = "lane", !.roots = Head(queue)]
<1>4. new \in Running /\ new.pc = "lane" /\ new.seen = {} /\ new.todo = {} /\ new.roots = Head(queue)
  BY <1>3 DEF Idle, Running, Requests
<1> HIDE DEF new
<1>5. \/ rec' = rec /\ loop' = loop
      \/ /\ loop' = "reconcile" /\ close = "open" /\ rec["watcher"].pc = "idle"
         /\ rec' \in [Callers -> Running] /\ rec'["watcher"] = new /\ rec'["saver"] = rec["saver"]
  BY <1>1, <1>2, <1>4 DEF new, Types, TypesLane, Callers, TasksTakeTurns
<1>6. Types'
  BY <1>1, <1>3, <1>5 DEF Types, TypesFiles, TypesIndex, TypesLoop, TypesLane
<1>7. FilesAreDistinct' /\ RowsAreDistinct' /\ SightsFitTheScan'
  BY <1>1 DEF FilesAreDistinct, RowsAreDistinct, SightsFitTheScan, Known
<1>8. LaneIsHeld'
  BY <1>1, <1>4, <1>5 DEF LaneIsHeld, Callers, Holding
<1>9. \A c \in Callers : SightsFitTheWalk(c)'
  BY <1>1, <1>4, <1>5 DEF SightsFitTheWalk, Callers, Known
<1>10. TasksTakeTurns' /\ CloseWaits'
  BY <1>1, <1>4, <1>5 DEF TasksTakeTurns, CloseWaits, Working
<1> QED  BY <1>6, <1>7, <1>8, <1>9, <1>10

-----------------------------------------------------------------------------
(* The reconciler's steps.                                                 *)

\* What the end of a reconcile changes for the watcher loop.
LEMMA LoopGoesOn ==
    ASSUME Types, NEW c \in Callers, NEW outcome, index' \subseteq Rows, WatcherGoesOn(c, outcome)
    PROVE  /\ derive' \in [Workers -> Deriving]
           /\ derive'["scan"] = derive["scan"]
           /\ derive'["watcher"].node = derive["watcher"].node
           /\ derive'["watcher"].read = derive["watcher"].read
           /\ derive'["watcher"].body = derive["watcher"].body
           /\ c = "saver" => UNCHANGED <<loop, errors, derive>>
           /\ c = "watcher" => \/ loop' = "select" /\ derive' = derive /\ outcome = "StaleSession"
                               \/ /\ loop' = "rebuild" /\ outcome # "StaleSession"
                                  /\ derive'["watcher"].todo =
                                        {Node(r) : r \in {x \in index' : x.path \in Covered(rec[c].roots)}}
           /\ errors' = {} => errors = {} /\ (c = "watcher" => outcome \in {"ok", "StaleSession"})
<1> DEFINE todo == {Node(r) : r \in {x \in index' : x.path \in Covered(rec[c].roots)}}
<1>1. todo \subseteq Nodes
  BY DEF Node, Nodes, Rows
<1>2. derive \in [Workers -> Deriving]
  BY DEF Types, TypesIndex
<1>3. CASE c = "saver"
  BY <1>2, <1>3 DEF WatcherGoesOn
<1>4. CASE c = "watcher" /\ outcome = "StaleSession"
  BY <1>2, <1>4 DEF WatcherGoesOn
<1>5. CASE c = "watcher" /\ outcome # "StaleSession"
  <2>1. /\ errors' = errors \cup ({outcome} \ {"ok"}) /\ loop' = "rebuild"
        /\ derive' = [derive EXCEPT !["watcher"].todo = todo]
    BY <1>5 DEF WatcherGoesOn
  <2> HIDE DEF todo
  <2>2. /\ derive' \in [Workers -> Deriving] /\ derive'["scan"] = derive["scan"]
        /\ derive'["watcher"].node = derive["watcher"].node /\ derive'["watcher"].todo = todo
        /\ derive'["watcher"].read = derive["watcher"].read
        /\ derive'["watcher"].body = derive["watcher"].body
    BY <1>1, <1>2, <2>1 DEF Workers, Deriving
  <2> QED  BY <1>5, <2>1, <2>2 DEF todo
<1> QED  BY <1>3, <1>4, <1>5 DEF Callers

\* A reconcile that ends, whatever it has come to, leaves the lane to others.
LEMMA GiveBase ==
    ASSUME BaseInv, NEW c \in Callers, NEW outcome,
           rec[c].pc # "idle", lane = c \/ lane = "free", lane' = "free",
           rec' = [rec EXCEPT ![c] = Idle], WatcherGoesOn(c, outcome),
           index' \subseteq Rows, RowsAreDistinct',
           UNCHANGED <<disk, heard, pending, queue, scan, close, spent>>
    PROVE  BaseInv'
<1> USE DEF BaseInv
<1>1. Idle \in Running /\ Idle.pc = "idle" /\ Idle.seen = {} /\ Idle.todo = {}
  BY DEF Idle, Running, Requests
<1>2. /\ rec' \in [Callers -> Running] /\ rec'[c] = Idle
      /\ \A d \in Callers \ {c} : rec'[d] = rec[d]
  BY <1>1 DEF Types, TypesLane
<1>3. /\ derive' \in [Workers -> Deriving] /\ derive'["scan"] = derive["scan"]
      /\ derive'["watcher"].node = derive["watcher"].node
      /\ c = "saver" => loop' = loop /\ derive' = derive
      /\ c = "watcher" => (loop' = "select" /\ derive' = derive) \/ loop' = "rebuild"
  BY LoopGoesOn
<1>4. loop' \in {"select", "reconcile", "rebuild", "ended"}
  BY <1>3 DEF Types, TypesLoop, Callers
<1>5. Types'
  BY <1>2, <1>3, <1>4 DEF Types, TypesFiles, TypesIndex, TypesLoop, TypesLane
<1>6. FilesAreDistinct' /\ SightsFitTheScan'
  BY DEF FilesAreDistinct, SightsFitTheScan, Known
<1>7. LaneIsHeld'
  BY <1>1, <1>2 DEF LaneIsHeld, Callers, Holding
<1>8. \A d \in Callers : SightsFitTheWalk(d)'
  BY <1>1, <1>2 DEF SightsFitTheWalk, Known
<1>9. TasksTakeTurns'
  BY <1>1, <1>2, <1>3 DEF TasksTakeTurns, Working, Callers, Workers
<1>10. CloseWaits'
  BY <1>1, <1>2, <1>3 DEF CloseWaits, TasksTakeTurns, Callers
<1> QED  BY <1>5, <1>6, <1>7, <1>8, <1>9, <1>10

\* A reconcile that goes on keeps, or takes, the lane.
LEMMA HoldBase ==
    ASSUME BaseInv, NEW c \in Callers, NEW new \in Running,
           rec[c].pc # "idle", lane = c \/ lane = "free", lane' = c,
           rec' = [rec EXCEPT ![c] = new], new.pc \in Holding, SightsFitTheWalk(c)',
           UNCHANGED <<disk, index, heard, pending, queue, loop, derive, scan, close, spent>>
    PROVE  BaseInv'
<1> USE DEF BaseInv
<1>1. new.pc # "idle" /\ new.pc # "lane"
  BY DEF Holding
<1>2. /\ rec' \in [Callers -> Running] /\ rec'[c] = new
      /\ \A d \in Callers \ {c} : rec'[d] = rec[d]
  BY DEF Types, TypesLane
<1>3. Types'
  BY <1>2 DEF Types, TypesFiles, TypesIndex, TypesLoop, TypesLane
<1>4. FilesAreDistinct' /\ SightsFitTheScan' /\ RowsAreDistinct'
  BY DEF FilesAreDistinct, SightsFitTheScan, RowsAreDistinct, Known
<1>5. LaneIsHeld'
  BY <1>2 DEF LaneIsHeld, Callers
<1>6. \A d \in Callers : SightsFitTheWalk(d)'
  BY <1>2 DEF SightsFitTheWalk, Known
<1>7. TasksTakeTurns'
  BY <1>1, <1>2 DEF TasksTakeTurns, Working, Callers
<1>8. CloseWaits'
  BY <1>1, <1>2 DEF CloseWaits, TasksTakeTurns, Callers
<1> QED  BY <1>3, <1>4, <1>5, <1>6, <1>7, <1>8

LEMMA LaneFacts ==
    ASSUME BaseInv, NEW c \in Callers
    PROVE  /\ rec[c] \in Running
           /\ rec[c].pc \in Holding => lane = c /\ rec[c].pc # "idle"
           /\ rec[c].roots \in SUBSET Folders /\ Covered(rec[c].roots) \subseteq Paths
<1>1. rec[c] \in Running
  BY DEF BaseInv, Types, TypesLane
<1>2. rec[c].roots \in SUBSET Folders
  BY <1>1 DEF Running, Requests
<1>3. Covered(rec[c].roots) \subseteq Paths
  BY <1>2, FoldersAssumption DEF Covered
<1> QED  BY <1>1, <1>2, <1>3 DEF BaseInv, LaneIsHeld, Holding

LEMMA TakeLaneBase ==
    ASSUME BaseInv, NEW c \in Callers, TakeLane(c)
    PROVE  BaseInv'
<1> USE DEF BaseInv
<1>1. /\ rec[c].pc = "lane" /\ lane = "free"
      /\ UNCHANGED <<disk, store, index, heard, pending, queue, scan, close, spent>>
  BY DEF TakeLane
<1>2. index' \subseteq Rows /\ RowsAreDistinct'
  BY <1>1 DEF RowsAreDistinct, Known, Types, TypesIndex
<1>3. CASE ~Current
  BY <1>1, <1>2, <1>3, GiveBase DEF TakeLane, Ended
<1>4. CASE Current
  <2> DEFINE new == [rec[c] EXCEPT !.pc = "walk", !.todo = Covered(rec[c].roots)]
  <2>1. /\ rec[c] \in Running /\ Covered(rec[c].roots) \subseteq Paths /\ rec[c].seen = {}
    BY <1>1, LaneFacts DEF SightsFitTheWalk
  <2>2. /\ new \in Running /\ new.pc = "walk" /\ new.seen = {}
        /\ new.todo = Covered(new.roots)
    BY <2>1 DEF Running, Holding
  <2>3. lane' = c /\ UNCHANGED <<loop, errors, derive>> /\ rec' = [rec EXCEPT ![c] = new]
    BY <1>4 DEF TakeLane
  <2> HIDE DEF new
  <2>4. rec'[c] = new
    BY <2>3 DEF Types, TypesLane
  <2>5. SightsFitTheWalk(c)'
    BY <2>2, <2>4 DEF SightsFitTheWalk
  <2> QED  BY <1>1, <2>2, <2>3, <2>5, HoldBase DEF Holding
<1> QED  BY <1>3, <1>4

LEMMA SightTypes ==
    ASSUME TypesFiles, FilesAreDistinct, NEW p \in Paths
    PROVE  /\ Sight(p) \subseteq Nodes
           /\ \A s \in Sight(p) : /\ s.path = p /\ s.id = disk[p].id /\ s.stamp = disk[p].stamp
                                  /\ Known(s)
           /\ disk[p] # NoFile => Sight(p) = {[id |-> disk[p].id, path |-> p, stamp |-> disk[p].stamp]}
           /\ disk[p] = NoFile => Sight(p) = {}
<1>1. disk[p] \in Contents
  BY DEF TypesFiles
<1> DEFINE n == [id |-> disk[p].id, path |-> p, stamp |-> disk[p].stamp]
<1>2. n \in Nodes /\ n.path = p /\ n.id = disk[p].id /\ n.stamp = disk[p].stamp
  BY <1>1 DEF Nodes, Contents
<1>3. disk[p] # NoFile => Sight(p) = {n}
  BY DEF Sight
<1>4. disk[p] = NoFile => Sight(p) = {}
  BY DEF Sight
<1>5. disk[p] # NoFile => Known(n)
  BY <1>2 DEF FilesAreDistinct, Known
<1> QED  BY <1>2, <1>3, <1>4, <1>5

LEMMA WalkStep ==
    ASSUME BaseInv, NEW c \in Callers, Walk(c)
    PROVE  \E p \in rec[c].todo :
              /\ p \in Paths /\ rec[c].pc = "walk"
              /\ rec' \in [Callers -> Running]
              /\ rec' = [rec EXCEPT ![c] = rec'[c]]
              /\ \A d \in Callers \ {c} : rec'[d] = rec[d]
              /\ rec'[c].pc = "walk" /\ rec'[c].roots = rec[c].roots
              /\ rec'[c].todo = rec[c].todo \ {p}
              /\ rec'[c].seen = rec[c].seen \cup Sight(p)
              /\ UNCHANGED <<disk, store, index, lane, heard, pending, queue, loop, derive, scan, close, errors, spent>>
<1>1. PICK p \in rec[c].todo :
         rec' = [rec EXCEPT ![c].todo = @ \ {p}, ![c].seen = @ \cup Sight(p)]
  BY DEF Walk
<1>2. rec[c] \in Running /\ rec \in [Callers -> Running] /\ rec[c].pc = "walk"
  BY DEF BaseInv, Types, TypesLane, Walk
<1>3. p \in Paths /\ Sight(p) \subseteq Nodes
  BY <1>2, SightTypes DEF Running, BaseInv, Types
<1> DEFINE todo == rec[c].todo \ {p}
           seen == rec[c].seen \cup Sight(p)
           new == [rec[c] EXCEPT !.todo = todo, !.seen = seen]
<1>4. todo \in SUBSET Paths /\ seen \in SUBSET Nodes
  BY <1>2, <1>3 DEF Running
<1>5. rec' = [rec EXCEPT ![c] = new]
  BY <1>1, <1>2 DEF Running
<1> HIDE DEF todo, seen
<1>6. /\ new \in Running /\ new.pc = "walk" /\ new.roots = rec[c].roots
      /\ new.todo = todo /\ new.seen = seen
  BY <1>2, <1>4 DEF Running
<1> HIDE DEF new
<1>7. rec' \in [Callers -> Running] /\ rec'[c] = new /\ \A d \in Callers \ {c} : rec'[d] = rec[d]
  BY <1>2, <1>5, <1>6
<1> QED  BY <1>2, <1>3, <1>5, <1>6, <1>7 DEF todo, seen, Walk

LEMMA WalkBase ==
    ASSUME BaseInv, NEW c \in Callers, Walk(c)
    PROVE  BaseInv'
<1>1. PICK p \in rec[c].todo :
              /\ p \in Paths /\ rec[c].pc = "walk"
              /\ rec' \in [Callers -> Running]
              /\ rec' = [rec EXCEPT ![c] = rec'[c]]
              /\ \A d \in Callers \ {c} : rec'[d] = rec[d]
              /\ rec'[c].pc = "walk" /\ rec'[c].roots = rec[c].roots
              /\ rec'[c].todo = rec[c].todo \ {p}
              /\ rec'[c].seen = rec[c].seen \cup Sight(p)
              /\ UNCHANGED <<disk, store, index, lane, heard, pending, queue, loop, derive, scan, close, errors, spent>>
  BY WalkStep
<1>2. SightsFitTheWalk(c)
  BY DEF BaseInv
<1>3. \A s \in Sight(p) : s.path = p /\ Known(s)
  BY <1>1, SightTypes DEF BaseInv, Types
<1>4. \A s, t \in Sight(p) : s = t
  BY DEF Sight
<1>5. \A s : Known(s)' <=> Known(s)
  BY <1>1 DEF Known
<1>6. SightsFitTheWalk(c)'
  <2> DEFINE all == Covered(rec[c].roots)
  <2>1. p \in all /\ Covered(rec'[c].roots) = all
    BY <1>1, <1>2 DEF SightsFitTheWalk
  <2>2. /\ rec[c].todo \subseteq all
        /\ \A s \in rec[c].seen : s.path \in all \ rec[c].todo /\ Known(s)
        /\ \A s, t \in rec[c].seen : s.path = t.path => s = t
    BY <1>2 DEF SightsFitTheWalk
  <2> HIDE DEF all
  <2>3. \A s \in rec'[c].seen : s.path \in all \ rec'[c].todo /\ Known(s)
    BY <1>1, <1>3, <2>1, <2>2
  <2>4. \A s, t \in rec'[c].seen : s.path = t.path => s = t
    BY <1>1, <1>3, <1>4, <2>1, <2>2
  <2>5. rec'[c].todo \subseteq all
    BY <1>1, <2>2
  <2> QED  BY <1>1, <1>5, <2>1, <2>3, <2>4, <2>5 DEF SightsFitTheWalk
<1>7. rec[c].pc # "idle" /\ lane = c /\ rec'[c] \in Running
  BY <1>1, LaneFacts DEF Holding
<1> QED  BY <1>1, <1>6, <1>7, HoldBase DEF Holding

LEMMA MergedRow ==
    ASSUME index \subseteq Rows, NEW s \in Nodes
    PROVE  /\ Merged(s) \in Rows /\ Node(Merged(s)) = s
           /\ Merged(s).id = s.id /\ Merged(s).path = s.path /\ Merged(s).stamp = s.stamp
           /\ \/ RowsOf(s.id) = {} /\ Merged(s) = NewRow(s)
              \/ \E r \in RowsOf(s.id) : \/ /\ r.stamp # s.stamp
                                            /\ Merged(s) = [NewRow(s) EXCEPT !.mark = r.mark]
                                         \/ /\ r.stamp = s.stamp
                                            /\ Merged(s) = [r EXCEPT !.path = s.path]
<1>1. NewRow(s) \in Rows /\ Node(NewRow(s)) = s
  BY DEF NewRow, Rows, Nodes, Node, Contents, NoFile
<1>2. \/ RowsOf(s.id) = {} /\ Merged(s) = NewRow(s)
      \/ \E r \in RowsOf(s.id) : \/ /\ r.stamp # s.stamp
                                    /\ Merged(s) = [NewRow(s) EXCEPT !.mark = r.mark]
                                 \/ /\ r.stamp = s.stamp
                                    /\ Merged(s) = [r EXCEPT !.path = s.path]
  BY DEF Merged
<1>3. CASE RowsOf(s.id) = {} /\ Merged(s) = NewRow(s)
  BY <1>1, <1>2, <1>3 DEF NewRow
<1>4. CASE \E r \in RowsOf(s.id) : \/ /\ r.stamp # s.stamp
                                      /\ Merged(s) = [NewRow(s) EXCEPT !.mark = r.mark]
                                   \/ /\ r.stamp = s.stamp
                                      /\ Merged(s) = [r EXCEPT !.path = s.path]
  <2>1. PICK r \in RowsOf(s.id) : \/ /\ r.stamp # s.stamp
                                     /\ Merged(s) = [NewRow(s) EXCEPT !.mark = r.mark]
                                  \/ /\ r.stamp = s.stamp
                                     /\ Merged(s) = [r EXCEPT !.path = s.path]
    BY <1>4
  <2>2. r \in Rows /\ r.id = s.id
    BY DEF RowsOf
  <2>3. CASE Merged(s) = [NewRow(s) EXCEPT !.mark = r.mark]
    <3>1. NewRow(s) = [id |-> s.id, path |-> s.path, stamp |-> s.stamp,
                       text |-> "pending", body |-> NoFile, mark |-> FALSE]
      BY DEF NewRow
    <3>2. Merged(s) = [id |-> s.id, path |-> s.path, stamp |-> s.stamp,
                       text |-> "pending", body |-> NoFile, mark |-> r.mark]
      BY <2>3, <3>1
    <3>3. Merged(s) \in Rows /\ Node(Merged(s)) = s
      BY <2>2, <3>2 DEF Rows, Nodes, Node, Contents, NoFile
    <3>4. Merged(s).id = s.id /\ Merged(s).path = s.path /\ Merged(s).stamp = s.stamp
      BY <3>2
    <3> QED  BY <1>2, <3>3, <3>4
  <2>4. CASE r.stamp = s.stamp /\ Merged(s) = [r EXCEPT !.path = s.path]
    BY <1>2, <2>2, <2>4 DEF Rows, Nodes, Node
  <2> QED  BY <2>1, <2>3, <2>4
<1> QED  BY <1>2, <1>3, <1>4

LEMMA ReconciledRows ==
    ASSUME BaseInv, NEW roots, NEW seen \in SUBSET Nodes, \A s \in seen : Known(s),
           Acceptable(roots, seen)
    PROVE  /\ Reconciled(roots, seen) \subseteq Rows
           /\ \A r \in Reconciled(roots, seen) : Known(r)
           /\ \A r, q \in Reconciled(roots, seen) : r.id = q.id \/ r.path = q.path => r = q
<1> DEFINE kept == {r \in index : r.path \notin Covered(roots) /\ \A s \in seen : s.id # r.id}
           met == {Merged(s) : s \in seen}
<1>1. Reconciled(roots, seen) = kept \cup met
  BY DEF Reconciled
<1>2. index \subseteq Rows /\ RowsAreDistinct
  BY DEF BaseInv, Types, TypesIndex
<1>3. \A s \in seen : Merged(s) \in Rows /\ Merged(s).id = s.id /\ Merged(s).stamp = s.stamp
  BY <1>2, MergedRow
<1>4. \A s \in seen : Known(Merged(s))
  BY <1>3 DEF Known
<1>5. \A s, t \in seen : s.id = t.id => s = t
  BY DEF Acceptable
<1>6. \A r, q \in kept \cup met : r.path = q.path => r = q
  BY <1>1 DEF Acceptable
<1>7. /\ \A r, q \in kept : r.id = q.id => r = q
      /\ \A r \in kept, q \in met : r.id # q.id
      /\ \A r, q \in met : r.id = q.id => r = q
  BY <1>2, <1>3, <1>5 DEF RowsAreDistinct
<1>8. kept \cup met \subseteq Rows /\ \A r \in kept \cup met : Known(r)
  BY <1>2, <1>3, <1>4 DEF RowsAreDistinct
<1> QED  BY <1>1, <1>6, <1>7, <1>8

LEMMA PlanMovesBase ==
    ASSUME BaseInv, NEW c \in Callers, PlanMoves(c)
    PROVE  BaseInv'
<1> USE DEF BaseInv
<1>1. /\ rec[c].pc = "walk" /\ rec[c].todo = {}
      /\ UNCHANGED <<disk, store, index, heard, pending, queue, scan, close, spent>>
  BY DEF PlanMoves
<1>2. index' \subseteq Rows /\ RowsAreDistinct'
  BY <1>1 DEF RowsAreDistinct, Known, Types, TypesIndex
<1>3. rec[c].pc # "idle" /\ lane = c /\ rec[c] \in Running /\ SightsFitTheWalk(c)
  BY <1>1, LaneFacts DEF Holding
<1>4. CASE Current /\ Acceptable(rec[c].roots, rec[c].seen)
  <2> DEFINE moves == IdentityMoves(rec[c].seen)
             new == [rec[c] EXCEPT !.pc = "marks", !.moves = moves]
  <2>1. UNCHANGED <<lane, loop, errors, derive>> /\ rec' = [rec EXCEPT ![c] = new]
    BY <1>4 DEF PlanMoves
  <2>2. moves \in SUBSET (Paths \X Paths)
    BY <1>3 DEF IdentityMoves, Types, TypesIndex, Rows, Running, Nodes
  <2> HIDE DEF moves
  <2>3. new \in Running /\ new = [rec[c] EXCEPT !.pc = new.pc, !.moves = new.moves] /\ new.pc = "marks"
    BY <1>3, <2>2 DEF Running, Holding
  <2>4. new.todo = {} /\ new.roots = rec[c].roots /\ new.seen = rec[c].seen
    BY <1>1, <1>3 DEF Running
  <2> HIDE DEF new
  <2>5. rec'[c] = new
    BY <2>1 DEF Types, TypesLane
  <2>6. \A s, t \in new.seen : s.id = t.id => s = t
    BY <1>4, <2>4 DEF Acceptable
  <2>7. SightsFitTheWalk(c)'
    BY <1>1, <1>3, <2>3, <2>4, <2>5, <2>6 DEF SightsFitTheWalk, Known
  <2> QED  BY <1>1, <1>3, <2>1, <2>3, <2>7, HoldBase DEF Holding
<1>5. CASE ~(Current /\ Acceptable(rec[c].roots, rec[c].seen))
  <2>1. Give(c, IF Current THEN "IndexUnavailable" ELSE "StaleSession")
    BY <1>5 DEF PlanMoves
  <2> QED  BY <1>1, <1>2, <1>3, <2>1, GiveBase DEF Give, Ended
<1> QED  BY <1>4, <1>5

LEMMA MoveMarksBase ==
    ASSUME BaseInv, NEW c \in Callers, MoveMarks(c)
    PROVE  BaseInv'
<1> USE DEF BaseInv
<1>1. /\ rec[c].pc = "marks"
      /\ UNCHANGED <<disk, index, heard, pending, queue, scan, close, spent>>
  BY DEF MoveMarks
<1>2. index' \subseteq Rows /\ RowsAreDistinct'
  BY <1>1 DEF RowsAreDistinct, Known, Types, TypesIndex
<1>3. rec[c].pc # "idle" /\ lane = c /\ rec[c] \in Running /\ SightsFitTheWalk(c)
  BY <1>1, LaneFacts DEF Holding
<1>4. \/ \E outcome : Give(c, outcome)
      \/ /\ rec' = [rec EXCEPT ![c] = [rec[c] EXCEPT !.pc = "commit"]]
         /\ UNCHANGED <<lane, loop, errors, derive>>
  BY DEF MoveMarks
<1>5. CASE \E outcome : Give(c, outcome)
  BY <1>1, <1>2, <1>3, <1>5, GiveBase DEF Give, Ended
<1>6. CASE /\ rec' = [rec EXCEPT ![c] = [rec[c] EXCEPT !.pc = "commit"]]
           /\ UNCHANGED <<lane, loop, errors, derive>>
  <2> DEFINE new == [rec[c] EXCEPT !.pc = "commit"]
  <2>1. /\ new \in Running /\ new.pc = "commit" /\ new.todo = rec[c].todo
        /\ new.roots = rec[c].roots /\ new.seen = rec[c].seen
    BY <1>3 DEF Running, Holding
  <2>2. rec' = [rec EXCEPT ![c] = new]
    BY <1>6
  <2> HIDE DEF new
  <2>3. rec'[c] = new
    BY <2>2 DEF Types, TypesLane
  <2>4. SightsFitTheWalk(c)'
    BY <1>1, <1>3, <2>1, <2>3 DEF SightsFitTheWalk, Known
  <2> QED  BY <1>1, <1>3, <1>6, <2>1, <2>2, <2>4, HoldBase DEF Holding
<1> QED  BY <1>4, <1>5, <1>6

LEMMA CommitStep ==
    ASSUME BaseInv, NEW c \in Callers, Commit(c)
    PROVE  /\ rec[c].pc = "commit" /\ lane = c /\ rec' = [rec EXCEPT ![c] = Idle] /\ lane' = "free"
           /\ UNCHANGED <<disk, store, heard, pending, queue, scan, close, spent>>
           /\ \E outcome : WatcherGoesOn(c, outcome) /\ (Acceptable(rec[c].roots, rec[c].seen)
                              <=> outcome # "IndexUnavailable")
           /\ index' = IF Acceptable(rec[c].roots, rec[c].seen)
                       THEN Reconciled(rec[c].roots, rec[c].seen) ELSE index
           /\ index' \subseteq Rows /\ RowsAreDistinct'
<1>1. /\ rec[c].pc = "commit" /\ rec' = [rec EXCEPT ![c] = Idle] /\ lane' = "free"
      /\ UNCHANGED <<disk, store, heard, pending, queue, scan, close, spent>>
      /\ index' = IF Acceptable(rec[c].roots, rec[c].seen)
                  THEN Reconciled(rec[c].roots, rec[c].seen) ELSE index
  BY DEF Commit, Give, Ended
<1>2. \E outcome : WatcherGoesOn(c, outcome) /\ (Acceptable(rec[c].roots, rec[c].seen)
                              <=> outcome # "IndexUnavailable")
  <2> DEFINE outcome == IF ~Acceptable(rec[c].roots, rec[c].seen) THEN "IndexUnavailable"
                        ELSE IF Current THEN "ok" ELSE "StaleSession"
  <2>1. WatcherGoesOn(c, outcome)
    BY DEF Commit, Give
  <2>2. Acceptable(rec[c].roots, rec[c].seen) <=> outcome # "IndexUnavailable"
    OBVIOUS
  <2> QED  BY <2>1, <2>2
<1>3. lane = c /\ rec[c].seen \in SUBSET Nodes /\ SightsFitTheWalk(c)
  BY <1>1, LaneFacts DEF Holding, Running, BaseInv
<1>4. CASE Acceptable(rec[c].roots, rec[c].seen)
  <2>1. /\ index' \subseteq Rows /\ \A r \in index' : Known(r)
        /\ \A r, q \in index' : r.id = q.id \/ r.path = q.path => r = q
    BY <1>1, <1>3, <1>4, ReconciledRows DEF SightsFitTheWalk
  <2> QED  BY <1>1, <1>2, <1>3, <2>1 DEF RowsAreDistinct, Known
<1>5. CASE ~Acceptable(rec[c].roots, rec[c].seen)
  BY <1>1, <1>2, <1>3, <1>5 DEF RowsAreDistinct, Known, BaseInv, Types, TypesIndex
<1> QED  BY <1>4, <1>5

LEMMA CommitBase ==
    ASSUME BaseInv, NEW c \in Callers, Commit(c)
    PROVE  BaseInv'
BY CommitStep, GiveBase

LEMMA ReconcileBase ==
    ASSUME BaseInv, NEW c \in Callers, Reconcile(c)
    PROVE  BaseInv'
BY TakeLaneBase, WalkBase, PlanMovesBase, MoveMarksBase, CommitBase DEF Reconcile

-----------------------------------------------------------------------------
(* The derived work, the scan and the close.                               *)

\* A step that changes no more than the derived work and the texts of rows.
LEMMA DerivedBase ==
    ASSUME BaseInv, NEW w \in Workers,
           derive' \in [Workers -> Deriving], \A v \in Workers \ {w} : derive'[v] = derive[v],
           Working(w), index' \subseteq Rows, RowsAreDistinct',
           UNCHANGED <<disk, store, lane, heard, pending, queue, loop, rec, scan, close, errors, spent>>
    PROVE  BaseInv'
<1> USE DEF BaseInv
<1>1. Types'
  BY DEF Types, TypesFiles, TypesIndex, TypesLoop, TypesLane
<1>2. FilesAreDistinct' /\ LaneIsHeld' /\ SightsFitTheScan' /\ CloseWaits'
      /\ \A c \in Callers : SightsFitTheWalk(c)'
  BY DEF FilesAreDistinct, LaneIsHeld, SightsFitTheScan, CloseWaits, SightsFitTheWalk, Known
<1>3. TasksTakeTurns'
  BY DEF TasksTakeTurns, Working, Workers
<1> QED  BY <1>1, <1>2, <1>3

LEMMA ConsiderStep ==
    ASSUME Types, NEW w \in Workers, NEW n, Consider(w, n)
    PROVE  /\ n \in derive[w].todo /\ n \in Nodes /\ derive[w].node = {}
           /\ derive' \in [Workers -> Deriving] /\ \A v \in Workers \ {w} : derive'[v] = derive[v]
           /\ UNCHANGED <<disk, store, index, lane, heard, pending, queue, loop, rec, scan, close, errors, spent>>
           /\ derive'[w].read = derive[w].read \/ derive'[w].node = {}
           /\ derive'[w].todo \subseteq derive[w].todo
           /\ Current => /\ derive'[w].todo = derive[w].todo \ {n} /\ derive'[w].body = derive[w].body
                         /\ derive'[w].node = {r \in {n} : \E x \in index : Node(x) = n /\ x.text = "pending"}
           /\ ~Current => derive'[w] = Rested
<1>1. n \in derive[w].todo /\ derive[w].node = {} /\ derive \in [Workers -> Deriving]
  BY DEF Consider, Types, TypesIndex
<1>2. derive[w] \in Deriving /\ n \in Nodes
  BY <1>1 DEF Deriving
<1>3. Rested \in Deriving /\ Rested.node = {} /\ Rested.todo = {}
  BY DEF Rested, Deriving, Contents, NoFile
<1> DEFINE todo == derive[w].todo \ {n}
           node == {r \in {n} : \E x \in index : Node(x) = n /\ x.text = "pending"}
           new == [derive[w] EXCEPT !.todo = todo, !.node = node]
<1>4. todo \in SUBSET Nodes /\ node \in SUBSET Nodes /\ todo \subseteq derive[w].todo
  BY <1>2 DEF Deriving
<1>5. derive' = [derive EXCEPT ![w] = IF ~Current THEN Rested ELSE new]
  <2>1. derive' = [derive EXCEPT ![w] =
                     IF ~Current THEN Rested
                     ELSE [derive[w] EXCEPT !.todo = derive[w].todo \ {n},
                                            !.node = {r \in {n} : \E x \in index :
                                                         Node(x) = n /\ x.text = "pending"}]]
    BY DEF Consider
  <2> QED  BY <2>1
<1> HIDE DEF todo, node
<1>6. /\ new \in Deriving /\ new.todo = todo /\ new.node = node /\ new.read = derive[w].read
      /\ new.body = derive[w].body
  BY <1>2, <1>4 DEF Deriving
<1> HIDE DEF new
<1>7. /\ derive' \in [Workers -> Deriving] /\ \A v \in Workers \ {w} : derive'[v] = derive[v]
      /\ derive'[w] = IF ~Current THEN Rested ELSE new
  BY <1>1, <1>3, <1>5, <1>6
<1>8. UNCHANGED <<disk, store, index, lane, heard, pending, queue, loop, rec, scan, close, errors, spent>>
  BY DEF Consider
<1> QED  BY <1>1, <1>2, <1>3, <1>4, <1>6, <1>7, <1>8 DEF todo, node

LEMMA ValidateStep ==
    ASSUME Types, NEW w \in Workers, Validate(w)
    PROVE  /\ derive' \in [Workers -> Deriving] /\ \A v \in Workers \ {w} : derive'[v] = derive[v]
           /\ UNCHANGED <<disk, store, index, lane, heard, pending, queue, loop, rec, scan, close, errors, spent>>
           /\ derive'[w].todo \subseteq derive[w].todo /\ derive'[w].node \subseteq derive[w].node
           /\ derive'[w].read # "ready" /\ (derive'[w].node = {} => derive'[w].read = "no")
<1>1. derive \in [Workers -> Deriving] /\ derive[w] \in Deriving
  BY DEF Types, TypesIndex
<1>2. PICK next \in {"checked", "failed"}, n \in derive[w].node :
         derive' = [derive EXCEPT ![w] = IF ~Current THEN Rested ELSE [derive[w] EXCEPT !.read = next]]
  BY DEF Validate
<1> DEFINE new == [derive[w] EXCEPT !.read = next]
<1>3. /\ new \in Deriving /\ new.todo = derive[w].todo /\ new.node = derive[w].node
      /\ new.read = next
  BY <1>1 DEF Deriving
<1>4. Rested \in Deriving /\ Rested.node = {} /\ Rested.todo = {} /\ Rested.read = "no"
  BY DEF Rested, Deriving, Contents, NoFile
<1>5. derive' = [derive EXCEPT ![w] = IF ~Current THEN Rested ELSE new]
  BY <1>2
<1> HIDE DEF new
<1>6. /\ derive' \in [Workers -> Deriving] /\ \A v \in Workers \ {w} : derive'[v] = derive[v]
      /\ derive'[w] = IF ~Current THEN Rested ELSE new
  BY <1>1, <1>3, <1>4, <1>5
<1>7. UNCHANGED <<disk, store, index, lane, heard, pending, queue, loop, rec, scan, close, errors, spent>>
  BY DEF Validate
<1> QED  BY <1>2, <1>3, <1>4, <1>6, <1>7

LEMMA ExtractStep ==
    ASSUME Types, NEW w \in Workers, Extract(w)
    PROVE  /\ derive' \in [Workers -> Deriving] /\ \A v \in Workers \ {w} : derive'[v] = derive[v]
           /\ UNCHANGED <<disk, store, index, lane, heard, pending, queue, loop, rec, scan, close, errors, spent>>
           /\ derive'[w].todo = derive[w].todo /\ derive'[w].node = derive[w].node
           /\ \E n \in derive[w].node :
                 /\ n \in Nodes
                 /\ derive'[w].read = "ready" => derive'[w].body = disk[n.path]
<1>1. derive \in [Workers -> Deriving] /\ derive[w] \in Deriving
  BY DEF Types, TypesIndex
<1>2. PICK n \in derive[w].node :
         derive' = [derive EXCEPT ![w] =
             IF disk[n.path] = NoFile THEN [derive[w] EXCEPT !.read = "failed"]
             ELSE [derive[w] EXCEPT !.read = "ready", !.body = disk[n.path]]]
  BY DEF Extract
<1>3. n \in Nodes
  BY <1>1, <1>2 DEF Deriving
<1> DEFINE failed == [derive[w] EXCEPT !.read = "failed"]
           ready == [derive[w] EXCEPT !.read = "ready", !.body = disk[n.path]]
<1>4. disk[n.path] \in Contents
  BY <1>3 DEF Types, TypesFiles, Nodes
<1>5. /\ failed \in Deriving /\ failed.todo = derive[w].todo /\ failed.node = derive[w].node
      /\ failed.read = "failed"
  BY <1>1 DEF Deriving
<1>6. /\ ready \in Deriving /\ ready.todo = derive[w].todo /\ ready.node = derive[w].node
      /\ ready.body = disk[n.path]
  BY <1>1, <1>4 DEF Deriving
<1>7. derive' = [derive EXCEPT ![w] = IF disk[n.path] = NoFile THEN failed ELSE ready]
  BY <1>2
<1> HIDE DEF failed, ready
<1>8. /\ derive' \in [Workers -> Deriving] /\ \A v \in Workers \ {w} : derive'[v] = derive[v]
      /\ derive'[w] = IF disk[n.path] = NoFile THEN failed ELSE ready
  BY <1>1, <1>5, <1>6, <1>7
<1>9. UNCHANGED <<disk, store, index, lane, heard, pending, queue, loop, rec, scan, close, errors, spent>>
  BY DEF Extract
<1> QED  BY <1>2, <1>3, <1>5, <1>6, <1>8, <1>9

\* A row to which the text of a node has been written.
Texted(w, n, r) ==
    IF r.id = n.id /\ r.path = n.path
    THEN [r EXCEPT !.text = derive[w].read, !.body = derive[w].body]
    ELSE r
TextedFacts(w, n, r) ==
    /\ Texted(w, n, r) \in Rows /\ Node(Texted(w, n, r)) = Node(r)
    /\ Texted(w, n, r).id = r.id /\ Texted(w, n, r).path = r.path
    /\ Texted(w, n, r).stamp = r.stamp /\ Texted(w, n, r).mark = r.mark
    /\ \/ Texted(w, n, r) = r
       \/ /\ r.id = n.id /\ r.path = n.path
          /\ Texted(w, n, r).text = derive[w].read /\ Texted(w, n, r).body = derive[w].body

LEMMA WriteTextStep ==
    ASSUME Types, NEW w \in Workers, WriteText(w)
    PROVE  /\ derive' \in [Workers -> Deriving] /\ \A v \in Workers \ {w} : derive'[v] = derive[v]
           /\ UNCHANGED <<disk, store, lane, heard, pending, queue, loop, rec, scan, close, errors, spent>>
           /\ derive'[w].todo = derive[w].todo /\ derive'[w].node = {}
           /\ \E n \in derive[w].node :
                 /\ n \in Nodes /\ derive[w].read \in {"ready", "failed"}
                 /\ index' = {Texted(w, n, r) : r \in index}
                 /\ \A r \in index : TextedFacts(w, n, r)
<1>1. /\ derive[w] \in Deriving /\ derive[w].read \in {"ready", "failed"}
      /\ derive \in [Workers -> Deriving]
  BY DEF WriteText, Types, TypesIndex
<1>2. derive[w].body \in Contents /\ derive[w].todo \in SUBSET Nodes
  BY <1>1 DEF Deriving
<1>3. PICK n \in derive[w].node :
         index' = {IF r.id = n.id /\ r.path = n.path
                   THEN [r EXCEPT !.text = derive[w].read, !.body = derive[w].body]
                   ELSE r : r \in index}
  BY DEF WriteText
<1>4. n \in Nodes
  BY <1>1 DEF Deriving
<1>5. ASSUME NEW r \in index
      PROVE  TextedFacts(w, n, r)
  <2>1. r \in Rows
    BY DEF Types, TypesIndex
  <2> QED  BY <1>1, <1>2, <2>1 DEF Rows, Node, Texted, TextedFacts
<1> DEFINE new == [Rested EXCEPT !.todo = derive[w].todo]
<1>6. new \in Deriving /\ new.todo = derive[w].todo /\ new.node = {}
  BY <1>2 DEF Rested, Deriving, Contents, NoFile
<1>7. derive' = [derive EXCEPT ![w] = new]
  BY DEF WriteText
<1> HIDE DEF new
<1>8. /\ derive' \in [Workers -> Deriving] /\ \A v \in Workers \ {w} : derive'[v] = derive[v]
      /\ derive'[w] = new
  BY <1>1, <1>6, <1>7
<1>9. UNCHANGED <<disk, store, lane, heard, pending, queue, loop, rec, scan, close, errors, spent>>
  BY DEF WriteText
<1> QED  BY <1>1, <1>3, <1>4, <1>5, <1>6, <1>8, <1>9 DEF Texted

\* The rows keep what they name, whatever text they come to have.
LEMMA WrittenRows ==
    ASSUME BaseInv, NEW w \in Workers, WriteText(w)
    PROVE  /\ index' \subseteq Rows /\ RowsAreDistinct'
           /\ \A p : NodesAt(p)' = NodesAt(p)
           /\ \A x \in index' : \E r \in index : x.id = r.id /\ x.path = r.path /\ x.stamp = r.stamp /\ x.mark = r.mark
           /\ \A r \in index : \E x \in index' : x.id = r.id /\ x.path = r.path /\ x.stamp = r.stamp /\ x.mark = r.mark
<1>1. PICK n \in derive[w].node :
         /\ index' = {Texted(w, n, r) : r \in index}
         /\ \A r \in index : /\ Texted(w, n, r) \in Rows /\ Node(Texted(w, n, r)) = Node(r)
                             /\ Texted(w, n, r).id = r.id /\ Texted(w, n, r).path = r.path
                             /\ Texted(w, n, r).stamp = r.stamp /\ Texted(w, n, r).mark = r.mark
  BY WriteTextStep DEF BaseInv, TextedFacts
<1>2. spent' = spent
  BY DEF WriteText
<1>3. RowsAreDistinct
  BY DEF BaseInv
<1>4. \A r \in index' : Known(r)'
  BY <1>1, <1>2, <1>3 DEF RowsAreDistinct, Known
<1>5. \A r, q \in index' : r.id = q.id \/ r.path = q.path => r = q
  BY <1>1, <1>3 DEF RowsAreDistinct
<1>6. ASSUME NEW p
      PROVE  NodesAt(p)' = NodesAt(p)
  BY <1>1 DEF NodesAt, RowsAt
<1> QED  BY <1>1, <1>4, <1>5, <1>6 DEF RowsAreDistinct

LEMMA DeriveBase ==
    ASSUME BaseInv, NEW w \in Workers, Derive(w)
    PROVE  BaseInv'
<1>1. CASE \E n \in derive[w].todo : Consider(w, n)
  <2>1. PICK n \in derive[w].todo : Consider(w, n)
    BY <1>1
  <2>2. Working(w)
    BY DEF Working
  <2>3. index' \subseteq Rows /\ RowsAreDistinct'
    BY <2>1 DEF Consider, RowsAreDistinct, Known, BaseInv, Types, TypesIndex
  <2>4. /\ derive' \in [Workers -> Deriving] /\ \A v \in Workers \ {w} : derive'[v] = derive[v]
        /\ UNCHANGED <<disk, store, index, lane, heard, pending, queue, loop, rec, scan, close, errors, spent>>
    BY <2>1, ConsiderStep DEF BaseInv
  <2> QED  BY <2>2, <2>3, <2>4, DerivedBase
<1>2. CASE Validate(w) \/ Extract(w)
  <2>1. Working(w)
    BY <1>2 DEF Working, Validate, Extract
  <2>2. index' \subseteq Rows /\ RowsAreDistinct'
    BY <1>2 DEF Validate, Extract, RowsAreDistinct, Known, BaseInv, Types, TypesIndex
  <2>3. /\ derive' \in [Workers -> Deriving] /\ \A v \in Workers \ {w} : derive'[v] = derive[v]
        /\ UNCHANGED <<disk, store, index, lane, heard, pending, queue, loop, rec, scan, close, errors, spent>>
    BY <1>2, ValidateStep, ExtractStep DEF BaseInv
  <2> QED  BY <2>1, <2>2, <2>3, DerivedBase
<1>3. CASE WriteText(w)
  <2>1. Working(w)
    BY <1>3 DEF Working, WriteText
  <2>2. /\ derive' \in [Workers -> Deriving] /\ \A v \in Workers \ {w} : derive'[v] = derive[v]
        /\ UNCHANGED <<disk, store, lane, heard, pending, queue, loop, rec, scan, close, errors, spent>>
    BY <1>3, WriteTextStep DEF BaseInv
  <2> QED  BY <1>3, <2>1, <2>2, WrittenRows, DerivedBase
<1> QED  BY <1>1, <1>2, <1>3 DEF Derive

LEMMA LoopBase == BaseInv /\ (RebuildEnds \/ LoopEnds) => BaseInv'
<1> SUFFICES ASSUME BaseInv, RebuildEnds \/ LoopEnds PROVE BaseInv'
  OBVIOUS
<1> USE DEF BaseInv
<1>1. /\ UNCHANGED <<disk, store, index, lane, heard, pending, queue, rec, derive, scan, close, errors, spent>>
      /\ loop' \in {"select", "ended"} /\ loop \in {"select", "rebuild"} /\ ~Working("watcher")
      /\ loop' = "select" => loop = "rebuild"
  BY DEF RebuildEnds, LoopEnds, TasksTakeTurns
<1>2. Types'
  BY <1>1 DEF Types, TypesFiles, TypesIndex, TypesLoop, TypesLane
<1>3. FilesAreDistinct' /\ LaneIsHeld' /\ SightsFitTheScan' /\ RowsAreDistinct'
      /\ \A c \in Callers : SightsFitTheWalk(c)'
  BY <1>1 DEF FilesAreDistinct, LaneIsHeld, SightsFitTheScan, SightsFitTheWalk, Known, RowsAreDistinct
<1>4. TasksTakeTurns' /\ CloseWaits'
  BY <1>1 DEF TasksTakeTurns, Working, CloseWaits
<1> QED  BY <1>2, <1>3, <1>4

\* A step that changes no more than the scan, its derived work and the rows.
LEMMA ScannedBase ==
    ASSUME BaseInv, scan' \in Scanning, SightsFitTheScan',
           derive' \in [Workers -> Deriving], derive'["watcher"] = derive["watcher"],
           scan'.pc # "derive" => ~Working("scan")',
           scan.pc = "done" => scan'.pc = "done",
           close = "closed" => scan'.pc \in {"done", "cancelled"},
           index' \subseteq Rows, RowsAreDistinct',
           UNCHANGED <<disk, store, lane, heard, pending, queue, loop, rec, close, errors, spent>>
    PROVE  BaseInv'
<1> USE DEF BaseInv
<1>1. Types'
  BY DEF Types, TypesFiles, TypesIndex, TypesLoop, TypesLane
<1>2. FilesAreDistinct' /\ LaneIsHeld' /\ \A c \in Callers : SightsFitTheWalk(c)'
  BY DEF FilesAreDistinct, LaneIsHeld, SightsFitTheWalk, Known
<1>3. TasksTakeTurns' /\ CloseWaits'
  BY DEF TasksTakeTurns, Working, CloseWaits
<1> QED  BY <1>1, <1>2, <1>3

LEMMA SameRows ==
    ASSUME BaseInv, index' = index, spent' = spent
    PROVE  index' \subseteq Rows /\ RowsAreDistinct'
BY DEF BaseInv, RowsAreDistinct, Known, Types, TypesIndex

LEMMA ScanWalkStep ==
    ASSUME BaseInv, ScanWalk
    PROVE  \E p \in scan.todo :
              /\ p \in Paths /\ scan.pc = "walk" /\ scan' \in Scanning /\ scan'.pc = "walk"
              /\ scan'.todo = scan.todo \ {p} /\ scan'.seen = scan.seen \cup Sight(p)
              /\ UNCHANGED <<disk, store, index, lane, heard, pending, queue, loop, rec, derive, close, errors, spent>>
<1>1. scan \in Scanning /\ scan.pc = "walk"
  BY DEF ScanWalk, BaseInv, Types, TypesIndex
<1>2. PICK p \in scan.todo : scan' = [scan EXCEPT !.todo = @ \ {p}, !.seen = @ \cup Sight(p)]
  BY DEF ScanWalk
<1>3. p \in Paths /\ Sight(p) \subseteq Nodes
  BY <1>1, <1>2, SightTypes DEF Scanning, BaseInv, Types
<1> DEFINE todo == scan.todo \ {p}
           seen == scan.seen \cup Sight(p)
<1>4. todo \in SUBSET Paths /\ seen \in SUBSET Nodes
  BY <1>1, <1>3 DEF Scanning
<1>5. scan' = [scan EXCEPT !.todo = todo, !.seen = seen]
  BY <1>2
<1> HIDE DEF todo, seen
<1>6. scan' \in Scanning /\ scan'.pc = "walk" /\ scan'.todo = todo /\ scan'.seen = seen
  BY <1>1, <1>4, <1>5 DEF Scanning
<1> QED  BY <1>1, <1>3, <1>6 DEF todo, seen, ScanWalk

LEMMA ScanWalkBase == ASSUME BaseInv, ScanWalk PROVE BaseInv'
<1>1. PICK p \in scan.todo :
         /\ p \in Paths /\ scan.pc = "walk" /\ scan' \in Scanning /\ scan'.pc = "walk"
         /\ scan'.todo = scan.todo \ {p} /\ scan'.seen = scan.seen \cup Sight(p)
         /\ UNCHANGED <<disk, store, index, lane, heard, pending, queue, loop, rec, derive, close, errors, spent>>
  BY ScanWalkStep
<1>2. \A s \in Sight(p) : s.path = p /\ Known(s)
  BY <1>1, SightTypes DEF BaseInv, Types
<1>3. \A s, t \in Sight(p) : s = t
  BY DEF Sight
<1>4. \A s : Known(s)' <=> Known(s)
  BY <1>1 DEF Known
<1>5. SightsFitTheScan'
  BY <1>1, <1>2, <1>3, <1>4 DEF SightsFitTheScan, BaseInv
<1>6. scan'.pc # "derive" => ~Working("scan")'
  BY <1>1 DEF BaseInv, TasksTakeTurns, Working
<1>7. close # "closed" /\ derive \in [Workers -> Deriving]
  BY <1>1 DEF BaseInv, CloseWaits, Types, TypesIndex
<1> QED  BY <1>1, <1>5, <1>6, <1>7, SameRows, ScannedBase

\* The end of a scan, in whatever way.
LEMMA ScanEndsBase == ASSUME BaseInv, ScanGivesUp \/ ScanReady \/ CancelScan PROVE BaseInv'
<1>1. /\ UNCHANGED <<disk, store, index, lane, heard, pending, queue, loop, rec, close, errors, spent>>
      /\ scan.pc \in {"walk", "derive"}
  BY DEF ScanGivesUp, ScanReady, CancelScan
<1>2. PICK pc \in {"cancelled", "done"} :
         /\ scan' = [scan EXCEPT !.pc = pc]
         /\ \/ derive' = derive /\ ~Working("scan")
            \/ derive' = [derive EXCEPT !["scan"] = Rested]
         /\ pc = "done" => scan.pc = "derive"
  BY DEF ScanGivesUp, ScanReady, CancelScan, BaseInv, TasksTakeTurns
<1>3. scan \in Scanning /\ derive \in [Workers -> Deriving]
  BY DEF BaseInv, Types, TypesIndex
<1>4. scan' \in Scanning /\ scan'.pc = pc /\ scan'.todo = scan.todo /\ scan'.seen = scan.seen
  BY <1>2, <1>3 DEF Scanning
<1>5. Rested \in Deriving /\ Rested.node = {} /\ Rested.todo = {}
  BY DEF Rested, Deriving, Contents, NoFile
<1>6. /\ derive' \in [Workers -> Deriving] /\ derive'["watcher"] = derive["watcher"]
      /\ ~Working("scan")'
  BY <1>2, <1>3, <1>5 DEF Workers, Working
<1>7. SightsFitTheScan'
  BY <1>1, <1>2, <1>4 DEF SightsFitTheScan, Known, BaseInv
<1>8. close = "closed" => scan'.pc \in {"done", "cancelled"}
  BY <1>4
<1> QED  BY <1>1, <1>4, <1>6, <1>7, <1>8, SameRows, ScannedBase

\* The row of a file that the scan publishes takes the place of the file's old row.
Published(s, new) ==
    /\ scan'.pc = "walk" /\ scan'.seen = scan.seen \ {s}
    /\ index' = {r \in index : r.id # s.id} \cup {new}
    /\ new.id = s.id /\ new.path = s.path /\ new.stamp = s.stamp /\ Node(new) = s
    /\ \/ new = NewRow(s)
       \/ \E r \in RowsOf(s.id) : new = [r EXCEPT !.path = s.path, !.stamp = s.stamp]
    /\ \A r \in index : r.path = s.path => r.id = s.id

LEMMA ScanPublishStep ==
    ASSUME BaseInv, NEW s, ScanPublish(s)
    PROVE  /\ s \in scan.seen /\ s \in Nodes /\ Known(s) /\ s.path \in Paths
           /\ scan.pc = "walk" /\ scan.todo = {} /\ scan' \in Scanning
           /\ scan'.todo = {} /\ scan'.seen \subseteq scan.seen
           /\ UNCHANGED <<disk, store, lane, heard, pending, queue, loop, rec, derive, close, errors, spent>>
           /\ \/ scan'.pc = "failed" /\ index' = index
              \/ \E new \in Rows : Published(s, new)
<1>1. scan \in Scanning /\ scan.pc = "walk" /\ s \in scan.seen /\ index \subseteq Rows
  BY DEF ScanPublish, BaseInv, Types, TypesIndex
<1>2. s \in Nodes /\ Known(s) /\ s.path \in Paths
  BY <1>1 DEF Scanning, Nodes, BaseInv, SightsFitTheScan
<1>3. CASE \E r \in RowsAt(s.path) : r.id # s.id
  <2>1. scan' = [scan EXCEPT !.pc = "failed"] /\ index' = index
    BY <1>3 DEF ScanPublish
  <2>2. scan' \in Scanning /\ scan'.pc = "failed" /\ scan'.todo = scan.todo /\ scan'.seen = scan.seen
    BY <1>1, <2>1 DEF Scanning
  <2> QED  BY <1>1, <1>2, <2>1, <2>2 DEF ScanPublish
<1>4. CASE ~\E r \in RowsAt(s.path) : r.id # s.id
  <2>1. /\ scan' = [scan EXCEPT !.seen = @ \ {s}]
        /\ index' = (index \ RowsOf(s.id)) \cup
              (IF RowsOf(s.id) = {} THEN {NewRow(s)}
               ELSE {[r EXCEPT !.path = s.path, !.stamp = s.stamp] : r \in RowsOf(s.id)})
    BY <1>4 DEF ScanPublish
  <2>2. scan' \in Scanning /\ scan'.pc = "walk" /\ scan'.todo = scan.todo /\ scan'.seen = scan.seen \ {s}
    BY <1>1, <2>1 DEF Scanning
  <2>3. index \ RowsOf(s.id) = {r \in index : r.id # s.id}
    BY DEF RowsOf
  <2>4. \A r \in index : r.path = s.path => r.id = s.id
    BY <1>4 DEF RowsAt
  <2>5. CASE RowsOf(s.id) = {}
    <3>1. /\ NewRow(s) \in Rows /\ NewRow(s).id = s.id /\ NewRow(s).path = s.path
          /\ NewRow(s).stamp = s.stamp /\ Node(NewRow(s)) = s
      BY <1>2 DEF NewRow, Rows, Nodes, Node, Contents, NoFile
    <3>2. index' = {r \in index : r.id # s.id} \cup {NewRow(s)}
      BY <2>1, <2>3, <2>5
    <3>3. Published(s, NewRow(s))
      BY <2>2, <2>4, <3>1, <3>2, <1>1 DEF Published
    <3> QED  BY <1>1, <1>2, <2>2, <3>1, <3>3 DEF ScanPublish
  <2>6. CASE RowsOf(s.id) # {}
    <3>1. PICK r \in RowsOf(s.id) : RowsOf(s.id) = {r}
      BY <2>6 DEF RowsOf, BaseInv, RowsAreDistinct
    <3> DEFINE new == [r EXCEPT !.path = s.path, !.stamp = s.stamp]
    <3>2. index' = {x \in index : x.id # s.id} \cup {new}
      BY <2>1, <2>3, <3>1
    <3>3. r \in Rows /\ r.id = s.id
      BY <1>1 DEF RowsOf
    <3>4. /\ new \in Rows /\ new.id = s.id /\ new.path = s.path /\ new.stamp = s.stamp /\ Node(new) = s
      BY <1>2, <3>3 DEF Rows, Nodes, Node
    <3>5. Published(s, new)
      BY <2>2, <2>4, <3>2, <3>4, <1>1 DEF Published
    <3> HIDE DEF new
    <3> QED  BY <1>1, <1>2, <2>2, <3>4, <3>5 DEF ScanPublish
  <2> QED  BY <2>5, <2>6
<1> QED  BY <1>3, <1>4

LEMMA ScanPublishBase == ASSUME BaseInv, NEW s, ScanPublish(s) PROVE BaseInv'
<1>1. /\ s \in scan.seen /\ s \in Nodes /\ Known(s) /\ s.path \in Paths
      /\ scan.pc = "walk" /\ scan.todo = {} /\ scan' \in Scanning
      /\ scan'.todo = {} /\ scan'.seen \subseteq scan.seen
      /\ UNCHANGED <<disk, store, lane, heard, pending, queue, loop, rec, derive, close, errors, spent>>
      /\ scan'.pc \in {"walk", "failed"}
  BY ScanPublishStep DEF Published
<1>2. index' \subseteq Rows /\ RowsAreDistinct'
  <2>1. CASE index' = index
    BY <1>1, <2>1, SameRows
  <2>2. CASE index' # index
    <3>9. PICK new \in Rows : Published(s, new)
      BY <2>2, ScanPublishStep
    <3>1. /\ index' = {r \in index : r.id # s.id} \cup {new}
          /\ new.id = s.id /\ new.path = s.path /\ new.stamp = s.stamp
          /\ \A r \in index : r.path = s.path => r.id = s.id
      BY <3>9 DEF Published
    <3>2. index \subseteq Rows /\ RowsAreDistinct
      BY DEF BaseInv, Types, TypesIndex
    <3>3. Known(new)
      BY <1>1, <3>1 DEF Known
    <3>4. \A r \in index' : Known(r)'
      BY <1>1, <3>1, <3>2, <3>3 DEF RowsAreDistinct, Known
    <3>5. \A r, q \in index' : r.id = q.id \/ r.path = q.path => r = q
      BY <3>1, <3>2 DEF RowsAreDistinct
    <3> QED  BY <3>1, <3>2, <3>4, <3>5 DEF RowsAreDistinct
  <2> QED  BY <2>1, <2>2
<1>3. SightsFitTheScan'
  BY <1>1 DEF SightsFitTheScan, Known, BaseInv
<1>4. scan'.pc # "derive" => ~Working("scan")'
  BY <1>1 DEF BaseInv, TasksTakeTurns, Working
<1>5. close # "closed" /\ derive \in [Workers -> Deriving]
  BY <1>1 DEF BaseInv, CloseWaits, Types, TypesIndex
<1> QED  BY <1>1, <1>2, <1>3, <1>4, <1>5, ScannedBase

LEMMA HydrateStep ==
    ASSUME BaseInv, Hydrate
    PROVE  /\ scan.pc = "walk" /\ scan.todo = {} /\ scan.seen = {} /\ lane = "free"
           /\ scan' \in Scanning /\ scan'.pc = "derive" /\ scan'.todo = {} /\ scan'.seen = {}
           /\ derive' \in [Workers -> Deriving] /\ derive'["watcher"] = derive["watcher"]
           /\ derive'["scan"].node = derive["scan"].node
           /\ derive'["scan"].todo \subseteq {Node(r) : r \in index}
           /\ UNCHANGED <<disk, store, lane, heard, pending, queue, loop, rec, close, errors, spent>>
           /\ index' = {[r EXCEPT !.mark = r.mark \/ r.path \in store] : r \in index}
           /\ \A r \in index : LET x == [r EXCEPT !.mark = r.mark \/ r.path \in store]
                               IN /\ x \in Rows /\ Node(x) = Node(r) /\ x.id = r.id /\ x.path = r.path
                                  /\ x.stamp = r.stamp /\ x.text = r.text /\ x.body = r.body
                                  /\ x.mark <=> (r.mark \/ r.path \in store)
<1>1. /\ scan \in Scanning /\ scan.pc = "walk" /\ scan.todo = {} /\ scan.seen = {} /\ lane = "free"
      /\ index \subseteq Rows /\ derive \in [Workers -> Deriving]
  BY DEF Hydrate, BaseInv, Types, TypesIndex
<1>2. scan' \in Scanning /\ scan'.pc = "derive" /\ scan'.todo = {} /\ scan'.seen = {}
  BY <1>1 DEF Hydrate, Scanning
<1>3. ASSUME NEW r \in index
      PROVE  LET x == [r EXCEPT !.mark = r.mark \/ r.path \in store]
             IN /\ x \in Rows /\ Node(x) = Node(r) /\ x.id = r.id /\ x.path = r.path
                /\ x.stamp = r.stamp /\ x.text = r.text /\ x.body = r.body
                /\ x.mark <=> (r.mark \/ r.path \in store)
  <2> DEFINE m == r.mark \/ r.path \in store
             x == [r EXCEPT !.mark = m]
  <2>1. r \in Rows
    BY <1>1
  <2>2. r.mark \in BOOLEAN
    BY <2>1 DEF Rows
  <2>3. m \in BOOLEAN
    OBVIOUS
  <2> HIDE DEF m
  <2>4. /\ x \in Rows /\ Node(x) = Node(r) /\ x.id = r.id /\ x.path = r.path
        /\ x.stamp = r.stamp /\ x.text = r.text /\ x.body = r.body /\ x.mark = m
    BY <2>1, <2>3 DEF Rows, Node
  <2> QED  BY <2>4 DEF m
<1> DEFINE todo == IF Current THEN {Node(r) : r \in index} ELSE {}
<1>4. todo \in SUBSET Nodes
  BY <1>1 DEF Node, Nodes, Rows
<1>5. derive' = [derive EXCEPT !["scan"].todo = todo] /\ todo \subseteq {Node(r) : r \in index}
  BY DEF Hydrate
<1> HIDE DEF todo
<1>6. /\ derive' \in [Workers -> Deriving] /\ derive'["watcher"] = derive["watcher"]
      /\ derive'["scan"].node = derive["scan"].node /\ derive'["scan"].todo = todo
  BY <1>1, <1>4, <1>5 DEF Workers, Deriving
<1> QED  BY <1>1, <1>2, <1>3, <1>5, <1>6 DEF Hydrate

LEMMA HydrateBase == ASSUME BaseInv, Hydrate PROVE BaseInv'
<1> DEFINE X(r) == [r EXCEPT !.mark = r.mark \/ r.path \in store]
<1>1. /\ scan.pc = "walk" /\ scan' \in Scanning /\ scan'.pc = "derive" /\ scan'.todo = {} /\ scan'.seen = {}
      /\ derive' \in [Workers -> Deriving] /\ derive'["watcher"] = derive["watcher"]
      /\ UNCHANGED <<disk, store, lane, heard, pending, queue, loop, rec, close, errors, spent>>
      /\ index' = {X(r) : r \in index}
  BY HydrateStep
<1>2. \A r \in index : X(r) \in Rows /\ X(r).id = r.id /\ X(r).path = r.path /\ X(r).stamp = r.stamp
  BY HydrateStep
<1> HIDE DEF X
<1>3. index' \subseteq Rows /\ RowsAreDistinct'
  <2>1. RowsAreDistinct
    BY DEF BaseInv
  <2>2. \A r \in index' : Known(r)'
    BY <1>1, <1>2, <2>1 DEF RowsAreDistinct, Known
  <2>3. \A r, q \in index' : r.id = q.id \/ r.path = q.path => r = q
    BY <1>1, <1>2, <2>1 DEF RowsAreDistinct
  <2> QED  BY <1>1, <1>2, <2>2, <2>3 DEF RowsAreDistinct
<1>4. SightsFitTheScan'
  BY <1>1 DEF SightsFitTheScan
<1>5. close # "closed"
  BY <1>1 DEF BaseInv, CloseWaits
<1> QED  BY <1>1, <1>3, <1>4, <1>5, ScannedBase

LEMMA ScanBase == ASSUME BaseInv, Scan \/ CancelScan PROVE BaseInv'
BY ScanWalkBase, ScanPublishBase, ScanEndsBase, HydrateBase DEF Scan

LEMMA CloseBase == ASSUME BaseInv, CloseProject \/ StopWatcher PROVE BaseInv'
<1> USE DEF BaseInv
<1>1. /\ UNCHANGED <<disk, store, index, lane, heard, pending, queue, loop, rec, derive, scan, errors, spent>>
      /\ close' \in {"cancelled", "stopping"} /\ close # "closed"
      /\ rec["saver"].pc = "idle"
  BY DEF CloseProject, StopWatcher, CloseWaits, Idle
<1>2. Types'
  BY <1>1 DEF Types, TypesFiles, TypesIndex, TypesLoop, TypesLane
<1>3. FilesAreDistinct' /\ LaneIsHeld' /\ SightsFitTheScan' /\ RowsAreDistinct' /\ TasksTakeTurns'
      /\ \A c \in Callers : SightsFitTheWalk(c)'
  BY <1>1 DEF FilesAreDistinct, LaneIsHeld, SightsFitTheScan, SightsFitTheWalk, Known, RowsAreDistinct,
     TasksTakeTurns, Working
<1>4. CloseWaits'
  BY <1>1 DEF CloseWaits
<1> QED  BY <1>2, <1>3, <1>4

LEMMA FinishBase == ASSUME BaseInv, FinishClose PROVE BaseInv'
<1> USE DEF BaseInv
<1>1. /\ UNCHANGED <<disk, store, index, lane, heard, pending, queue, loop, rec, errors, spent>>
      /\ close = "stopping" /\ loop = "ended" /\ lane = "free" /\ close' = "closed"
      /\ scan' = IF scan.pc = "done" THEN scan ELSE [scan EXCEPT !.pc = "cancelled"]
      /\ derive' = [derive EXCEPT !["scan"] = Rested]
  BY DEF FinishClose
<1>2. scan \in Scanning /\ derive \in [Workers -> Deriving]
  BY DEF Types, TypesIndex
<1>3. /\ scan' \in Scanning /\ scan'.pc \in {"done", "cancelled"}
      /\ scan'.pc = "done" => scan.pc = "done"
      /\ scan.pc = "done" => scan'.pc = "done"
      /\ scan'.todo = scan.todo /\ scan'.seen = scan.seen
  BY <1>1, <1>2 DEF Scanning
<1>4. Rested \in Deriving /\ Rested.node = {} /\ Rested.todo = {}
  BY DEF Rested, Deriving, Contents, NoFile
<1>5. /\ derive' \in [Workers -> Deriving] /\ derive'["watcher"] = derive["watcher"]
      /\ ~Working("scan")'
  BY <1>1, <1>2, <1>4 DEF Workers, Working
<1>6. Types'
  <2>1. TypesIndex'
    <3>1. index' \subseteq Rows
      BY <1>1 DEF Types, TypesIndex
    <3> QED  BY <1>3, <1>5, <3>1 DEF TypesIndex
  <2>2. TypesFiles' /\ TypesLoop' /\ TypesLane'
    BY <1>1 DEF Types, TypesFiles, TypesLoop, TypesLane
  <2> QED  BY <2>1, <2>2 DEF Types
<1>7. FilesAreDistinct' /\ LaneIsHeld' /\ RowsAreDistinct' /\ \A c \in Callers : SightsFitTheWalk(c)'
  BY <1>1 DEF FilesAreDistinct, LaneIsHeld, SightsFitTheWalk, Known, RowsAreDistinct
<1>8. SightsFitTheScan'
  BY <1>1, <1>3 DEF SightsFitTheScan, Known
<1>9. TasksTakeTurns'
  BY <1>1, <1>3, <1>5 DEF TasksTakeTurns, Working
<1>10. CloseWaits'
  BY <1>1, <1>3 DEF CloseWaits
<1> QED  BY <1>6, <1>7, <1>8, <1>9, <1>10

LEMMA SameBase == ASSUME BaseInv, UNCHANGED vars PROVE BaseInv'
BY DEF vars, BaseInv, Types, TypesFiles, TypesIndex, TypesLoop, TypesLane, FilesAreDistinct,
   RowsAreDistinct, LaneIsHeld, SightsFitTheWalk, SightsFitTheScan, TasksTakeTurns, CloseWaits,
   Known, Working

LEMMA InitBase == Init => BaseInv
<1> SUFFICES ASSUME Init PROVE BaseInv
  OBVIOUS
<1>1. Cardinality(Paths) \in Nat
  BY FoldersAssumption, FS_CardinalityType
<1>2. /\ disk \in [Paths -> Contents]
      /\ \A p \in Paths : disk[p].id = FirstInode[p] /\ disk[p].stamp = 0
  BY <1>1, FilesAssumption DEF Init, Contents
<1>3. spent = [writes |-> 0, saves |-> 0]
  BY DEF Init
<1>4. TypesFiles
  BY <1>2, <1>3 DEF Init, TypesFiles
<1>5. FilesAreDistinct
  <2>1. \A p \in Paths : /\ disk[p].id <= Cardinality(Paths) + spent.writes
                         /\ disk[p].stamp <= spent.writes
    BY <1>1, <1>2, <1>3, FilesAssumption
  <2>2. \A p \in Paths : disk[p].id = 0 => disk[p] = NoFile
    BY <1>2 DEF Init, NoFile
  <2> QED  BY <1>2, <2>1, <2>2, FilesAssumption DEF FilesAreDistinct
<1>6. Rested \in Deriving /\ Rested.node = {} /\ Rested.todo = {}
  BY DEF Rested, Deriving, Contents, NoFile
<1>7. Idle \in Running /\ Idle.pc = "idle" /\ Idle.seen = {} /\ Idle.todo = {}
  BY DEF Idle, Running, Requests
<1>8. Types
  <2>1. TypesIndex
    BY <1>6 DEF Init, TypesIndex, Scanning, Workers
  <2>2. TypesLoop
    BY DEF Init, TypesLoop, NoEvents, Requests
  <2>3. TypesLane
    BY <1>7 DEF Init, TypesLane
  <2> QED  BY <1>4, <2>1, <2>2, <2>3 DEF Types
<1>9. RowsAreDistinct /\ SightsFitTheScan
  BY DEF Init, RowsAreDistinct, SightsFitTheScan
<1>10. LaneIsHeld /\ \A c \in Callers : SightsFitTheWalk(c)
  BY <1>7 DEF Init, LaneIsHeld, SightsFitTheWalk, Callers, Holding
<1>11. TasksTakeTurns /\ CloseWaits
  BY <1>6, <1>7 DEF Init, TasksTakeTurns, CloseWaits, Working, Callers, Workers
<1> QED  BY <1>5, <1>8, <1>9, <1>10, <1>11 DEF BaseInv

LEMMA NextBase == BaseInv /\ [Next]_vars => BaseInv'
<1> SUFFICES ASSUME BaseInv, [Next]_vars PROVE BaseInv'
  OBVIOUS
<1>1. CASE OtherProgram \/ \E p, q \in Paths : SaveText(p, q)
  BY <1>1, ChangeBase
<1>2. CASE WatcherTask
  BY <1>2, PlanBase, StartBase, ReconcileBase, DeriveBase, LoopBase DEF WatcherTask, Callers, Workers
<1>3. CASE ScanTask
  BY <1>3, ScanBase, DeriveBase DEF ScanTask, Workers
<1>4. CASE CloseTask \/ CloseProject
  BY <1>4, CloseBase, FinishBase DEF CloseTask
<1>5. CASE CancelScan
  BY <1>5, ScanBase
<1>6. CASE Reconcile("saver")
  BY <1>6, ReconcileBase DEF Callers
<1>7. CASE UNCHANGED vars
  BY <1>7, SameBase
<1> QED  BY <1>1, <1>2, <1>3, <1>4, <1>5, <1>6, <1>7 DEF Next

\* The types, the keys of the index, the holder of the write lane, what each walk
\* has left to look at, and the turns of the tasks: for every folder and queue.
THEOREM IndexInvariance == Spec => []BaseInv
<1>1. Init => BaseInv
  BY InitBase
<1>2. BaseInv /\ [Next]_vars => BaseInv'
  BY NextBase
<1> QED  BY <1>1, <1>2, PTL DEF Spec

\* What writes to the index or to the portable store.
LEMMA Writers ==
    ASSUME Next
    PROVE  \/ UNCHANGED <<store, index>>
           \/ \E c \in Callers : MoveMarks(c) \/ Commit(c)
           \/ \E w \in Workers : WriteText(w)
           \/ Hydrate \/ \E s \in scan.seen : ScanPublish(s)
<1>1. CASE OtherProgram
  BY <1>1 DEF OtherProgram, WriteFile, PutFile, RemoveFile, MoveFile, Change
<1>2. CASE \E p, q \in Paths : SaveText(p, q)
  BY <1>2 DEF SaveText
<1>3. CASE Deliver \/ Flush \/ StartRequest \/ RebuildEnds \/ LoopEnds
  BY <1>3 DEF Deliver, Push, Flush, StartRequest, RebuildEnds, LoopEnds
<1>4. ASSUME NEW c \in Callers, Reconcile(c)
      PROVE  UNCHANGED <<store, index>> \/ MoveMarks(c) \/ Commit(c)
  BY <1>4 DEF Reconcile, TakeLane, Walk, PlanMoves
<1>5. ASSUME NEW w \in Workers, Derive(w)
      PROVE  UNCHANGED <<store, index>> \/ WriteText(w)
  BY <1>5 DEF Derive, Consider, Validate, Extract
<1>6. CASE Scan
  BY <1>6 DEF Scan, ScanWalk, ScanGivesUp, ScanReady
<1>7. CASE CancelScan \/ CloseTask \/ CloseProject
  BY <1>7 DEF CancelScan, CloseTask, CloseProject, StopWatcher, FinishClose
<1> QED  BY <1>1, <1>2, <1>3, <1>4, <1>5, <1>6, <1>7 DEF Next, WatcherTask, ScanTask, Callers, Workers

\* ClosedIsQuiet, for every folder and queue: nothing writes once a close returned.
THEOREM ClosedStaysQuiet == Spec => ClosedIsQuiet
<1>1. BaseInv /\ [Next]_vars => [close = "closed" => UNCHANGED <<store, index>>]_vars
  <2> SUFFICES ASSUME BaseInv, Next, close = "closed" PROVE UNCHANGED <<store, index>>
    BY DEF vars
  <2>1. loop = "ended" /\ lane = "free" /\ scan.pc \in {"done", "cancelled"}
    BY DEF BaseInv, CloseWaits
  <2>2. \A c \in Callers : ~MoveMarks(c) /\ ~Commit(c)
    BY <2>1 DEF BaseInv, LaneIsHeld, Holding, MoveMarks, Commit, Callers
  <2>3. \A w \in Workers : ~WriteText(w)
    BY <2>1 DEF BaseInv, TasksTakeTurns, WriteText, Working, Workers
  <2>4. ~Hydrate /\ \A s \in scan.seen : ~ScanPublish(s)
    BY <2>1 DEF Hydrate, ScanPublish
  <2> QED  BY <2>2, <2>3, <2>4, Writers
<1>2. Spec => []BaseInv
  BY IndexInvariance
<1> QED  BY <1>1, <1>2, PTL DEF Spec, ClosedIsQuiet

-----------------------------------------------------------------------------
(* Every path that differs is still to be looked at.                       *)

LEMMA ScanPaths ==
    ASSUME BaseInv
    PROVE  /\ scan.seen \subseteq Nodes /\ \A s \in scan.seen : s.path \in Paths
           /\ \A c \in Callers : /\ rec[c].seen \subseteq Nodes /\ \A s \in rec[c].seen : s.path \in Paths
                                 /\ Covered(rec[c].roots) \subseteq Paths
<1>1. scan.seen \subseteq Nodes /\ \A s \in scan.seen : s.path \in Paths
  BY DEF BaseInv, Types, TypesIndex, Scanning, Nodes
<1>2. \A c \in Callers : rec[c].seen \subseteq Nodes /\ Covered(rec[c].roots) \subseteq Paths
  BY LaneFacts DEF Running
<1> QED  BY <1>1, <1>2 DEF Nodes

\* A step after which the folder, the rows, the scan and the walks are as they
\* were, and every path that was to be looked at still is.
LEMMA LookFrame ==
    ASSUME BaseInv, LookInv, Live' => Live,
           UNCHANGED disk, scan'.todo = scan.todo, scan'.seen = scan.seen,
           \A p \in Paths : NodesAt(p)' = NodesAt(p) /\ (Noticed(p) => Noticed(p)'),
           \A c \in Callers : rec'[c].pc \in Holding =>
               /\ rec[c].pc \in Holding /\ rec'[c].roots = rec[c].roots
               /\ rec'[c].todo = rec[c].todo /\ rec'[c].seen = rec[c].seen
               /\ \A p \in Paths : Later(c, p) => Later(c, p)'
    PROVE  LookInv'
<1> SUFFICES ASSUME Live' PROVE LookInv'
  BY DEF LookInv
<1>1. /\ \A p \in Paths : NothingStale(p) /\ NothingMissing(p)
      /\ ScanIsFresh /\ \A c \in Callers : WalkIsFresh(c)
  BY DEF LookInv
<1>2. \A p : Sight(p)' = Sight(p)
  BY DEF Sight
<1>3. \A p \in Paths : NothingStale(p)' /\ NothingMissing(p)'
  BY <1>1, <1>2 DEF NothingStale, NothingMissing
<1>4. ScanIsFresh'
  BY <1>1, <1>2, ScanPaths DEF ScanIsFresh
<1>5. ASSUME NEW c \in Callers
      PROVE  WalkIsFresh(c)'
  <2> SUFFICES ASSUME rec'[c].pc \in Holding PROVE WalkIsFresh(c)'
    BY DEF WalkIsFresh
  <2>1. Covered(rec'[c].roots) = Covered(rec[c].roots) /\ Covered(rec[c].roots) \subseteq Paths
    BY ScanPaths
  <2> QED  BY <1>1, <1>2, <2>1 DEF WalkIsFresh
<1> QED  BY <1>3, <1>4, <1>5 DEF LookInv

\* Who is told what does not depend on how a reconcile gets on.
LEMMA NoticedFrame ==
    ASSUME UNCHANGED <<heard, pending, queue>>
    PROVE  /\ \A p : Told(p)' <=> Told(p)
           /\ rec'["watcher"].pc # "idle" /\ rec'["watcher"].roots = rec["watcher"].roots
                 => \A p : Noticed(p) => Noticed(p)'
           /\ rec'["watcher"] = rec["watcher"]
                 => \A p : (Noticed(p)' <=> Noticed(p)) /\ \A c : Later(c, p)' <=> Later(c, p)
<1>1. \A p : Told(p)' <=> Told(p)
  BY DEF Told, Covered
<1>2. \A roots : Covered(roots)' = Covered(roots)
  BY DEF Covered
<1> QED  BY <1>1 DEF Noticed, Later, Covered

LEMMA QuietLook ==
    ASSUME BaseInv, LookInv, Live' => Live,
           UNCHANGED <<disk, heard, pending, queue, rec>>,
           scan'.todo = scan.todo, scan'.seen = scan.seen,
           \A p \in Paths : NodesAt(p)' = NodesAt(p)
    PROVE  LookInv'
<1>1. \A p : (Noticed(p)' <=> Noticed(p)) /\ \A c : Later(c, p)' <=> Later(c, p)
  BY NoticedFrame
<1>2. \A c \in Callers : rec'[c] = rec[c]
  OBVIOUS
<1> QED  BY <1>1, <1>2, LookFrame

LEMMA SameNodes == index' = index => \A p : NodesAt(p)' = NodesAt(p)
BY DEF NodesAt, RowsAt

\* The steps of the derived work, the loop, the close, and the end of the scan.
LEMMA DeriveLook == ASSUME BaseInv, LookInv, NEW w \in Workers, Derive(w) PROVE LookInv'
<1>1. CASE (\E n \in derive[w].todo : Consider(w, n)) \/ Validate(w) \/ Extract(w)
  <2>1. UNCHANGED <<disk, heard, pending, queue, rec, index, scan, close, errors>>
    BY <1>1 DEF Consider, Validate, Extract
  <2> QED  BY <2>1, SameNodes, QuietLook DEF Live, Current
<1>2. CASE WriteText(w)
  <2>1. UNCHANGED <<disk, heard, pending, queue, rec, scan, close, errors>>
    BY <1>2 DEF WriteText
  <2> QED  BY <1>2, <2>1, WrittenRows, QuietLook DEF Live, Current
<1> QED  BY <1>1, <1>2 DEF Derive

LEMMA LoopLook == ASSUME BaseInv, LookInv, RebuildEnds \/ LoopEnds PROVE LookInv'
<1>1. UNCHANGED <<disk, heard, pending, queue, rec, index, scan, close, errors>>
  BY DEF RebuildEnds, LoopEnds
<1> QED  BY <1>1, SameNodes, QuietLook DEF Live, Current

LEMMA EndLook ==
    ASSUME BaseInv, CancelScan \/ ScanGivesUp \/ CloseProject \/ CloseTask
    PROVE  LookInv'
<1>1. ASSUME CancelScan \/ ScanGivesUp, BaseInv
      PROVE  LookInv'
  <2>1. scan' = [scan EXCEPT !.pc = "cancelled"] /\ scan \in Scanning
    BY <1>1 DEF CancelScan, ScanGivesUp, BaseInv, Types, TypesIndex
  <2>2. scan'.pc = "cancelled"
    BY <2>1 DEF Scanning
  <2> QED  BY <2>2 DEF LookInv, Live
<1>2. CASE CloseProject \/ CloseTask
  BY <1>2 DEF LookInv, Live, Current, CloseProject, CloseTask, StopWatcher, FinishClose
<1> QED  BY <1>1, <1>2

\* A batch, a tick and the start of a request lose no path.
LEMMA PushTells ==
    ASSUME BaseInv, Deliver, NEW p \in Paths, Told(p)
    PROVE  Told(p)'
<1>1. PICK batch \in SUBSET heard, overflow \in {"none", "known", "everywhere"} : Push(batch, overflow)
  BY DEF Deliver
<1> DEFINE places == IF overflow = "everywhere" THEN {Root} ELSE {Home[q] : q \in batch}
           homes == Minimized(pending.homes \cup places)
<1>2. /\ heard' = heard \ batch /\ batch \subseteq Paths /\ queue' = queue
      /\ pending' = [homes |-> homes,
                     overflow |-> homes # {Root} /\ (pending.overflow \/ overflow # "none")]
  BY <1>1 DEF Push, BaseInv, Types, TypesFiles
<1>3. pending'.homes = homes
  BY <1>2
<1>4. pending.homes \in SUBSET Folders
  BY DEF BaseInv, Types, TypesLoop, Requests
<1>5. \A q \in batch : Home[q] \in Folders /\ q \in Holds[Home[q]] /\ q \in Holds[Root]
  BY <1>2, FoldersAssumption
<1>6. {Home[q] : q \in batch} \in SUBSET Folders /\ Root \in Folders
  BY <1>5, FoldersAssumption
<1>7. places \in SUBSET Folders /\ \A q \in batch : \E f \in places : q \in Holds[f]
  BY <1>5, <1>6
<1> HIDE DEF places
<1>8. Covered(homes) = Covered(pending.homes \cup places)
  BY <1>4, <1>7, MinimizedCovers
<1>9. p \in batch \/ p \in Covered(pending.homes) => p \in Covered(homes)
  BY <1>7, <1>8 DEF Covered
<1> HIDE DEF homes
<1> QED  BY <1>2, <1>3, <1>9 DEF Told, Covered

LEMMA FlushTells ==
    ASSUME BaseInv, Flush, NEW p \in Paths, Told(p)
    PROVE  Told(p)'
<1> DEFINE request == RequestOf(pending)
<1>1. /\ queue' = (IF Len(queue) < MaxQueued THEN Append(queue, request) ELSE <<{Root}>>)
      /\ heard' = heard
  BY DEF Flush, Enqueued
<1>2. Covered(pending.homes) \subseteq Covered(request) /\ request \in Requests
  BY RequestCovers DEF BaseInv, Types
<1>3. p \in Covered({Root})
  BY FoldersAssumption DEF Covered
<1>4. queue \in Seq(Requests) /\ MaxQueued \in Nat
  BY BoundsAssumption DEF BaseInv, Types, TypesLoop
<1> HIDE DEF request
<1> HIDE DEF Requests
<1>5. CASE Len(queue) < MaxQueued
  <2>1. queue' = Append(queue, request) /\ Len(queue) \in Nat
    BY <1>1, <1>4, <1>5
  <2>2. DOMAIN queue = 1 .. Len(queue) /\ DOMAIN queue' = 1 .. (Len(queue) + 1)
    BY <1>2, <1>4, <2>1
  <2>3. /\ \A i \in DOMAIN queue : i \in DOMAIN queue' /\ queue'[i] = queue[i]
        /\ Len(queue) + 1 \in DOMAIN queue' /\ queue'[Len(queue) + 1] = request
    BY <1>2, <1>4, <2>1, <2>2
  <2> QED  BY <1>1, <1>2, <2>3 DEF Told, Covered
<1>6. CASE ~(Len(queue) < MaxQueued)
  <2>1. queue' = <<{Root}>>
    BY <1>1, <1>6
  <2>2. 1 \in DOMAIN queue' /\ queue'[1] = {Root}
    BY <2>1
  <2> QED  BY <1>3, <2>2 DEF Told, Covered
<1> QED  BY <1>5, <1>6

LEMMA StartTells ==
    ASSUME BaseInv, StartRequest, Current, NEW p \in Paths
    PROVE  /\ rec["watcher"].pc = "idle" /\ rec'["watcher"].pc = "lane" /\ rec'["saver"] = rec["saver"]
           /\ Told(p) => Told(p)' \/ p \in Covered(rec'["watcher"].roots)
<1>1. /\ loop = "select" /\ queue # <<>> /\ queue' = Tail(queue) /\ heard' = heard /\ pending' = pending
      /\ rec' = [rec EXCEPT !["watcher"] = [Idle EXCEPT !.pc = "lane", !.roots = Head(queue)]]
  BY DEF StartRequest
<1>2. queue \in Seq(Requests) /\ rec \in [Callers -> Running]
  BY DEF BaseInv, Types, TypesLoop, TypesLane
<1>3. /\ rec'["watcher"].pc = "lane" /\ rec'["watcher"].roots = Head(queue)
      /\ rec'["saver"] = rec["saver"] /\ rec["watcher"].pc = "idle"
  BY <1>1, <1>2 DEF Idle, Callers, BaseInv, TasksTakeTurns
<1> HIDE DEF Requests
<1>4. \A i \in DOMAIN queue : i = 1 \/ (i - 1 \in DOMAIN queue' /\ queue'[i - 1] = queue[i])
  <2>1. Len(queue) \in Nat \ {0} /\ DOMAIN queue = 1 .. Len(queue) /\ DOMAIN queue' = 1 .. (Len(queue) - 1)
    BY <1>1, <1>2
  <2>2. \A j \in 1 .. (Len(queue) - 1) : queue'[j] = queue[j + 1]
    BY <1>1, <1>2, <2>1
  <2> QED  BY <2>1, <2>2
<1>5. Head(queue) = queue[1]
  BY <1>1, <1>2
<1> QED  BY <1>1, <1>3, <1>4, <1>5 DEF Told, Covered

LEMMA PlanLook == ASSUME BaseInv, LookInv, Deliver \/ Flush PROVE LookInv'
<1>1. /\ UNCHANGED <<disk, rec, scan, index, close, errors>>
  BY DEF Deliver, Push, Flush
<1>2. \A p \in Paths : Told(p) => Told(p)'
  BY PushTells, FlushTells
<1>3. \A p \in Paths : (Noticed(p) => Noticed(p)') /\ \A c \in Callers : Later(c, p) => Later(c, p)'
  BY <1>1, <1>2 DEF Noticed, Later, Covered
<1>4. \A p : NodesAt(p)' = NodesAt(p)
  BY <1>1, SameNodes
<1>5. Live' => Live
  BY <1>1 DEF Live, Current
<1> QED  BY <1>1, <1>3, <1>4, <1>5, LookFrame

LEMMA StartLook == ASSUME BaseInv, LookInv, StartRequest PROVE LookInv'
<1>1. UNCHANGED <<disk, scan, index, close, errors>>
  BY DEF StartRequest
<1> SUFFICES ASSUME Current PROVE LookInv'
  BY <1>1 DEF LookInv, Live, Current
<1>2. \A p : NodesAt(p)' = NodesAt(p)
  BY <1>1, SameNodes
<1>3. Live' => Live
  BY <1>1 DEF Live, Current
<1>4. \A p \in Paths : /\ rec["watcher"].pc = "idle" /\ rec'["watcher"].pc = "lane" /\ rec'["saver"] = rec["saver"]
                       /\ Told(p) => Told(p)' \/ p \in Covered(rec'["watcher"].roots)
  BY StartTells
<1>5. \A p \in Paths : Noticed(p) => Noticed(p)'
  BY <1>4 DEF Noticed, Covered
<1>6. ASSUME NEW c \in Callers, rec'[c].pc \in Holding
      PROVE  /\ rec[c].pc \in Holding /\ rec'[c].roots = rec[c].roots
             /\ rec'[c].todo = rec[c].todo /\ rec'[c].seen = rec[c].seen
             /\ \A p \in Paths : Later(c, p) => Later(c, p)'
  <2>1. CASE Paths = {}
    BY <2>1, FoldersAssumption
  <2>2. CASE Paths # {}
    <3>1. rec'["watcher"].pc = "lane" /\ rec'["saver"] = rec["saver"] /\ rec["watcher"].pc = "idle"
      BY <1>4, <2>2
    <3>2. c = "saver"
      BY <1>6, <3>1 DEF Callers, Holding
    <3>3. \A p \in Paths : Later(c, p) => Later(c, p)'
      BY <1>4, <3>1, <3>2 DEF Later, Covered
    <3> QED  BY <1>6, <3>1, <3>2, <3>3
  <2> QED  BY <2>1, <2>2
<1> QED  BY <1>1, <1>2, <1>3, <1>5, <1>6, LookFrame

LEMMA HydrateLook == ASSUME BaseInv, LookInv, ScanReady \/ Hydrate PROVE LookInv'
<1>1. CASE ScanReady
  <2>1. UNCHANGED <<disk, heard, pending, queue, rec, index, close, errors>> /\ scan.pc = "derive"
        /\ scan' = [scan EXCEPT !.pc = "done"]
    BY <1>1 DEF ScanReady
  <2>2. scan'.todo = scan.todo /\ scan'.seen = scan.seen
    BY <2>1 DEF BaseInv, Types, TypesIndex, Scanning
  <2>3. Live' => Live
    BY <2>1 DEF Live, Current
  <2> QED  BY <2>1, <2>2, <2>3, SameNodes, QuietLook
<1>2. CASE Hydrate
  <2> DEFINE X(r) == [r EXCEPT !.mark = r.mark \/ r.path \in store]
  <2>1. /\ scan'.todo = scan.todo /\ scan'.seen = scan.seen /\ scan.pc = "walk"
        /\ UNCHANGED <<disk, heard, pending, queue, rec, close, errors>>
        /\ index' = {X(r) : r \in index} /\ \A r \in index : Node(X(r)) = Node(r) /\ X(r).path = r.path
    BY <1>2, HydrateStep
  <2> HIDE DEF X
  <2>2. \A p : NodesAt(p)' = NodesAt(p)
    BY <2>1 DEF NodesAt, RowsAt
  <2>3. Live' => Live
    BY <2>1 DEF Live, Current
  <2> QED  BY <2>1, <2>2, <2>3, QuietLook
<1> QED  BY <1>1, <1>2

LEMMA ScanWalkLook == ASSUME BaseInv, LookInv, ScanWalk PROVE LookInv'
<1>1. PICK p \in scan.todo :
         /\ p \in Paths /\ scan.pc = "walk" /\ scan' \in Scanning /\ scan'.pc = "walk"
         /\ scan'.todo = scan.todo \ {p} /\ scan'.seen = scan.seen \cup Sight(p)
         /\ UNCHANGED <<disk, store, index, lane, heard, pending, queue, loop, rec, derive, close, errors, spent>>
  BY ScanWalkStep
<1> SUFFICES ASSUME Live' PROVE LookInv'
  BY DEF LookInv
<1>2. Live
  BY <1>1 DEF Live, Current
<1>3. /\ \A q \in Paths : NothingStale(q) /\ NothingMissing(q)
      /\ ScanIsFresh /\ \A c \in Callers : WalkIsFresh(c)
  BY <1>2 DEF LookInv
<1>4. \A q : NodesAt(q)' = NodesAt(q) /\ Sight(q)' = Sight(q)
  BY <1>1, SameNodes DEF Sight
<1>5. \A q : (Noticed(q)' <=> Noticed(q)) /\ \A c : Later(c, q)' <=> Later(c, q)
  BY <1>1, NoticedFrame
<1>6. /\ \A s \in Sight(p) : s.path = p /\ s.id = disk[p].id /\ Known(s) /\ Sight(p) = {s}
  BY <1>1, SightTypes DEF BaseInv, Types, Sight
<1>7. \A q \in Paths : NothingStale(q)' /\ NothingMissing(q)'
  BY <1>1, <1>3, <1>4, <1>5, <1>6 DEF NothingStale, NothingMissing
<1>8. ScanIsFresh'
  <2>1. ASSUME NEW s \in Sight(p), NEW q \in Paths, disk[q].id = s.id
        PROVE  q = p
    BY <1>1, <1>6, <2>1 DEF BaseInv, FilesAreDistinct, Known
  <2> QED  BY <1>1, <1>3, <1>4, <1>5, <1>6, <2>1 DEF ScanIsFresh
<1>9. \A c \in Callers : WalkIsFresh(c)'
  BY <1>1, <1>3, <1>4, <1>5, ScanPaths DEF WalkIsFresh, Covered
<1> QED  BY <1>7, <1>8, <1>9 DEF LookInv

LEMMA ScanPublishLook == ASSUME BaseInv, LookInv, NEW s, ScanPublish(s) PROVE LookInv'
<1>1. /\ s \in scan.seen /\ s \in Nodes /\ Known(s) /\ s.path \in Paths
      /\ scan.pc = "walk" /\ scan.todo = {} /\ scan' \in Scanning
      /\ scan'.todo = {} /\ scan'.seen \subseteq scan.seen
      /\ UNCHANGED <<disk, store, lane, heard, pending, queue, loop, rec, derive, close, errors, spent>>
  BY ScanPublishStep
<1> SUFFICES ASSUME Live' PROVE LookInv'
  BY DEF LookInv
<1>2. PICK new \in Rows : Published(s, new)
  BY ScanPublishStep DEF Live
<1>3. Live
  BY <1>1 DEF Live, Current
<1>4. /\ \A q \in Paths : NothingStale(q) /\ NothingMissing(q)
      /\ ScanIsFresh /\ \A c \in Callers : WalkIsFresh(c)
  BY <1>3 DEF LookInv
<1>5. \A q : Sight(q)' = Sight(q)
  BY <1>1 DEF Sight
<1>6. \A q : (Noticed(q)' <=> Noticed(q)) /\ \A c : Later(c, q)' <=> Later(c, q)
  BY <1>1, NoticedFrame
<1>7. /\ index' = {r \in index : r.id # s.id} \cup {new}
      /\ new.path = s.path /\ Node(new) = s /\ scan'.seen = scan.seen \ {s}
      /\ \A r \in index : r.path = s.path => r.id = s.id
  BY <1>2 DEF Published
<1>8. NodesAt(s.path)' = {s}
  BY <1>7 DEF NodesAt, RowsAt
<1>9. \A q : q # s.path => NodesAt(q)' \subseteq NodesAt(q)
  BY <1>7 DEF NodesAt, RowsAt
<1>10. \A q : q # s.path => \A n \in NodesAt(q) : n.id # s.id => n \in NodesAt(q)'
  BY <1>7 DEF NodesAt, RowsAt, Node
<1>11. \A q \in Paths : NothingStale(q)'
  BY <1>1, <1>4, <1>5, <1>6, <1>8, <1>9 DEF NothingStale, ScanIsFresh
<1>12. ASSUME NEW q \in Paths
       PROVE  NothingMissing(q)'
  <2>1. CASE q = s.path
    BY <1>1, <1>4, <1>5, <1>6, <1>8, <2>1 DEF NothingMissing, ScanIsFresh
  <2>2. CASE q # s.path
    <3>1. \A n \in Sight(q) : n.id = s.id => Noticed(q)
      BY <1>1, <1>4, <2>2 DEF ScanIsFresh, Sight
    <3>2. NothingMissing(q)
      BY <1>4
    <3>3. \A t \in scan.seen : t.path = q => t \in scan'.seen
      BY <1>7, <2>2
    <3> QED  BY <1>1, <1>5, <1>6, <1>10, <2>2, <3>1, <3>2, <3>3 DEF NothingMissing
  <2> QED  BY <2>1, <2>2
<1>13. ScanIsFresh'
  BY <1>1, <1>4, <1>5, <1>6 DEF ScanIsFresh
<1>14. \A c \in Callers : WalkIsFresh(c)'
  BY <1>1, <1>4, <1>5, <1>6 DEF WalkIsFresh, Covered
<1> QED  BY <1>11, <1>12, <1>13, <1>14 DEF LookInv

\* A change of the folder is heard of at every path it touches.
LEMMA EditLook ==
    ASSUME BaseInv, LookInv, NEW touched, EditStep(touched),
           rec'["watcher"] = rec["watcher"],
           rec'["saver"] = rec["saver"] \/ rec'["saver"].pc \notin Holding
    PROVE  LookInv'
<1>1. /\ UNCHANGED <<index, pending, queue, scan, close, errors>>
      /\ heard' = heard \cup touched
  BY DEF EditStep
<1>2. \A q \in Paths \ touched : disk'[q] = disk[q]
  BY EditedFiles DEF BaseInv, Types
<1> SUFFICES ASSUME Live' PROVE LookInv'
  BY DEF LookInv
<1>3. Live
  BY <1>1 DEF Live, Current
<1>4. /\ \A q \in Paths : NothingStale(q) /\ NothingMissing(q)
      /\ ScanIsFresh /\ \A c \in Callers : WalkIsFresh(c)
  BY <1>3 DEF LookInv
<1>5. \A q : NodesAt(q)' = NodesAt(q)
  BY <1>1, SameNodes
<1>6. \A q \in Paths \ touched : Sight(q)' = Sight(q)
  BY <1>2 DEF Sight
<1>7. /\ \A q : Told(q) => Told(q)'
      /\ \A q \in touched : Told(q)'
  BY <1>1 DEF Told, Covered
<1>8. /\ \A q : (Noticed(q) => Noticed(q)') /\ \A c : Later(c, q) => Later(c, q)'
      /\ \A q \in touched : Noticed(q)' /\ \A c : Later(c, q)'
  BY <1>7 DEF Noticed, Later, Covered
<1>9. \A q \in Paths : NothingStale(q)' /\ NothingMissing(q)'
  BY <1>1, <1>4, <1>5, <1>6, <1>8 DEF NothingStale, NothingMissing
<1>10. ScanIsFresh'
  BY <1>1, <1>2, <1>4, <1>6, <1>8, ScanPaths DEF ScanIsFresh
<1>11. ASSUME NEW c \in Callers
       PROVE  WalkIsFresh(c)'
  <2> SUFFICES ASSUME rec'[c].pc \in Holding PROVE WalkIsFresh(c)'
    BY DEF WalkIsFresh
  <2>1. rec'[c] = rec[c]
    BY DEF Callers
  <2>2. Covered(rec'[c].roots) = Covered(rec[c].roots) /\ Covered(rec[c].roots) \subseteq Paths
    BY <2>1, ScanPaths
  <2> QED  BY <1>2, <1>4, <1>6, <1>8, <2>1, <2>2 DEF WalkIsFresh
<1> QED  BY <1>9, <1>10, <1>11 DEF LookInv

LEMMA ChangeLook == ASSUME BaseInv, LookInv, OtherProgram \/ \E p, q \in Paths : SaveText(p, q) PROVE LookInv'
<1>1. CASE OtherProgram
  BY <1>1, OtherEdits, EditLook DEF BaseInv, Types
<1>2. ASSUME NEW p \in Paths, NEW q \in Paths, SaveText(p, q)
      PROVE  LookInv'
  <2>1. /\ \E touched : EditStep(touched)
        /\ rec'["watcher"] = rec["watcher"]
        /\ rec'["saver"] = [Idle EXCEPT !.pc = "lane", !.roots = {Home[p]}]
    BY <1>2, SaveEdits DEF BaseInv
  <2>2. rec'["saver"].pc = "lane"
    BY <2>1 DEF Idle
  <2> QED  BY <2>1, <2>2, EditLook DEF Holding
<1> QED  BY <1>1, <1>2

\* The steps of a reconcile that do not change the rows.
LEMMA TakeLaneLook == ASSUME BaseInv, LookInv, NEW c \in Callers, TakeLane(c) PROVE LookInv'
<1>1. /\ rec[c].pc = "lane" /\ lane = "free"
      /\ UNCHANGED <<disk, index, heard, pending, queue, scan, close>>
  BY DEF TakeLane
<1> SUFFICES ASSUME Current PROVE LookInv'
  BY <1>1 DEF LookInv, Live, Current
<1> SUFFICES ASSUME Live' PROVE LookInv'
  BY DEF LookInv
<1>2. /\ lane' = c /\ errors' = errors
      /\ rec' = [rec EXCEPT ![c].pc = "walk", ![c].todo = Covered(rec[c].roots)]
  BY DEF TakeLane
<1>3. rec \in [Callers -> Running] /\ rec[c] \in Running /\ rec[c].seen = {}
  BY <1>1 DEF BaseInv, Types, TypesLane, SightsFitTheWalk
<1>4. /\ rec'[c].pc = "walk" /\ rec'[c].todo = Covered(rec[c].roots)
      /\ rec'[c].roots = rec[c].roots /\ rec'[c].seen = {}
      /\ \A d \in Callers \ {c} : rec'[d] = rec[d] /\ rec[d].pc \notin Holding
  BY <1>1, <1>2, <1>3 DEF Running, BaseInv, LaneIsHeld, Callers
<1>5. Live
  BY <1>1, <1>2 DEF Live, Current
<1>6. /\ \A q \in Paths : NothingStale(q) /\ NothingMissing(q) /\ ScanIsFresh
  BY <1>5 DEF LookInv
<1>7. \A q : NodesAt(q)' = NodesAt(q) /\ Sight(q)' = Sight(q)
  BY <1>1, SameNodes DEF Sight
<1>8. rec'["watcher"].roots = rec["watcher"].roots /\ (rec["watcher"].pc # "idle" => rec'["watcher"].pc # "idle")
  BY <1>4 DEF Callers
<1>9. \A q : Noticed(q) => Noticed(q)'
  BY <1>1, <1>8, NoticedFrame DEF Noticed
<1>10. \A q \in Paths : NothingStale(q)' /\ NothingMissing(q)'
  BY <1>1, <1>6, <1>7, <1>9 DEF NothingStale, NothingMissing
<1>11. ScanIsFresh'
  BY <1>1, <1>6, <1>7, <1>9, ScanPaths DEF ScanIsFresh
<1>12. \A d \in Callers : WalkIsFresh(d)'
  BY <1>4 DEF WalkIsFresh, Covered
<1> QED  BY <1>6, <1>10, <1>11, <1>12 DEF LookInv

LEMMA WalkLook == ASSUME BaseInv, LookInv, NEW c \in Callers, Walk(c) PROVE LookInv'
<1>1. PICK p \in rec[c].todo :
              /\ p \in Paths /\ rec[c].pc = "walk"
              /\ rec' \in [Callers -> Running]
              /\ rec' = [rec EXCEPT ![c] = rec'[c]]
              /\ \A d \in Callers \ {c} : rec'[d] = rec[d]
              /\ rec'[c].pc = "walk" /\ rec'[c].roots = rec[c].roots
              /\ rec'[c].todo = rec[c].todo \ {p}
              /\ rec'[c].seen = rec[c].seen \cup Sight(p)
              /\ UNCHANGED <<disk, store, index, lane, heard, pending, queue, loop, derive, scan, close, errors, spent>>
  BY WalkStep
<1> SUFFICES ASSUME Live' PROVE LookInv'
  BY DEF LookInv
<1>2. Live
  BY <1>1 DEF Live, Current
<1>3. /\ \A q \in Paths : NothingStale(q) /\ NothingMissing(q)
      /\ ScanIsFresh /\ WalkIsFresh(c)
  BY <1>2 DEF LookInv
<1>4. \A q : NodesAt(q)' = NodesAt(q) /\ Sight(q)' = Sight(q)
  BY <1>1, SameNodes DEF Sight
<1>5. /\ rec'["watcher"].pc = rec["watcher"].pc /\ rec'["watcher"].roots = rec["watcher"].roots
      /\ \A d \in Callers \ {c} : rec[d].pc \notin Holding
  BY <1>1 DEF Callers, BaseInv, LaneIsHeld, Holding
<1>6. \A q : (Noticed(q)' <=> Noticed(q)) /\ \A d : Later(d, q)' <=> Later(d, q)
  BY <1>1, <1>5, NoticedFrame DEF Noticed, Later, Covered
<1>7. \A s \in Sight(p) : s.path = p /\ s.id = disk[p].id /\ Known(s)
  BY <1>1, SightTypes DEF BaseInv, Types
<1>8. \A q \in Paths : NothingStale(q)' /\ NothingMissing(q)'
  BY <1>1, <1>3, <1>4, <1>6 DEF NothingStale, NothingMissing
<1>9. ScanIsFresh'
  BY <1>1, <1>3, <1>4, <1>6 DEF ScanIsFresh
<1>10. WalkIsFresh(c)'
  <2> DEFINE all == Covered(rec[c].roots)
  <2>1. all \subseteq Paths /\ Covered(rec'[c].roots) = all
    BY <1>1, LaneFacts
  <2>2. \A s \in rec[c].seen : s.path \notin rec[c].todo
    BY DEF BaseInv, SightsFitTheWalk
  <2>3. /\ \A q \in all \ rec[c].todo : Later(c, q) \/ {s \in rec[c].seen : s.path = q} = Sight(q)
        /\ \A s \in rec[c].seen, q \in Paths : disk[q].id = s.id /\ q # s.path => Later(c, q)
    BY <1>1, <1>3 DEF WalkIsFresh, Holding
  <2> HIDE DEF all
  <2>4. {s \in rec'[c].seen : s.path = p} = Sight(p)
    BY <1>1, <1>7, <2>2
  <2>5. \A q : q # p => {s \in rec'[c].seen : s.path = q} = {s \in rec[c].seen : s.path = q}
    BY <1>1, <1>7
  <2>6. \A q \in all \ rec'[c].todo : Later(c, q)' \/ {s \in rec'[c].seen : s.path = q} = Sight(q)'
    <3> SUFFICES ASSUME NEW q \in all \ rec'[c].todo, ~Later(c, q)'
                 PROVE  {s \in rec'[c].seen : s.path = q} = Sight(q)'
      OBVIOUS
    <3>1. CASE q = p
      BY <1>4, <2>4, <3>1
    <3>2. CASE q # p
      <4>1. q \in all \ rec[c].todo /\ ~Later(c, q)
        BY <1>1, <1>6, <3>2
      <4> QED  BY <1>4, <2>3, <2>5, <3>2, <4>1
    <3> QED  BY <3>1, <3>2
  <2>7. \A s \in Sight(p), q \in Paths : disk[q].id = s.id => q = p
    BY <1>1, <1>7 DEF BaseInv, FilesAreDistinct, Known
  <2>8. \A s \in rec'[c].seen, q \in Paths : disk'[q].id = s.id /\ q # s.path => Later(c, q)'
    BY <1>1, <1>6, <1>7, <2>3, <2>7
  <2> QED  BY <2>1, <2>6, <2>8 DEF WalkIsFresh
<1>11. \A d \in Callers : WalkIsFresh(d)'
  BY <1>1, <1>5, <1>10 DEF WalkIsFresh
<1> QED  BY <1>8, <1>9, <1>11 DEF LookInv

\* A reconcile that fails ends a saver's look, or is announced by the loop.
LEMMA FailedLook ==
    ASSUME BaseInv, LookInv, NEW c \in Callers, NEW outcome, outcome # "ok",
           outcome = "StaleSession" => ~Current,
           rec' = [rec EXCEPT ![c] = Idle], WatcherGoesOn(c, outcome),
           index' = index, UNCHANGED <<disk, heard, pending, queue, scan, close>>
    PROVE  LookInv'
<1> SUFFICES ASSUME Live' PROVE LookInv'
  BY DEF LookInv
<1>1. c = "saver" /\ errors' = {} /\ errors = {}
  BY LoopGoesOn DEF Live, Current, Callers, BaseInv, Types, TypesIndex
<1>2. /\ rec'["watcher"] = rec["watcher"] /\ rec'["saver"].pc = "idle"
  BY <1>1 DEF BaseInv, Types, TypesLane, Callers, Idle
<1>3. Live' => Live
  BY <1>1 DEF Live, Current
<1>4. \A p : (Noticed(p)' <=> Noticed(p)) /\ \A d : Later(d, p)' <=> Later(d, p)
  BY <1>2, NoticedFrame
<1> QED  BY <1>2, <1>3, <1>4, SameNodes, LookFrame DEF Holding, Callers

LEMMA PlanMovesLook == ASSUME BaseInv, LookInv, NEW c \in Callers, PlanMoves(c) PROVE LookInv'
<1>1. /\ rec[c].pc = "walk"
      /\ UNCHANGED <<disk, store, index, heard, pending, queue, scan, close>>
  BY DEF PlanMoves
<1>2. CASE Current /\ Acceptable(rec[c].roots, rec[c].seen)
  <2>1. /\ UNCHANGED <<lane, loop, errors, derive>>
        /\ rec' = [rec EXCEPT ![c].pc = "marks", ![c].moves = IdentityMoves(rec[c].seen)]
    BY <1>2 DEF PlanMoves
  <2>2. rec \in [Callers -> Running]
    BY DEF BaseInv, Types, TypesLane
  <2>3. \A d \in Callers : /\ rec'[d].roots = rec[d].roots /\ rec'[d].todo = rec[d].todo
                           /\ rec'[d].seen = rec[d].seen
                           /\ rec'[d].pc = (IF d = c THEN "marks" ELSE rec[d].pc)
    BY <2>1, <2>2 DEF Running
  <2>4. \A d \in Callers : rec'[d].pc # "lane" <=> rec[d].pc # "lane"
    BY <1>1, <2>3
  <2>5. \A p : (Noticed(p) => Noticed(p)') /\ \A d \in Callers : Later(d, p) => Later(d, p)'
    BY <1>1, <2>3, <2>4, NoticedFrame DEF Noticed, Later, Covered, Callers
  <2>6. Live' => Live
    BY <1>1, <2>1 DEF Live, Current
  <2>7. \A d \in Callers : rec'[d].pc \in Holding => rec[d].pc \in Holding
    BY <1>1, <2>3 DEF Holding
  <2> QED  BY <1>1, <2>3, <2>5, <2>6, <2>7, SameNodes, LookFrame
<1>3. CASE ~(Current /\ Acceptable(rec[c].roots, rec[c].seen))
  <2> DEFINE outcome == IF Current THEN "IndexUnavailable" ELSE "StaleSession"
  <2>1. rec' = [rec EXCEPT ![c] = Idle] /\ WatcherGoesOn(c, outcome)
    BY <1>3 DEF PlanMoves, Give, Ended
  <2>2. outcome # "ok" /\ (outcome = "StaleSession" => ~Current)
    OBVIOUS
  <2> HIDE DEF outcome
  <2> QED  BY <1>1, <2>1, <2>2, FailedLook
<1> QED  BY <1>2, <1>3

LEMMA MoveMarksLook == ASSUME BaseInv, LookInv, NEW c \in Callers, MoveMarks(c) PROVE LookInv'
<1>1. /\ rec[c].pc = "marks"
      /\ UNCHANGED <<disk, index, heard, pending, queue, scan, close>>
  BY DEF MoveMarks
<1>2. CASE MarksCollide(rec[c].moves)
  BY <1>1, <1>2, FailedLook DEF MoveMarks, Give, Ended
<1>3. CASE ~MarksCollide(rec[c].moves) /\ ~Current
  BY <1>1, <1>3, FailedLook DEF MoveMarks, Give, Ended
<1>4. CASE ~MarksCollide(rec[c].moves) /\ Current
  <2>1. /\ UNCHANGED <<lane, loop, errors, derive>> /\ rec' = [rec EXCEPT ![c].pc = "commit"]
    BY <1>4 DEF MoveMarks
  <2>2. rec \in [Callers -> Running]
    BY DEF BaseInv, Types, TypesLane
  <2>3. \A d \in Callers : /\ rec'[d].roots = rec[d].roots /\ rec'[d].todo = rec[d].todo
                           /\ rec'[d].seen = rec[d].seen
                           /\ rec'[d].pc = (IF d = c THEN "commit" ELSE rec[d].pc)
    BY <2>1, <2>2 DEF Running
  <2>4. \A d \in Callers : rec'[d].pc # "lane" <=> rec[d].pc # "lane"
    BY <1>1, <2>3
  <2>5. \A p : (Noticed(p) => Noticed(p)') /\ \A d \in Callers : Later(d, p) => Later(d, p)'
    BY <1>1, <2>3, <2>4, NoticedFrame DEF Noticed, Later, Covered, Callers
  <2>6. Live' => Live
    BY <1>1, <2>1 DEF Live, Current
  <2>7. \A d \in Callers : rec'[d].pc \in Holding => rec[d].pc \in Holding
    BY <1>1, <2>3 DEF Holding
  <2> QED  BY <1>1, <2>3, <2>5, <2>6, <2>7, SameNodes, LookFrame
<1> QED  BY <1>2, <1>3, <1>4

\* The rows of a commit show what the walk has seen below its roots, and what they
\* have shown elsewhere, but for files that the walk has met.
LEMMA CommittedNodes ==
    ASSUME BaseInv, NEW c \in Callers, Commit(c), Acceptable(rec[c].roots, rec[c].seen)
    PROVE  /\ \A q \in Covered(rec[c].roots) : NodesAt(q)' = {s \in rec[c].seen : s.path = q}
           /\ \A q : q \notin Covered(rec[c].roots) => NodesAt(q)' \subseteq NodesAt(q)
           /\ \A q : q \notin Covered(rec[c].roots) => \A n \in NodesAt(q) :
                 (\A s \in rec[c].seen : s.id # n.id) => n \in NodesAt(q)'
<1> DEFINE all == Covered(rec[c].roots)
           kept == {r \in index : r.path \notin all /\ \A s \in rec[c].seen : s.id # r.id}
           met == {Merged(s) : s \in rec[c].seen}
<1>1. index' = kept \cup met
  BY DEF Commit, Reconciled
<1>2. rec[c].seen \subseteq Nodes /\ \A s \in rec[c].seen : s.path \in all
  BY LaneFacts DEF Running, BaseInv, SightsFitTheWalk
<1>3. \A s \in rec[c].seen : Node(Merged(s)) = s /\ Merged(s).path = s.path
  BY <1>2, MergedRow DEF BaseInv, Types, TypesIndex
<1> HIDE DEF all
<1>4. \A q : NodesAt(q)' = {Node(r) : r \in {x \in kept : x.path = q}} \cup {s \in rec[c].seen : s.path = q}
  BY <1>1, <1>3 DEF NodesAt, RowsAt
<1>5. \A q \in all : {x \in kept : x.path = q} = {}
  OBVIOUS
<1>6. \A q : q \notin all => {s \in rec[c].seen : s.path = q} = {}
  BY <1>2
<1>7. \A q : q \notin all => {Node(r) : r \in {x \in kept : x.path = q}} \subseteq NodesAt(q)
  BY DEF NodesAt, RowsAt
<1>8. \A q : q \notin all => \A n \in NodesAt(q) :
         (\A s \in rec[c].seen : s.id # n.id) => n \in {Node(r) : r \in {x \in kept : x.path = q}}
  BY DEF NodesAt, RowsAt, Node
<1> HIDE DEF kept
<1>9. \A q \in all : NodesAt(q)' = {s \in rec[c].seen : s.path = q}
  BY <1>4, <1>5
<1>10. \A q : q \notin all => NodesAt(q)' \subseteq NodesAt(q)
  BY <1>4, <1>6, <1>7
<1>11. \A q : q \notin all => \A n \in NodesAt(q) :
          (\A s \in rec[c].seen : s.id # n.id) => n \in NodesAt(q)'
  BY <1>4, <1>8
<1> QED  BY <1>9, <1>10, <1>11 DEF all

LEMMA CommitLook == ASSUME BaseInv, LookInv, NEW c \in Callers, Commit(c) PROVE LookInv'
<1>1. /\ rec[c].pc = "commit" /\ lane = c /\ rec' = [rec EXCEPT ![c] = Idle]
      /\ UNCHANGED <<disk, store, heard, pending, queue, scan, close, spent>>
  BY CommitStep
<1>2. CASE ~Acceptable(rec[c].roots, rec[c].seen)
  <2>1. index' = index /\ WatcherGoesOn(c, "IndexUnavailable")
    BY <1>2 DEF Commit, Give
  <2> QED  BY <1>1, <2>1, FailedLook
<1>3. CASE Acceptable(rec[c].roots, rec[c].seen)
  <2> DEFINE all == Covered(rec[c].roots)
             seen == rec[c].seen
  <2> SUFFICES ASSUME Live' PROVE LookInv'
    BY DEF LookInv
  <2>1. errors' = {} => errors = {}
    BY CommitStep, LoopGoesOn DEF BaseInv, Types
  <2>2. Live
    BY <1>1, <2>1 DEF Live, Current
  <2>3. /\ \A q \in Paths : NothingStale(q) /\ NothingMissing(q)
        /\ ScanIsFresh /\ WalkIsFresh(c)
    BY <2>2 DEF LookInv
  <2>4. /\ rec'[c] = Idle /\ Idle.pc = "idle" /\ rec[c].todo = {} /\ all \subseteq Paths
        /\ \A d \in Callers \ {c} : rec'[d] = rec[d] /\ rec[d].pc \notin Holding
    BY <1>1, LaneFacts DEF BaseInv, Types, TypesLane, LaneIsHeld, SightsFitTheWalk, Idle
  <2>5. /\ \A q \in all : Later(c, q) \/ {s \in seen : s.path = q} = Sight(q)
        /\ \A s \in seen, q \in Paths : disk[q].id = s.id /\ q # s.path => Later(c, q)
    BY <1>1, <2>3, <2>4 DEF WalkIsFresh, Holding
  <2>6. \A q : Sight(q)' = Sight(q)
    BY <1>1 DEF Sight
  <2>7. \A q : Told(q)' <=> Told(q)
    BY <1>1, NoticedFrame
  <2>8. \A q : Later(c, q) => Noticed(q)'
    BY <2>4, <2>7 DEF Later, Noticed, Covered, Callers
  <2>9. \A q : Noticed(q) /\ q \notin all => Noticed(q)'
    BY <2>4, <2>7 DEF Noticed, Covered, Callers
  <2>10. /\ \A q \in all : NodesAt(q)' = {s \in seen : s.path = q}
         /\ \A q : q \notin all => NodesAt(q)' \subseteq NodesAt(q)
         /\ \A q : q \notin all => \A n \in NodesAt(q) : (\A s \in seen : s.id # n.id) => n \in NodesAt(q)'
    BY <1>3, CommittedNodes
  <2>11. \A s \in seen : s.path \in all
    BY DEF BaseInv, SightsFitTheWalk
  <2> HIDE DEF all, seen
  <2>12. \A q \in Paths : NothingStale(q)'
    BY <2>3, <2>5, <2>6, <2>8, <2>9, <2>10 DEF NothingStale
  <2>13. ASSUME NEW q \in Paths
         PROVE  NothingMissing(q)'
    <3>1. CASE q \in all
      BY <2>5, <2>6, <2>8, <2>10, <3>1 DEF NothingMissing
    <3>2. CASE q \notin all
      <4>1. ASSUME NEW n \in Sight(q), NEW s \in seen, s.id = n.id
            PROVE  Noticed(q)'
        <5>1. disk[q].id = s.id
          BY <4>1 DEF Sight
        <5> QED  BY <2>5, <2>8, <2>11, <3>2, <5>1
      <4>2. NothingMissing(q)
        BY <2>3
      <4> QED  BY <1>1, <2>6, <2>9, <2>10, <3>2, <4>1, <4>2 DEF NothingMissing
    <3> QED  BY <3>1, <3>2
  <2>14. ScanIsFresh'
    <3>1. CASE c = "watcher"
      <4>1. scan.seen = {}
        BY <1>1, <3>1 DEF BaseInv, TasksTakeTurns, SightsFitTheScan
      <4> QED  BY <1>1, <4>1 DEF ScanIsFresh
    <3>2. CASE c = "saver"
      <4>1. \A q : Noticed(q) => Noticed(q)'
        BY <1>1, <2>4, <3>2, NoticedFrame DEF Callers
      <4> QED  BY <1>1, <2>3, <2>6, <4>1, ScanPaths DEF ScanIsFresh
    <3> QED  BY <3>1, <3>2 DEF Callers
  <2>15. \A d \in Callers : WalkIsFresh(d)'
    BY <2>4 DEF WalkIsFresh, Holding
  <2> QED  BY <2>12, <2>13, <2>14, <2>15 DEF LookInv
<1> QED  BY <1>2, <1>3

LEMMA ReconcileLook == ASSUME BaseInv, LookInv, NEW c \in Callers, Reconcile(c) PROVE LookInv'
BY TakeLaneLook, WalkLook, PlanMovesLook, MoveMarksLook, CommitLook DEF Reconcile

LEMMA SameLook == ASSUME BaseInv, LookInv, UNCHANGED vars PROVE LookInv'
<1>1. UNCHANGED <<disk, heard, pending, queue, rec, index, scan, close, errors>>
  BY DEF vars
<1> QED  BY <1>1, SameNodes, QuietLook DEF Live, Current

LEMMA InitLook == Init => LookInv
<1> SUFFICES ASSUME Init PROVE LookInv
  OBVIOUS
<1>1. \A p \in Paths : NothingStale(p) /\ NothingMissing(p)
  BY DEF Init, NothingStale, NothingMissing, NodesAt, RowsAt
<1>2. ScanIsFresh
  BY DEF Init, ScanIsFresh
<1>3. \A c \in Callers : WalkIsFresh(c)
  BY DEF Init, WalkIsFresh, Idle, Holding
<1> QED  BY <1>1, <1>2, <1>3 DEF LookInv

LEMMA NextLook == BaseInv /\ LookInv /\ [Next]_vars => LookInv'
<1> SUFFICES ASSUME BaseInv, LookInv, [Next]_vars PROVE LookInv'
  OBVIOUS
<1>1. CASE OtherProgram \/ \E p, q \in Paths : SaveText(p, q)
  BY <1>1, ChangeLook
<1>2. CASE WatcherTask
  BY <1>2, PlanLook, StartLook, ReconcileLook, DeriveLook, LoopLook DEF WatcherTask, Callers, Workers
<1>3. CASE ScanTask
  BY <1>3, ScanWalkLook, ScanPublishLook, EndLook, HydrateLook, DeriveLook DEF ScanTask, Scan, Workers
<1>4. CASE CloseTask \/ CloseProject \/ CancelScan
  BY <1>4, EndLook
<1>5. CASE Reconcile("saver")
  BY <1>5, ReconcileLook DEF Callers
<1>6. CASE UNCHANGED vars
  BY <1>6, SameLook
<1> QED  BY <1>1, <1>2, <1>3, <1>4, <1>5, <1>6 DEF Next

\* While the session is open and nothing has failed, every path whose row differs
\* from its file is told to the watcher, or left to the scan; and what a walk has
\* seen so far is still so, or told again.
THEOREM LookInvariance == Spec => []LookInv
<1>1. Init => LookInv
  BY InitLook
<1>2. BaseInv /\ LookInv /\ [Next]_vars => LookInv'
  BY NextLook
<1>3. Spec => []BaseInv
  BY IndexInvariance
<1> QED  BY <1>1, <1>2, <1>3, PTL DEF Spec

\* NoChangeIsForgotten, for every tree of folders, every queue and any number of
\* changes: a path where the index differs from the folder is still awaited.
THEOREM NoChangeIsEverForgotten == Spec => []NoChangeIsForgotten
<1>1. BaseInv /\ LookInv => NoChangeIsForgotten
  <2> SUFFICES ASSUME BaseInv, LookInv, Live, NEW p \in Paths
               PROVE  IndexAgrees(p) \/ Awaited(p)
    BY DEF NoChangeIsForgotten, Live
  <2>1. NothingStale(p) /\ NothingMissing(p)
    BY DEF LookInv
  <2>2. Noticed(p) => Awaited(p)
    BY RequestCovers DEF BaseInv, Types, Noticed, Told, Awaited, Callers
  <2>3. (p \in scan.todo \/ \E s \in scan.seen : s.path = p) => Awaited(p)
    BY DEF Awaited
  <2> QED  BY <2>1, <2>2, <2>3 DEF NothingStale, NothingMissing, IndexAgrees, NodesAt
<1>2. Spec => []BaseInv
  BY IndexInvariance
<1>3. Spec => []LookInv
  BY LookInvariance
<1> QED  BY <1>1, <1>2, <1>3, PTL

-----------------------------------------------------------------------------
(* A mark that is shown is stored.                                         *)

\* The rows have the files, paths and marks they had.
SameMarks ==
    /\ \A x \in index' : \E r \in index : x.id = r.id /\ x.path = r.path /\ x.mark = r.mark
    /\ \A r \in index : \E x \in index' : x.id = r.id /\ x.path = r.path /\ x.mark = r.mark

LEMMA SameMoves ==
    ASSUME SameMarks, NEW seen
    PROVE  IdentityMoves(seen)' = IdentityMoves(seen)
<1>2. \A m \in Paths \X Paths : m \in IdentityMoves(seen)' <=> m \in IdentityMoves(seen)
  <2> TAKE m \in Paths \X Paths
  <2>1. ASSUME m \in IdentityMoves(seen)'
        PROVE  m \in IdentityMoves(seen)
    <3>1. PICK x \in index', s \in seen : x.id = s.id /\ x.path # s.path /\ m = <<x.path, s.path>>
      BY <2>1 DEF IdentityMoves
    <3>2. PICK r \in index : x.id = r.id /\ x.path = r.path
      BY DEF SameMarks
    <3> QED  BY <3>1, <3>2 DEF IdentityMoves
  <2>2. ASSUME m \in IdentityMoves(seen)
        PROVE  m \in IdentityMoves(seen)'
    <3>1. PICK r \in index, s \in seen : r.id = s.id /\ r.path # s.path /\ m = <<r.path, s.path>>
      BY <2>2 DEF IdentityMoves
    <3>2. PICK x \in index' : x.id = r.id /\ x.path = r.path
      BY DEF SameMarks
    <3> QED  BY <3>1, <3>2 DEF IdentityMoves
  <2> QED  BY <2>1, <2>2
<1>3. IdentityMoves(seen) \subseteq Paths \X Paths /\ IdentityMoves(seen)' \subseteq Paths \X Paths
  BY DEF IdentityMoves
<1> QED  BY <1>2, <1>3

\* A step that moves no mark.
LEMMA MarkFrame ==
    ASSUME MarkInv, SameMarks, UNCHANGED store, Current' => Current,
           scan'.pc = "walk" => scan.pc = "walk",
           \A c \in Callers :
              /\ rec'[c].pc \in {"marks", "commit"} =>
                    /\ rec'[c].pc = rec[c].pc /\ rec'[c].seen = rec[c].seen
                    /\ rec'[c].roots = rec[c].roots /\ rec'[c].moves = rec[c].moves
              /\ Current' /\ rec[c].pc = "commit" => rec'[c].pc = "commit"
    PROVE  MarkInv'
<1>1. (scan.pc = "walk" => \A r \in index : ~r.mark)' /\ ((\E r \in index : r.mark)' => \E r \in index : r.mark)
  BY DEF MarkInv, SameMarks
<1>2. ASSUME NEW c \in Callers, rec'[c].pc = "marks", \E r \in index' : r.mark
      PROVE  rec'[c].moves = IdentityMoves(rec[c].seen)'
  <2>1. rec[c].moves = IdentityMoves(rec[c].seen) /\ rec'[c].moves = rec[c].moves
        /\ rec'[c].seen = rec[c].seen
    BY <1>1, <1>2 DEF MarkInv
  <2> DEFINE seen == rec[c].seen
  <2>2. \A new : new = seen => \A m : m \in IdentityMoves(new)' <=> m \in IdentityMoves(seen)
    BY SameMoves
  <2> QED  BY <2>1, <2>2
<1>3. ASSUME NEW c \in Callers, rec'[c].pc = "commit", Current'
      PROVE  MarksHaveMoved(c)'
  BY <1>3 DEF MarkInv, MarksHaveMoved, SameMarks, Covered
<1>4. ShownMarkIsStored'
  BY DEF MarkInv, ShownMarkIsStored, SameMarks
<1> QED  BY <1>1, <1>2, <1>3, <1>4 DEF MarkInv

LEMMA SameRowsSameMarks == index' = index => SameMarks
BY DEF SameMarks

LEMMA NoMarks == (\A r \in index' : ~r.mark) => MarkInv'
BY DEF MarkInv, MarksHaveMoved, ShownMarkIsStored

\* Steps that neither are a reconcile's nor change more of a row than its text.
LEMMA QuietMarks ==
    ASSUME BaseInv, MarkInv,
           \/ OtherProgram \/ Deliver \/ Flush \/ RebuildEnds \/ LoopEnds
           \/ ScanWalk \/ ScanGivesUp \/ ScanReady \/ CancelScan
           \/ CloseProject \/ StopWatcher \/ FinishClose \/ UNCHANGED vars
           \/ \E w \in Workers : Derive(w)
    PROVE  MarkInv'
<1>1. UNCHANGED <<store, rec>> /\ (Current' => Current) /\ (scan'.pc = "walk" => scan.pc = "walk")
  <2>1. scan \in Scanning
    BY DEF BaseInv, Types, TypesIndex
  <2>2. CASE OtherProgram
    BY <2>2 DEF OtherProgram, WriteFile, PutFile, RemoveFile, MoveFile, Change, Current
  <2>3. CASE Deliver \/ Flush \/ RebuildEnds \/ LoopEnds
    BY <2>3 DEF Deliver, Push, Flush, RebuildEnds, LoopEnds, Current
  <2>4. CASE ScanWalk \/ ScanGivesUp \/ ScanReady \/ CancelScan
    BY <2>1, <2>4 DEF ScanWalk, ScanGivesUp, ScanReady, CancelScan, Scanning, Current
  <2>5. CASE CloseProject \/ StopWatcher \/ FinishClose
    BY <2>1, <2>5 DEF CloseProject, StopWatcher, FinishClose, Scanning, Current
  <2>6. CASE UNCHANGED vars
    BY <2>6 DEF vars, Current
  <2>7. CASE \E w \in Workers : Derive(w)
    BY <2>7 DEF Derive, Consider, Validate, Extract, WriteText, Current
  <2> QED  BY <2>2, <2>3, <2>4, <2>5, <2>6, <2>7
<1>2. SameMarks
  <2>1. CASE \E w \in Workers : WriteText(w)
    BY <2>1, WrittenRows DEF SameMarks
  <2>2. CASE ~\E w \in Workers : WriteText(w)
    <3>1. index' = index
      BY <2>2 DEF OtherProgram, WriteFile, PutFile, RemoveFile, MoveFile, Change, Deliver, Push, Flush,
         RebuildEnds, LoopEnds, ScanWalk, ScanGivesUp, ScanReady, CancelScan, CloseProject,
         StopWatcher, FinishClose, vars, Derive, Consider, Validate, Extract
    <3> QED  BY <3>1, SameRowsSameMarks
  <2> QED  BY <2>1, <2>2
<1> QED  BY <1>1, <1>2, MarkFrame

\* A reconcile that begins.
LEMMA BegunMarks ==
    ASSUME BaseInv, MarkInv, StartRequest \/ \E p, q \in Paths : SaveText(p, q)
    PROVE  MarkInv'
<1>1. UNCHANGED <<store, index, scan, close>>
  BY DEF StartRequest, SaveText
<1>2. PICK c \in Callers :
         /\ rec[c].pc = "idle"
         /\ \/ rec' = rec
            \/ \E roots : rec' = [rec EXCEPT ![c] = [Idle EXCEPT !.pc = "lane", !.roots = roots]]
  <2>1. CASE StartRequest
    BY <2>1 DEF StartRequest, BaseInv, TasksTakeTurns, Callers
  <2>2. CASE \E p, q \in Paths : SaveText(p, q)
    <3>1. Idle.pc = "idle"
      BY DEF Idle
    <3> QED  BY <2>2, <3>1 DEF SaveText, Callers
  <2> QED  BY <2>1, <2>2
<1>3. \A d \in Callers : rec'[d] = rec[d] \/ (d = c /\ rec'[d].pc = "lane")
  <2>1. CASE rec' = rec
    BY <2>1
  <2>2. ASSUME NEW roots, rec' = [rec EXCEPT ![c] = [Idle EXCEPT !.pc = "lane", !.roots = roots]]
        PROVE  \A d \in Callers : rec'[d] = rec[d] \/ (d = c /\ rec'[d].pc = "lane")
    <3>1. [Idle EXCEPT !.pc = "lane", !.roots = roots].pc = "lane"
      BY DEF Idle
    <3> QED  BY <2>2, <3>1 DEF BaseInv, Types, TypesLane
  <2> QED  BY <1>2, <2>1, <2>2
<1> QED  BY <1>1, <1>2, <1>3, SameRowsSameMarks, MarkFrame DEF Current

LEMMA TakeLaneMarks == ASSUME BaseInv, MarkInv, NEW c \in Callers, TakeLane(c) PROVE MarkInv'
<1>1. UNCHANGED <<store, index, scan, close>> /\ rec[c].pc = "lane"
  BY DEF TakeLane
<1>2. \A d \in Callers : rec'[d] = rec[d] \/ (d = c /\ rec'[d].pc \in {"walk", "idle"})
  <2>1. rec \in [Callers -> Running] /\ Idle.pc = "idle"
    BY DEF BaseInv, Types, TypesLane, Idle
  <2> QED  BY <2>1 DEF TakeLane, Ended, Running
<1> QED  BY <1>1, <1>2, SameRowsSameMarks, MarkFrame DEF Current

LEMMA WalkMarks == ASSUME BaseInv, MarkInv, NEW c \in Callers, Walk(c) PROVE MarkInv'
<1>1. /\ UNCHANGED <<store, index, scan, close>> /\ rec[c].pc = "walk"
      /\ \A d \in Callers : rec'[d] = rec[d] \/ (d = c /\ rec'[d].pc = "walk")
  BY WalkStep
<1> QED  BY <1>1, SameRowsSameMarks, MarkFrame DEF Current

LEMMA PlanMovesMarks == ASSUME BaseInv, MarkInv, NEW c \in Callers, PlanMoves(c) PROVE MarkInv'
<1>1. UNCHANGED <<store, index, scan, close>> /\ rec[c].pc = "walk"
  BY DEF PlanMoves
<1>2. rec \in [Callers -> Running] /\ Idle.pc = "idle"
  BY DEF BaseInv, Types, TypesLane, Idle
<1>3. CASE Current /\ Acceptable(rec[c].roots, rec[c].seen)
  <2> DEFINE moves == IdentityMoves(rec[c].seen)
  <2>1. rec' = [rec EXCEPT ![c].pc = "marks", ![c].moves = moves]
    BY <1>3 DEF PlanMoves
  <2> HIDE DEF moves
  <2>2. /\ rec'[c].pc = "marks" /\ rec'[c].moves = moves /\ rec'[c].seen = rec[c].seen
        /\ \A d \in Callers \ {c} : rec'[d] = rec[d]
    BY <1>2, <2>1 DEF Running
  <2>3. IdentityMoves(rec[c].seen)' = moves
    BY <1>1, <2>2 DEF moves, IdentityMoves
  <2>4. ShownMarkIsStored'
    BY <1>1, <2>2 DEF MarkInv, ShownMarkIsStored, Current
  <2>5. (scan.pc = "walk" => \A r \in index : ~r.mark)'
    BY <1>1 DEF MarkInv
  <2>6. ASSUME NEW d \in Callers
        PROVE  /\ rec'[d].pc = "marks" /\ (\E r \in index' : r.mark)
                     => rec'[d].moves = IdentityMoves(rec[d].seen)'
               /\ rec'[d].pc = "commit" /\ Current' => MarksHaveMoved(d)'
    <3>1. CASE d = c
      BY <2>2, <2>3, <3>1
    <3>2. CASE d # c
      <4>1. rec'[d] = rec[d] /\ rec[d].pc \notin Holding
        BY <1>1, <2>2, <3>2 DEF BaseInv, LaneIsHeld, Holding
      <4> QED  BY <4>1 DEF Holding
    <3> QED  BY <3>1, <3>2
  <2> QED  BY <2>4, <2>5, <2>6 DEF MarkInv
<1>4. CASE ~(Current /\ Acceptable(rec[c].roots, rec[c].seen))
  <2>1. rec' = [rec EXCEPT ![c] = Idle]
    BY <1>4 DEF PlanMoves, Give, Ended
  <2>2. \A d \in Callers : rec'[d] = rec[d] \/ (d = c /\ rec'[d].pc = "idle")
    BY <1>2, <2>1
  <2> QED  BY <1>1, <2>2, SameRowsSameMarks, MarkFrame DEF Current
<1> QED  BY <1>3, <1>4

\* The store after the marks of a walk have moved.
LEMMA MarksArrive ==
    ASSUME BaseInv, MarkInv, NEW c \in Callers, rec[c].pc = "marks", Current,
           store' = MovedMarks(rec[c].moves), NEW r \in index, r.mark
    PROVE  /\ \A s \in rec[c].seen : s.id = r.id => s.path \in store'
           /\ (\A s \in rec[c].seen : s.id # r.id) => r.path \in store'
<1> DEFINE moves == rec[c].moves
           seen == rec[c].seen
<1>1. \A d \in Callers : rec[d].pc # "commit"
  BY DEF BaseInv, LaneIsHeld, Holding
<1>2. r.path \in store
  BY <1>1 DEF MarkInv, ShownMarkIsStored
<1>3. moves = IdentityMoves(seen)
  BY DEF MarkInv
<1>4. \A s, t \in seen : s.id = t.id => s = t
  BY DEF BaseInv, SightsFitTheWalk
<1>5. \A q \in index : q.path = r.path => q = r
  BY DEF BaseInv, RowsAreDistinct
<1>6. \A s \in seen : s.path \in Paths
  BY ScanPaths
<1>7. r.path \in Paths
  BY DEF BaseInv, Types, TypesIndex, Rows
<1>8. (\A m \in moves : m[1] # r.path) => r.path \in store'
  BY <1>2 DEF MovedMarks
<1>9. \A m \in moves : m[1] = r.path => \E s \in seen : s.id = r.id /\ s.path # r.path
  BY <1>3, <1>5 DEF IdentityMoves
<1>10. ASSUME NEW s \in seen, s.id = r.id
       PROVE  s.path \in store'
  <2>1. CASE s.path = r.path
    BY <1>4, <1>8, <1>9, <1>10, <2>1
  <2>2. CASE s.path # r.path
    <3>1. <<r.path, s.path>> \in moves
      BY <1>3, <1>6, <1>7, <1>10, <2>2 DEF IdentityMoves
    <3>2. <<r.path, s.path>>[1] \in store /\ <<r.path, s.path>>[2] = s.path
      BY <1>2
    <3> QED  BY <3>1, <3>2 DEF MovedMarks
  <2> QED  BY <2>1, <2>2
<1>11. (\A s \in seen : s.id # r.id) => r.path \in store'
  BY <1>8, <1>9
<1> QED  BY <1>10, <1>11

LEMMA MoveMarksMarks == ASSUME BaseInv, MarkInv, NEW c \in Callers, MoveMarks(c) PROVE MarkInv'
<1>1. UNCHANGED <<index, scan, close>> /\ rec[c].pc = "marks"
  BY DEF MoveMarks
<1>2. rec \in [Callers -> Running] /\ Idle.pc = "idle"
  BY DEF BaseInv, Types, TypesLane, Idle
<1>3. \A d \in Callers \ {c} : rec[d].pc \notin Holding
  BY <1>1 DEF BaseInv, LaneIsHeld, Holding
<1>4. CASE MarksCollide(rec[c].moves)
  <2>1. rec' = [rec EXCEPT ![c] = Idle] /\ store' = store
    BY <1>4 DEF MoveMarks, Give, Ended
  <2>2. \A d \in Callers : rec'[d] = rec[d] \/ (d = c /\ rec'[d].pc = "idle")
    BY <1>2, <2>1
  <2> QED  BY <1>1, <2>1, <2>2, SameRowsSameMarks, MarkFrame DEF Current
<1>5. CASE ~MarksCollide(rec[c].moves) /\ ~Current
  <2>1. rec' = [rec EXCEPT ![c] = Idle]
    BY <1>5 DEF MoveMarks, Give, Ended
  <2>2. \A d \in Callers : rec'[d].pc \notin {"marks", "commit"}
    BY <1>2, <1>3, <2>1 DEF Holding
  <2> QED  BY <1>1, <1>5, <2>2 DEF MarkInv, ShownMarkIsStored, Current
<1>6. CASE ~MarksCollide(rec[c].moves) /\ Current
  <2>1. rec' = [rec EXCEPT ![c].pc = "commit"] /\ store' = MovedMarks(rec[c].moves)
    BY <1>6 DEF MoveMarks
  <2>2. /\ rec'[c].pc = "commit" /\ rec'[c].seen = rec[c].seen /\ rec'[c].roots = rec[c].roots
        /\ \A d \in Callers \ {c} : rec'[d].pc \notin {"marks", "commit"}
    BY <1>2, <1>3, <2>1 DEF Running, Holding
  <2>3. MarksHaveMoved(c)'
    BY <1>1, <1>6, <2>1, <2>2, MarksArrive DEF MarksHaveMoved
  <2> QED  BY <1>1, <2>2, <2>3 DEF MarkInv, ShownMarkIsStored
<1> QED  BY <1>4, <1>5, <1>6

\* Nothing that happens after the moves are planned makes the index refuse them.
LEMMA StillAcceptable ==
    ASSUME BaseInv, NEW c \in Callers, rec[c].pc \in {"marks", "commit"}
    PROVE  Acceptable(rec[c].roots, rec[c].seen)
<1> DEFINE all == Covered(rec[c].roots)
           seen == rec[c].seen
           kept == {r \in index : r.path \notin all /\ \A s \in seen : s.id # r.id}
           met == {Merged(s) : s \in seen}
<1>1. Reconciled(rec[c].roots, rec[c].seen) = kept \cup met
  BY DEF Reconciled
<1>2. /\ \A s, t \in seen : s.id = t.id => s = t
      /\ \A s, t \in seen : s.path = t.path => s = t
      /\ \A s \in seen : s.path \in all /\ s \in Nodes
  BY LaneFacts DEF BaseInv, SightsFitTheWalk, Running
<1>3. \A s \in seen : Merged(s).path = s.path
  BY <1>2, MergedRow DEF BaseInv, Types, TypesIndex
<1>4. /\ \A r, q \in kept : r.path = q.path => r = q
      /\ \A r \in kept, q \in met : r.path # q.path
      /\ \A r, q \in met : r.path = q.path => r = q
  <2>1. \A r, q \in kept : r.path = q.path => r = q
    BY DEF BaseInv, RowsAreDistinct
  <2> HIDE DEF all, seen
  <2> QED  BY <1>2, <1>3, <2>1
<1> HIDE DEF kept, met
<1> QED  BY <1>1, <1>2, <1>4 DEF Acceptable

LEMMA CommitMarks == ASSUME BaseInv, MarkInv, NEW c \in Callers, Commit(c) PROVE MarkInv'
<1> DEFINE seen == rec[c].seen
<1>1. /\ rec[c].pc = "commit" /\ lane = c /\ rec' = [rec EXCEPT ![c] = Idle]
      /\ UNCHANGED <<store, scan, close>>
      /\ index' = Reconciled(rec[c].roots, rec[c].seen)
  BY CommitStep, StillAcceptable
<1>2. rec \in [Callers -> Running] /\ Idle.pc = "idle"
  BY DEF BaseInv, Types, TypesLane, Idle
<1>3. \A d \in Callers : rec'[d].pc \notin {"marks", "commit"}
  BY <1>1, <1>2 DEF BaseInv, LaneIsHeld, Holding
<1>4. seen \subseteq Nodes
  BY ScanPaths
<1>5. ASSUME NEW x \in index', x.mark
      PROVE  \/ x \in index /\ x.path \notin Covered(rec[c].roots) /\ \A s \in seen : s.id # x.id
             \/ \E s \in seen, r \in index : x.path = s.path /\ r.id = s.id /\ r.mark
  <2>1. CASE x \in index /\ x.path \notin Covered(rec[c].roots) /\ \A s \in seen : s.id # x.id
    BY <2>1
  <2>2. CASE \E s \in seen : x = Merged(s)
    <3>1. PICK s \in seen : x = Merged(s)
      BY <2>2
    <3>2. ~NewRow(s).mark
      BY DEF NewRow
    <3>3. PICK r \in RowsOf(s.id) : \/ x = [NewRow(s) EXCEPT !.mark = r.mark]
                                    \/ x = [r EXCEPT !.path = s.path]
      BY <1>4, <1>5, <3>1, <3>2, MergedRow DEF BaseInv, Types, TypesIndex
    <3>4. r \in index /\ r \in Rows /\ r.id = s.id
      BY DEF RowsOf, BaseInv, Types, TypesIndex
    <3>5. r.mark
      <4>1. CASE x = [NewRow(s) EXCEPT !.mark = r.mark]
        BY <1>5, <4>1 DEF NewRow
      <4>2. CASE x = [r EXCEPT !.path = s.path]
        BY <1>5, <3>4, <4>2 DEF Rows
      <4> QED  BY <3>3, <4>1, <4>2
    <3>6. x.path = s.path
      BY <1>4, <3>1, MergedRow DEF BaseInv, Types, TypesIndex
    <3> QED  BY <3>4, <3>5, <3>6
  <2> QED  BY <1>1, <2>1, <2>2 DEF Reconciled
<1>6. (scan.pc = "walk" => \A r \in index : ~r.mark)'
  BY <1>1, <1>5 DEF MarkInv
<1>7. ShownMarkIsStored'
  <2> SUFFICES ASSUME Current, NEW x \in index', x.mark PROVE x.path \in store'
    BY <1>1 DEF ShownMarkIsStored, Current
  <2>1. MarksHaveMoved(c)
    BY <1>1 DEF MarkInv
  <2> QED  BY <1>1, <1>5, <2>1 DEF MarksHaveMoved
<1> QED  BY <1>3, <1>6, <1>7 DEF MarkInv

LEMMA ScanMarks == ASSUME BaseInv, MarkInv, Hydrate \/ \E s \in scan.seen : ScanPublish(s) PROVE MarkInv'
<1>1. CASE Hydrate
  <2> DEFINE X(r) == [r EXCEPT !.mark = r.mark \/ r.path \in store]
  <2>1. /\ scan'.pc = "derive" /\ lane = "free" /\ UNCHANGED <<store, rec, close>>
        /\ index' = {X(r) : r \in index}
        /\ \A r \in index : X(r).path = r.path /\ (X(r).mark <=> (r.mark \/ r.path \in store))
    BY <1>1, HydrateStep
  <2> HIDE DEF X
  <2>2. \A c \in Callers : rec'[c].pc \notin {"marks", "commit"}
    BY <2>1 DEF BaseInv, LaneIsHeld, Holding, Callers
  <2>3. ShownMarkIsStored'
    BY <2>1, <2>2 DEF MarkInv, ShownMarkIsStored, Current
  <2> QED  BY <2>1, <2>2, <2>3 DEF MarkInv
<1>2. ASSUME NEW s \in scan.seen, ScanPublish(s)
      PROVE  MarkInv'
  <2>1. \A r \in index : ~r.mark
    BY <1>2, ScanPublishStep DEF MarkInv
  <2>2. ASSUME NEW new \in Rows, Published(s, new)
        PROVE  ~new.mark
    <3>1. CASE new = NewRow(s)
      BY <3>1 DEF NewRow
    <3>2. ASSUME NEW r \in RowsOf(s.id), new = [r EXCEPT !.path = s.path, !.stamp = s.stamp]
          PROVE  ~new.mark
      <4>1. r \in Rows /\ ~r.mark
        BY <2>1 DEF RowsOf, BaseInv, Types, TypesIndex
      <4> QED  BY <3>2, <4>1 DEF Rows
    <3> QED  BY <2>2, <3>1, <3>2 DEF Published
  <2>3. \A r \in index' : ~r.mark
    <3>1. index' = index \/ \E new \in Rows : Published(s, new)
      BY <1>2, ScanPublishStep
    <3> QED  BY <2>1, <2>2, <3>1 DEF Published
  <2> QED  BY <2>3, NoMarks
<1> QED  BY <1>1, <1>2

LEMMA NextMarks == BaseInv /\ MarkInv /\ [Next]_vars => MarkInv'
<1> SUFFICES ASSUME BaseInv, MarkInv, [Next]_vars PROVE MarkInv'
  OBVIOUS
<1>1. ASSUME NEW c \in Callers, Reconcile(c)
      PROVE  MarkInv'
  BY <1>1, TakeLaneMarks, WalkMarks, PlanMovesMarks, MoveMarksMarks, CommitMarks DEF Reconcile
<1>2. CASE OtherProgram \/ Deliver \/ Flush \/ RebuildEnds \/ LoopEnds \/ CancelScan
           \/ CloseProject \/ CloseTask \/ UNCHANGED vars
  BY <1>2, QuietMarks DEF CloseTask
<1>3. ASSUME NEW w \in Workers, Derive(w)
      PROVE  MarkInv'
  BY <1>3, QuietMarks
<1>4. CASE Scan
  BY <1>4, QuietMarks, ScanMarks DEF Scan
<1>5. CASE StartRequest \/ \E p, q \in Paths : SaveText(p, q)
  BY <1>5, BegunMarks
<1> QED  BY <1>1, <1>2, <1>3, <1>4, <1>5 DEF Next, WatcherTask, ScanTask, Callers, Workers

\* ShownMarkIsStored, for every folder: a mark follows its file in the store and in
\* the index, whatever the scan, a save and the watcher do in between.
THEOREM ShownMarkIsAlwaysStored == Spec => []ShownMarkIsStored
<1>1. Init => MarkInv
  BY DEF Init, MarkInv, ShownMarkIsStored, Idle
<1>2. BaseInv /\ MarkInv /\ [Next]_vars => MarkInv'
  BY NextMarks
<1>3. MarkInv => ShownMarkIsStored
  BY DEF MarkInv
<1>4. Spec => []BaseInv
  BY IndexInvariance
<1> QED  BY <1>1, <1>2, <1>3, <1>4, PTL DEF Spec

-----------------------------------------------------------------------------
(* A text is that of the file, once all is quiet.                          *)

\* Files only ever get other contents.
Ages == \A n \in Nodes \cup Rows : Known(n) => Known(n)' /\ (Outdated(n) => Outdated(n)')

LEMMA SameAges ==
    ASSUME UNCHANGED <<disk, spent>>
    PROVE  Ages /\ \A n : (Known(n)' <=> Known(n)) /\ (Outdated(n)' <=> Outdated(n))
BY DEF Ages, Known, Outdated

LEMMA WorkFrame ==
    ASSUME BaseInv, NEW w \in Workers, WorkInv(w), Ages,
           derive'[w].node = derive[w].node, derive'[w].read = derive[w].read,
           derive'[w].body = derive[w].body,
           \A n \in derive'[w].todo : n \in derive[w].todo \/ Known(n)'
    PROVE  WorkInv(w)'
<1>1. derive[w].node \subseteq Nodes /\ derive[w].todo \subseteq Nodes
  BY DEF BaseInv, Types, TypesIndex, Deriving
<1> QED  BY <1>1 DEF WorkInv, Ages

\* A step that neither derives nor changes a row.
LEMMA TextFrame ==
    ASSUME BaseInv, TextInv, Ages, index' = index, derive' = derive,
           scan'.pc = "walk" => scan.pc = "walk",
           spent'.saves = 0 => spent.saves = 0 /\ rec'["saver"].pc = "idle"
    PROVE  TextInv'
<1>1. \A w \in Workers : WorkInv(w)'
  BY WorkFrame DEF TextInv
<1>2. index \subseteq Rows /\ \A r \in index : Known(r)
  BY DEF BaseInv, Types, TypesIndex, RowsAreDistinct
<1>3. spent'.saves = 0 => RowsFitWork' /\ TextsFit'
  BY <1>2 DEF TextInv, RowsFitWork, TextsFit, Ages
<1> QED  BY <1>1, <1>3 DEF TextInv

LEMMA ChangeTexts ==
    ASSUME BaseInv, TextInv, OtherProgram \/ \E p, q \in Paths : SaveText(p, q)
    PROVE  TextInv'
<1>1. ASSUME NEW touched, EditStep(touched)
      PROVE  Ages /\ UNCHANGED <<index, derive, scan>>
  BY <1>1, EditedFiles DEF BaseInv, Types, Ages, EditStep
<1>2. CASE OtherProgram
  <2>1. (\E touched : EditStep(touched)) /\ rec' = rec /\ spent'.saves = spent.saves
    BY <1>2, OtherEdits DEF BaseInv, Types
  <2> QED  BY <1>1, <2>1, TextFrame DEF TextInv
<1>3. ASSUME NEW p \in Paths, NEW q \in Paths, SaveText(p, q)
      PROVE  TextInv'
  <2>1. (\E touched : EditStep(touched)) /\ spent'.saves > 0
    BY <1>3, SaveEdits DEF BaseInv
  <2> QED  BY <1>1, <2>1, TextFrame
<1> QED  BY <1>2, <1>3

LEMMA QuietTexts ==
    ASSUME BaseInv, TextInv,
           \/ Deliver \/ Flush \/ StartRequest \/ RebuildEnds \/ LoopEnds
           \/ ScanWalk \/ ScanGivesUp \/ ScanReady
           \/ CloseProject \/ StopWatcher \/ UNCHANGED vars
    PROVE  TextInv'
<1>1. UNCHANGED <<disk, spent, index, derive>> /\ (scan'.pc = "walk" => scan.pc = "walk")
      /\ rec'["saver"] = rec["saver"]
  <2>1. scan \in Scanning /\ rec \in [Callers -> Running]
    BY DEF BaseInv, Types, TypesIndex, TypesLane
  <2>2. CASE Deliver \/ Flush \/ RebuildEnds \/ LoopEnds
    BY <2>2 DEF Deliver, Push, Flush, RebuildEnds, LoopEnds
  <2>3. CASE StartRequest
    BY <2>1, <2>3 DEF StartRequest, Callers
  <2>4. CASE ScanWalk \/ ScanGivesUp \/ ScanReady
    BY <2>1, <2>4 DEF ScanWalk, ScanGivesUp, ScanReady, Scanning
  <2>5. CASE CloseProject \/ StopWatcher
    BY <2>5 DEF CloseProject, StopWatcher
  <2>6. CASE UNCHANGED vars
    BY <2>6 DEF vars
  <2> QED  BY <2>2, <2>3, <2>4, <2>5, <2>6
<1> QED  BY <1>1, SameAges, TextFrame DEF TextInv

\* The work that a reconcile leaves to the loop.
LEMMA LoopWork ==
    ASSUME BaseInv, TextInv, NEW c \in Callers, UNCHANGED <<disk, spent>>,
           derive' = derive \/ \E outcome : WatcherGoesOn(c, outcome),
           index' \subseteq Rows, RowsAreDistinct'
    PROVE  /\ \A w \in Workers : WorkInv(w)' /\ derive'[w].node = derive[w].node
<1>1. CASE derive' = derive
  BY <1>1, SameAges, WorkFrame DEF TextInv
<1>2. CASE \E outcome : WatcherGoesOn(c, outcome)
  <2>1. /\ derive'["scan"] = derive["scan"]
        /\ derive'["watcher"].node = derive["watcher"].node
        /\ derive'["watcher"].read = derive["watcher"].read
        /\ derive'["watcher"].body = derive["watcher"].body
        /\ \/ derive' = derive
           \/ derive'["watcher"].todo = {Node(r) : r \in {x \in index' : x.path \in Covered(rec[c].roots)}}
    BY <1>2, LoopGoesOn DEF BaseInv, Types, Callers
  <2>2. \A r \in index' : Known(Node(r))'
    BY DEF RowsAreDistinct, Known, Node
  <2>3. \A n \in derive'["watcher"].todo : n \in derive["watcher"].todo \/ Known(n)'
    BY <2>1, <2>2
  <2>4. WorkInv("watcher")' /\ WorkInv("scan")'
    BY <2>1, <2>3, SameAges, WorkFrame DEF TextInv, Workers
  <2> QED  BY <2>1, <2>4 DEF Workers
<1> QED  BY <1>1, <1>2

LEMMA ReconcileTexts ==
    ASSUME BaseInv, TextInv, NEW c \in Callers,
           TakeLane(c) \/ Walk(c) \/ PlanMoves(c) \/ MoveMarks(c)
    PROVE  TextInv'
<1>1. /\ UNCHANGED <<disk, spent, index, scan>> /\ rec[c].pc # "idle"
      /\ derive' = derive \/ \E outcome : WatcherGoesOn(c, outcome)
  BY DEF TakeLane, Walk, PlanMoves, MoveMarks, Give
<1>2. \A d \in Callers \ {c} : rec'[d] = rec[d]
  <2>1. rec \in [Callers -> Running]
    BY DEF BaseInv, Types, TypesLane
  <2>2. CASE Walk(c)
    BY <2>2, WalkStep
  <2>3. CASE TakeLane(c)
    BY <2>1, <2>3 DEF TakeLane, Ended
  <2>4. CASE PlanMoves(c)
    BY <2>1, <2>4 DEF PlanMoves, Give, Ended
  <2>5. CASE MoveMarks(c)
    BY <2>1, <2>5 DEF MoveMarks, Give, Ended
  <2> QED  BY <2>2, <2>3, <2>4, <2>5
<1>3. \A w \in Workers : WorkInv(w)' /\ derive'[w].node = derive[w].node
  BY <1>1, LoopWork, SameRows
<1>4. spent.saves = 0 => rec'["saver"].pc = "idle"
  BY <1>1, <1>2 DEF TextInv, Callers
<1>5. spent.saves = 0 => RowsFitWork' /\ TextsFit'
  BY <1>1, <1>3, SameAges DEF TextInv, RowsFitWork, TextsFit
<1> QED  BY <1>1, <1>3, <1>4, <1>5 DEF TextInv

LEMMA CommitTexts == ASSUME BaseInv, TextInv, NEW c \in Callers, Commit(c) PROVE TextInv'
<1> DEFINE seen == rec[c].seen
<1>1. /\ rec[c].pc = "commit" /\ rec' = [rec EXCEPT ![c] = Idle]
      /\ UNCHANGED <<disk, scan, spent>>
      /\ \E outcome : WatcherGoesOn(c, outcome)
      /\ index' = Reconciled(rec[c].roots, rec[c].seen)
      /\ index' \subseteq Rows /\ RowsAreDistinct'
  BY CommitStep, StillAcceptable
<1>2. \A w \in Workers : WorkInv(w)' /\ derive'[w].node = derive[w].node
  BY <1>1, LoopWork
<1>3. seen \subseteq Nodes /\ index \subseteq Rows
  BY ScanPaths DEF BaseInv, Types, TypesIndex
<1>4. ASSUME NEW x \in index'
      PROVE  \/ x \in index \/ x.text = "pending"
             \/ \E r \in index : x.id = r.id /\ x.stamp = r.stamp /\ x.text = r.text /\ x.body = r.body
  <2>1. CASE x \in index
    BY <2>1
  <2>2. CASE \E s \in seen : x = Merged(s)
    <3>1. PICK s \in seen : x = Merged(s)
      BY <2>2
    <3>2. \/ x = NewRow(s)
          \/ \E r \in RowsOf(s.id) : \/ x = [NewRow(s) EXCEPT !.mark = r.mark]
                                     \/ x = [r EXCEPT !.path = s.path]
      BY <1>3, <3>1, MergedRow
    <3>3. CASE x = NewRow(s)
      BY <3>3 DEF NewRow
    <3>4. ASSUME NEW r \in RowsOf(s.id), x = [NewRow(s) EXCEPT !.mark = r.mark]
          PROVE  x.text = "pending"
      BY <3>4 DEF NewRow
    <3>5. ASSUME NEW r \in RowsOf(s.id), x = [r EXCEPT !.path = s.path]
          PROVE  r \in index /\ x.id = r.id /\ x.stamp = r.stamp /\ x.text = r.text /\ x.body = r.body
      <4>1. r \in Rows /\ r \in index
        BY <1>3 DEF RowsOf
      <4> QED  BY <3>5, <4>1 DEF Rows
    <3> QED  BY <3>2, <3>3, <3>4, <3>5
  <2> QED  BY <1>1, <2>1, <2>2 DEF Reconciled
<1>5. (scan.pc = "walk" => \A r \in index : r.text = "pending")'
  BY <1>1, <1>4 DEF TextInv
<1>6. ASSUME spent.saves = 0
      PROVE  rec'["saver"].pc = "idle" /\ RowsFitWork' /\ TextsFit'
  <2>1. c = "watcher" /\ rec["saver"].pc = "idle"
    BY <1>1, <1>6 DEF TextInv, Callers
  <2>2. rec'["saver"].pc = "idle"
    BY <1>1, <2>1 DEF BaseInv, Types, TypesLane, Callers
  <2>3. \A w \in Workers : derive[w].node = {}
    BY <1>1, <2>1 DEF BaseInv, TasksTakeTurns, Working, Workers
  <2>4. RowsFitWork'
    BY <1>2, <2>3 DEF RowsFitWork
  <2>5. TextsFit'
    BY <1>1, <1>4, <1>6 DEF TextInv, TextsFit, Outdated
  <2> QED  BY <2>2, <2>4, <2>5
<1> QED  BY <1>1, <1>2, <1>5, <1>6 DEF TextInv

LEMMA DeriveTexts == ASSUME BaseInv, TextInv, NEW w \in Workers, Derive(w) PROVE TextInv'
<1>1. UNCHANGED <<disk, spent, scan, rec>>
  BY DEF Derive, Consider, Validate, Extract, WriteText
<1>2. \A n : (Known(n)' <=> Known(n)) /\ (Outdated(n)' <=> Outdated(n))
  BY <1>1, SameAges
<1>3. \A v \in Workers : WorkInv(v)
  BY DEF TextInv
<1>4. derive[w] \in Deriving
  BY DEF BaseInv, Types, TypesIndex
<1>5. ASSUME \A v \in Workers \ {w} : derive'[v] = derive[v]
      PROVE  \A v \in Workers \ {w} : WorkInv(v)'
  BY <1>2, <1>3, <1>5 DEF WorkInv
<1>6. Rested.node = {} /\ Rested.read = "no" /\ Rested.todo = {}
  BY DEF Rested
<1>7. ASSUME NEW n \in derive[w].todo, Consider(w, n)
      PROVE  TextInv'
  <2>1. /\ \A v \in Workers \ {w} : derive'[v] = derive[v]
        /\ index' = index /\ derive[w].node = {} /\ derive[w].read = "no"
        /\ Known(n)
    BY <1>3, <1>7, ConsiderStep DEF BaseInv, WorkInv
  <2>2. CASE ~Current
    <3>1. derive'[w] = Rested
      BY <1>7, <2>2, ConsiderStep DEF BaseInv
    <3>2. WorkInv(w)'
      BY <1>6, <3>1 DEF WorkInv
    <3>3. spent.saves = 0 => RowsFitWork' /\ TextsFit'
      BY <1>2, <1>6, <2>1, <3>1 DEF TextInv, RowsFitWork, TextsFit
    <3> QED  BY <1>1, <1>5, <2>1, <3>2, <3>3 DEF TextInv
  <2>3. CASE Current
    <3>1. /\ derive'[w].todo = derive[w].todo \ {n}
          /\ derive'[w].node = {r \in {n} : \E x \in index : Node(x) = n /\ x.text = "pending"}
          /\ derive'[w].read = "no"
      <4>1. /\ derive'[w].todo = derive[w].todo \ {n}
            /\ derive'[w].node = {r \in {n} : \E x \in index : Node(x) = n /\ x.text = "pending"}
        BY <1>7, <2>3, ConsiderStep DEF BaseInv
      <4>2. derive'[w].read = derive[w].read
        BY <1>4, <1>7, <2>3 DEF Consider, BaseInv, Types, TypesIndex, Deriving
      <4> QED  BY <2>1, <4>1, <4>2
    <3>2. WorkInv(w)'
      BY <1>2, <1>3, <2>1, <3>1 DEF WorkInv
    <3>3. \A m \in derive'[w].node : \A r \in index : r.id = m.id /\ r.path = m.path => r.stamp = m.stamp
      BY <3>1 DEF BaseInv, RowsAreDistinct, Node
    <3>4. spent.saves = 0 => RowsFitWork' /\ TextsFit'
      BY <1>2, <2>1, <3>3 DEF TextInv, RowsFitWork, TextsFit
    <3> QED  BY <1>1, <1>5, <2>1, <3>2, <3>4 DEF TextInv
  <2> QED  BY <2>2, <2>3
<1>8. CASE Validate(w)
  <2>1. /\ \A v \in Workers \ {w} : derive'[v] = derive[v]
        /\ derive'[w].todo \subseteq derive[w].todo /\ derive'[w].node \subseteq derive[w].node
        /\ derive'[w].read # "ready" /\ (derive'[w].node = {} => derive'[w].read = "no")
        /\ index' = index
    BY <1>8, ValidateStep DEF BaseInv
  <2>2. WorkInv(w)'
    BY <1>2, <1>3, <2>1 DEF WorkInv
  <2>3. spent.saves = 0 => RowsFitWork' /\ TextsFit'
    BY <1>2, <2>1 DEF TextInv, RowsFitWork, TextsFit
  <2> QED  BY <1>1, <1>5, <2>1, <2>2, <2>3 DEF TextInv
<1>9. CASE Extract(w)
  <2>1. /\ \A v \in Workers \ {w} : derive'[v] = derive[v]
        /\ derive'[w].todo = derive[w].todo /\ derive'[w].node = derive[w].node
        /\ index' = index
    BY <1>9, ExtractStep DEF BaseInv
  <2>2. PICK n \in derive[w].node :
           n \in Nodes /\ (derive'[w].read = "ready" => derive'[w].body = disk[n.path])
    BY <1>9, ExtractStep DEF BaseInv
  <2>3. Known(n) /\ \A m \in derive[w].node : m = n
    BY <1>3 DEF WorkInv
  <2>4. ASSUME derive'[w].read = "ready", derive'[w].body.id = n.id, derive'[w].body.stamp # n.stamp
        PROVE  Outdated(n)
    <3> SUFFICES ASSUME NEW p \in Paths, disk[p].id = n.id
                 PROVE  disk[p].stamp # n.stamp
      BY DEF Outdated
    <3>1. n.path \in Paths /\ n.id # 0
      BY <2>2, <2>3 DEF Nodes, Known
    <3>2. disk[n.path].id = n.id /\ disk[n.path].stamp # n.stamp
      BY <2>2, <2>4
    <3>3. p = n.path
      BY <3>1, <3>2 DEF BaseInv, FilesAreDistinct
    <3> QED  BY <3>2, <3>3
  <2>5. WorkInv(w)'
    BY <1>2, <1>3, <2>1, <2>2, <2>3, <2>4 DEF WorkInv
  <2>6. spent.saves = 0 => RowsFitWork' /\ TextsFit'
    BY <1>2, <2>1 DEF TextInv, RowsFitWork, TextsFit
  <2> QED  BY <1>1, <1>5, <2>1, <2>5, <2>6 DEF TextInv
<1>10. CASE WriteText(w)
  <2>1. PICK n \in derive[w].node :
           /\ index' = {Texted(w, n, r) : r \in index}
           /\ \A r \in index : TextedFacts(w, n, r)
    BY <1>10, WriteTextStep DEF BaseInv
  <2>2. /\ \A v \in Workers \ {w} : derive'[v] = derive[v]
        /\ derive'[w].todo = derive[w].todo /\ derive'[w].node = {}
    BY <1>10, WriteTextStep DEF BaseInv
  <2>3. derive'[w].read = "no"
    BY <1>10, <1>4 DEF WriteText, Rested, BaseInv, Types, TypesIndex
  <2>4. WorkInv(w)'
    BY <1>2, <1>3, <2>2, <2>3 DEF WorkInv
  <2>5. scan.pc # "walk"
    BY <1>10 DEF WriteText, BaseInv, TasksTakeTurns, Working, Workers
  <2>6. ASSUME spent.saves = 0
        PROVE  RowsFitWork' /\ TextsFit'
    <3>1. RowsFitWork'
      BY <2>1, <2>2, <2>6 DEF TextInv, RowsFitWork, TextedFacts
    <3>2. ASSUME NEW r \in index, Texted(w, n, r).text = "ready",
                 Texted(w, n, r).body.id = Texted(w, n, r).id,
                 Texted(w, n, r).body.stamp # Texted(w, n, r).stamp
          PROVE  Outdated(Texted(w, n, r))
      <4>1. TextedFacts(w, n, r)
        BY <2>1
      <4>2. CASE Texted(w, n, r) = r
        BY <2>6, <3>2, <4>2 DEF TextInv, TextsFit
      <4>3. CASE /\ r.id = n.id /\ r.path = n.path
                 /\ Texted(w, n, r).text = derive[w].read /\ Texted(w, n, r).body = derive[w].body
        <5>1. r.stamp = n.stamp
          BY <2>6, <4>3 DEF TextInv, RowsFitWork
        <5>2. Texted(w, n, r).stamp = n.stamp /\ Texted(w, n, r).id = n.id
          BY <4>1, <4>3, <5>1 DEF TextedFacts
        <5>3. Outdated(n)
          BY <1>3, <3>2, <4>3, <5>2 DEF WorkInv
        <5> QED  BY <5>2, <5>3 DEF Outdated
      <4> QED  BY <4>1, <4>2, <4>3 DEF TextedFacts
    <3>3. TextsFit'
      BY <1>2, <2>1, <3>2 DEF TextsFit
    <3> QED  BY <3>1, <3>3
  <2> QED  BY <1>1, <1>5, <2>2, <2>4, <2>5, <2>6 DEF TextInv
<1> QED  BY <1>7, <1>8, <1>9, <1>10 DEF Derive

LEMMA RestTexts == ASSUME BaseInv, TextInv, CancelScan \/ FinishClose PROVE TextInv'
<1>1. /\ UNCHANGED <<disk, spent, index, rec>> /\ derive' = [derive EXCEPT !["scan"] = Rested]
      /\ scan'.pc = "walk" => scan.pc = "walk"
  <2>1. scan \in Scanning
    BY DEF BaseInv, Types, TypesIndex
  <2> QED  BY <2>1 DEF CancelScan, FinishClose, Scanning
<1>2. derive'["scan"] = Rested /\ derive'["watcher"] = derive["watcher"]
  BY <1>1 DEF BaseInv, Types, TypesIndex, Workers
<1>3. Rested.node = {} /\ Rested.read = "no" /\ Rested.todo = {}
  BY DEF Rested
<1>4. WorkInv("scan")'
  BY <1>2, <1>3 DEF WorkInv
<1>5. WorkInv("watcher")'
  BY <1>1, <1>2, SameAges, WorkFrame DEF TextInv, Workers
<1>6. spent.saves = 0 => RowsFitWork' /\ TextsFit'
  BY <1>1, <1>2, <1>3, SameAges DEF TextInv, RowsFitWork, TextsFit, Workers
<1> QED  BY <1>1, <1>4, <1>5, <1>6 DEF TextInv, Workers

LEMMA HydrateTexts == ASSUME BaseInv, TextInv, Hydrate PROVE TextInv'
<1> DEFINE X(r) == [r EXCEPT !.mark = r.mark \/ r.path \in store]
<1>1. /\ scan.pc = "walk" /\ scan'.pc = "derive" /\ UNCHANGED <<disk, rec, spent>>
      /\ derive'["watcher"] = derive["watcher"] /\ derive'["scan"].node = derive["scan"].node
      /\ derive'["scan"].todo \subseteq {Node(r) : r \in index}
      /\ index' = {X(r) : r \in index}
      /\ \A r \in index : /\ X(r).id = r.id /\ X(r).path = r.path /\ X(r).stamp = r.stamp
                          /\ X(r).text = r.text /\ X(r).body = r.body
  BY HydrateStep
<1>2. derive'["scan"].read = derive["scan"].read /\ derive'["scan"].body = derive["scan"].body
  <2>1. derive["scan"] \in Deriving /\ derive \in [Workers -> Deriving] /\ "scan" \in Workers
    BY DEF BaseInv, Types, TypesIndex, Workers
  <2> QED  BY <2>1 DEF Hydrate, Deriving
<1> HIDE DEF X
<1>3. \A n \in derive'["scan"].todo : Known(n)'
  BY <1>1, SameAges DEF BaseInv, RowsAreDistinct, Known, Node
<1>4. \A w \in Workers : WorkInv(w)'
  BY <1>1, <1>2, <1>3, SameAges, WorkFrame DEF TextInv, Workers
<1>5. spent.saves = 0 => RowsFitWork' /\ TextsFit'
  <2> SUFFICES ASSUME spent.saves = 0 PROVE RowsFitWork' /\ TextsFit'
    OBVIOUS
  <2>1. RowsFitWork /\ TextsFit
    BY DEF TextInv
  <2>2. RowsFitWork'
    BY <1>1, <2>1 DEF RowsFitWork, Workers
  <2>3. TextsFit'
    BY <1>1, <2>1 DEF TextsFit, Outdated
  <2> QED  BY <2>2, <2>3
<1> QED  BY <1>1, <1>4, <1>5 DEF TextInv

LEMMA PublishTexts == ASSUME BaseInv, TextInv, NEW s, ScanPublish(s) PROVE TextInv'
<1>1. /\ scan.pc = "walk" /\ UNCHANGED <<disk, rec, spent, derive, loop>>
      /\ index' = index \/ \E new \in Rows : Published(s, new)
  BY ScanPublishStep
<1>2. \A r \in index : r.text = "pending"
  BY <1>1 DEF TextInv
<1>3. ASSUME NEW new \in Rows, Published(s, new)
      PROVE  new.text = "pending"
  <2>1. CASE new = NewRow(s)
    BY <2>1 DEF NewRow
  <2>2. ASSUME NEW r \in RowsOf(s.id), new = [r EXCEPT !.path = s.path, !.stamp = s.stamp]
        PROVE  new.text = "pending"
    <3>1. r \in Rows /\ r.text = "pending"
      BY <1>2 DEF RowsOf, BaseInv, Types, TypesIndex
    <3> QED  BY <2>2, <3>1 DEF Rows
  <2> QED  BY <1>3, <2>1, <2>2 DEF Published
<1>4. \A r \in index' : r.text = "pending"
  <2>1. CASE index' = index
    BY <1>2, <2>1
  <2>2. ASSUME NEW new \in Rows, Published(s, new)
        PROVE  index' \subseteq index \cup {new}
    BY <2>2 DEF Published
  <2> QED  BY <1>1, <1>2, <1>3, <2>1, <2>2
<1>5. \A w \in Workers : derive'[w].node = {}
  BY <1>1 DEF BaseInv, TasksTakeTurns, Working, Workers
<1>6. \A w \in Workers : WorkInv(w)'
  BY <1>1, SameAges, WorkFrame DEF TextInv
<1>7. RowsFitWork' /\ TextsFit'
  BY <1>4, <1>5 DEF RowsFitWork, TextsFit
<1> QED  BY <1>1, <1>4, <1>6, <1>7 DEF TextInv

LEMMA NextTexts == BaseInv /\ TextInv /\ [Next]_vars => TextInv'
<1> SUFFICES ASSUME BaseInv, TextInv, [Next]_vars PROVE TextInv'
  OBVIOUS
<1>1. ASSUME NEW c \in Callers, Reconcile(c)
      PROVE  TextInv'
  BY <1>1, ReconcileTexts, CommitTexts DEF Reconcile
<1>2. CASE Deliver \/ Flush \/ StartRequest \/ RebuildEnds \/ LoopEnds \/ CloseProject \/ UNCHANGED vars
  BY <1>2, QuietTexts
<1>3. ASSUME NEW w \in Workers, Derive(w)
      PROVE  TextInv'
  BY <1>3, DeriveTexts
<1>4. CASE Scan
  BY <1>4, QuietTexts, HydrateTexts, PublishTexts DEF Scan
<1>5. CASE OtherProgram \/ \E p, q \in Paths : SaveText(p, q)
  BY <1>5, ChangeTexts
<1>6. CASE CancelScan \/ CloseTask
  BY <1>6, RestTexts, QuietTexts DEF CloseTask
<1> QED  BY <1>1, <1>2, <1>3, <1>4, <1>5, <1>6 DEF Next, WatcherTask, ScanTask, Callers, Workers

LEMMA InitTexts == Init => TextInv
<1> SUFFICES ASSUME Init PROVE TextInv
  OBVIOUS
<1>1. \A w \in Workers : derive[w] = Rested
  BY DEF Init
<1>2. Rested.node = {} /\ Rested.read = "no" /\ Rested.todo = {}
  BY DEF Rested
<1>3. \A w \in Workers : WorkInv(w)
  BY <1>1, <1>2 DEF WorkInv
<1>4. rec["saver"].pc = "idle" /\ RowsFitWork /\ TextsFit
  BY <1>1, <1>2 DEF Init, RowsFitWork, TextsFit, Callers, Idle
<1> QED  BY <1>3, <1>4 DEF Init, TextInv

\* When all is quiet a row shows the content its file has.
LEMMA SettledRows ==
    ASSUME BaseInv, LookInv, Settled, Current, errors = {}, NEW r \in index
    PROVE  disk[r.path].id = r.id /\ disk[r.path].stamp = r.stamp /\ r.path \in Paths
<1>1. r.path \in Paths
  BY DEF BaseInv, Types, TypesIndex, Rows
<1>2. ~Noticed(r.path)
  BY DEF Settled, Noticed, Told, Covered, NoEvents, Idle, Callers
<1>3. NodesAt(r.path) \subseteq Sight(r.path)
  BY <1>1, <1>2 DEF LookInv, Live, Settled, NothingStale
<1>4. Node(r) \in NodesAt(r.path)
  BY DEF NodesAt, RowsAt
<1> QED  BY <1>1, <1>3, <1>4 DEF Sight, Node

\* TextIsCurrent, for every folder and queue: in an open project at rest, without
\* failures and without saves, the text of every row is that of its file, or was read
\* from another file that took its path after the check.
THEOREM TextIsAlwaysCurrent == Spec => []TextIsCurrent
<1>1. BaseInv /\ LookInv /\ TextInv => TextIsCurrent
  <2> SUFFICES ASSUME BaseInv, LookInv, TextInv, Settled, Current, errors = {}, spent.saves = 0,
                      NEW r \in index, r.text = "ready"
               PROVE  r.body = disk[r.path] \/ r.body.id # r.id
    BY DEF TextIsCurrent
  <2>1. disk[r.path].id = r.id /\ disk[r.path].stamp = r.stamp /\ r.path \in Paths
    BY SettledRows
  <2>2. r.body \in Contents /\ disk[r.path] \in Contents
    BY <2>1 DEF BaseInv, Types, TypesIndex, TypesFiles, Rows
  <2>3. r.body.id = r.id => r.body.stamp = r.stamp
    BY <2>1 DEF TextInv, TextsFit, Outdated
  <2> QED  BY <2>1, <2>2, <2>3 DEF Contents
<1>2. BaseInv /\ TextInv /\ [Next]_vars => TextInv'
  BY NextTexts
<1>3. Init => TextInv
  BY InitTexts
<1>4. Spec => []BaseInv
  BY IndexInvariance
<1>5. Spec => []LookInv
  BY LookInvariance
<1> QED  BY <1>1, <1>2, <1>3, <1>4, <1>5, PTL DEF Spec
=============================================================================
