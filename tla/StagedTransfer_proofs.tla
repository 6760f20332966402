-------------------------- MODULE StagedTransfer_proofs --------------------------
(***************************************************************************)
(* Theorems about StagedTransfer, for every set of routes and any number of *)
(* crashes, errors and changes by other applications.                       *)
(*                                                                         *)
(* TransferInv, the first inductive invariant, is about the files and the   *)
(* worker: which content can be at which place, that a hidden part is the   *)
(* one its row names, and what every step of a route may rely on when it is *)
(* reached (a copy is complete before it is placed, and placed before the   *)
(* source is taken away).  From it follow that no file is lost, that no     *)
(* part is forgotten and that a foreign file stays.                         *)
(*                                                                         *)
(* ResultInv, the second one, relates the state of the row to how far the   *)
(* content has come, so that where a row ends its result is what the disk   *)
(* shows.                                                                   *)
(*                                                                         *)
(* CalmInv, the third one, lists the scenes that a run is in as long as     *)
(* only crashes interrupt it: what the row says, which part it names, where *)
(* each file is, and at which steps the worker or recovery may be then.     *)
(* From each of them recovery goes on to the scene the crash came from, or  *)
(* the disk cannot tell.                                                    *)
(***************************************************************************)
EXTENDS StagedTransfer, TLAPS

-----------------------------------------------------------------------------
(* The step that follows on each route. *)

StepNames == {"begin", "create", "write", "stage", "apply", "verify", "clear", "place",
              "compare", "aside", "discard", "metadata", "index", "complete", "close"}

\* A sequence continued with another one, element by element.
LEMMA Joined ==
    ASSUME NEW S, NEW s \in Seq(S), NEW t \in Seq(S)
    PROVE  /\ DOMAIN (s \o t) = 1..(Len(s) + Len(t))
           /\ \A i \in 1..Len(s) + Len(t) :
                 (s \o t)[i] = IF i <= Len(s) THEN s[i] ELSE t[i - Len(s)]
OBVIOUS

\* The last four steps of a route of n own steps.
LEMMA Finished ==
    ASSUME NEW own \in Seq(StepNames), NEW n \in Nat, Len(own) = n
    PROVE  /\ DOMAIN (own \o Finish) = 1..(n + 4)
           /\ \A i \in 1..n : (own \o Finish)[i] = own[i]
           /\ (own \o Finish)[n + 1] = "metadata"
           /\ (own \o Finish)[n + 2] = "index"
           /\ (own \o Finish)[n + 3] = "complete"
           /\ (own \o Finish)[n + 4] = "close"
<1>1. Finish \in Seq(StepNames) /\ Len(Finish) = 4
  BY DEF Finish, StepNames
<1> DEFINE path == own \o Finish
<1>2. DOMAIN path = 1..(Len(own) + Len(Finish))
  BY <1>1, Joined
<1>3. \A i \in 1..Len(own) + Len(Finish) :
         path[i] = IF i <= Len(own) THEN own[i] ELSE Finish[i - Len(own)]
  BY <1>1, Joined
<1> HIDE DEF path
<1>4. DOMAIN path = 1..(n + 4)
  BY <1>1, <1>2
<1>5. \A i \in 1..n : path[i] = own[i]
  BY <1>1, <1>3
<1>6. \A i \in 1..4 : path[n + i] = Finish[i]
  BY <1>1, <1>3
<1>7. /\ Finish[1] = "metadata" /\ Finish[2] = "index"
      /\ Finish[3] = "complete" /\ Finish[4] = "close"
  BY DEF Finish
<1>8. path[n + 1] = "metadata" /\ path[n + 2] = "index" /\ path[n + 3] = "complete"
      /\ path[n + 4] = "close"
  BY <1>6, <1>7
<1> QED  BY <1>4, <1>5, <1>8 DEF path

\* The steps of a copy.
LEMMA CopyPath ==
    ASSUME route = "Copy", ~(mode = "recovering" /\ step = "verify")
    PROVE  /\ step = "begin" => Following = "create"
           /\ step = "create" => Following = "write"
           /\ step = "write" => Following = "stage"
           /\ step = "stage" => Following = "apply"
           /\ step = "apply" => Following = "verify"
           /\ step = "verify" => Following = "clear"
           /\ step = "clear" => Following = "place"
           /\ step = "place" => Following = "metadata"
           /\ step = "metadata" => Following = "index"
           /\ step = "index" => Following = "complete"
           /\ step = "complete" => Following = "close"
<1> DEFINE own == <<"begin", "create", "write", "stage", "apply", "verify", "clear", "place">>
           path == Stages["Copy"]
           i == CHOOSE n \in DOMAIN path : path[n] = step
<1>1. Following = path[i + 1]
  BY DEF Following
<1>2. path = own \o Finish
  BY DEF Stages
<1>3. own \in Seq(StepNames) /\ Len(own) = 8
  BY DEF StepNames
<1>4. /\ DOMAIN path = 1..12 /\ \A n \in 1..8 : path[n] = own[n]
      /\ path[9] = "metadata" /\ path[10] = "index" /\ path[11] = "complete"
      /\ path[12] = "close"
  <2> HIDE DEF own, path
  <2>1. /\ DOMAIN path = 1..(8 + 4) /\ \A n \in 1..8 : path[n] = own[n]
        /\ path[8 + 1] = "metadata" /\ path[8 + 2] = "index"
        /\ path[8 + 3] = "complete" /\ path[8 + 4] = "close"
    BY <1>2, <1>3, Finished
  <2> QED  BY <2>1
<1> HIDE DEF path
<1>5. ASSUME step \in {"begin", "create", "write", "stage", "apply", "verify", "clear", "place", "metadata", "index", "complete"}
      PROVE  i \in 1..12 /\ path[i] = step
  <2>1. \E n \in DOMAIN path : path[n] = step
    BY <1>4, <1>5
  <2> QED  BY <1>4, <2>1
<1> HIDE DEF i
<1> QED  BY <1>1, <1>4, <1>5

\* The steps of a move to another volume.
LEMMA CrossMovePath ==
    ASSUME route = "CrossMove", ~(mode = "recovering" /\ step = "verify")
    PROVE  /\ step = "begin" => Following = "create"
           /\ step = "create" => Following = "write"
           /\ step = "write" => Following = "stage"
           /\ step = "stage" => Following = "apply"
           /\ step = "apply" => Following = "verify"
           /\ step = "verify" => Following = "clear"
           /\ step = "clear" => Following = "place"
           /\ step = "place" => Following = "compare"
           /\ step = "compare" => Following = "aside"
           /\ step = "aside" => Following = "discard"
           /\ step = "discard" => Following = "metadata"
           /\ step = "metadata" => Following = "index"
           /\ step = "index" => Following = "complete"
           /\ step = "complete" => Following = "close"
<1> DEFINE own == <<"begin", "create", "write", "stage", "apply", "verify", "clear", "place", "compare", "aside", "discard">>
           path == Stages["CrossMove"]
           i == CHOOSE n \in DOMAIN path : path[n] = step
<1>1. Following = path[i + 1]
  BY DEF Following
<1>2. path = own \o Finish
  BY DEF Stages
<1>3. own \in Seq(StepNames) /\ Len(own) = 11
  BY DEF StepNames
<1>4. /\ DOMAIN path = 1..15 /\ \A n \in 1..11 : path[n] = own[n]
      /\ path[12] = "metadata" /\ path[13] = "index" /\ path[14] = "complete"
      /\ path[15] = "close"
  <2> HIDE DEF own, path
  <2>1. /\ DOMAIN path = 1..(11 + 4) /\ \A n \in 1..11 : path[n] = own[n]
        /\ path[11 + 1] = "metadata" /\ path[11 + 2] = "index"
        /\ path[11 + 3] = "complete" /\ path[11 + 4] = "close"
    <3>1. ASSUME NEW n \in Nat, Len(own) = n
          PROVE  /\ DOMAIN path = 1..(n + 4) /\ \A k \in 1..n : path[k] = own[k]
                 /\ path[n + 1] = "metadata" /\ path[n + 2] = "index"
                 /\ path[n + 3] = "complete" /\ path[n + 4] = "close"
      BY <1>2, <1>3, <3>1, Finished
    <3> QED  BY <1>3, <3>1
  <2> QED  BY <2>1
<1> HIDE DEF path
<1>5. ASSUME step \in {"begin", "create", "write", "stage", "apply", "verify", "clear", "place", "compare", "aside", "discard", "metadata", "index", "complete"}
      PROVE  i \in 1..15 /\ path[i] = step
  <2>1. \E n \in DOMAIN path : path[n] = step
    BY <1>4, <1>5
  <2> QED  BY <1>4, <2>1
<1> HIDE DEF i
<1> QED  BY <1>1, <1>4, <1>5

\* The steps of a move to the Trash.
LEMMA TrashPath ==
    ASSUME route = "Trash", ~(mode = "recovering" /\ step = "verify")
    PROVE  /\ step = "begin" => Following = "aside"
           /\ step = "aside" => Following = "stage"
           /\ step = "stage" => Following = "discard"
           /\ step = "discard" => Following = "apply"
           /\ step = "apply" => Following = "verify"
           /\ step = "verify" => Following = "metadata"
           /\ step = "metadata" => Following = "index"
           /\ step = "index" => Following = "complete"
           /\ step = "complete" => Following = "close"
<1> DEFINE own == <<"begin", "aside", "stage", "discard", "apply", "verify">>
           path == Stages["Trash"]
           i == CHOOSE n \in DOMAIN path : path[n] = step
<1>1. Following = path[i + 1]
  BY DEF Following
<1>2. path = own \o Finish
  BY DEF Stages
<1>3. own \in Seq(StepNames) /\ Len(own) = 6
  BY DEF StepNames
<1>4. /\ DOMAIN path = 1..10 /\ \A n \in 1..6 : path[n] = own[n]
      /\ path[7] = "metadata" /\ path[8] = "index" /\ path[9] = "complete"
      /\ path[10] = "close"
  <2> HIDE DEF own, path
  <2>1. /\ DOMAIN path = 1..(6 + 4) /\ \A n \in 1..6 : path[n] = own[n]
        /\ path[6 + 1] = "metadata" /\ path[6 + 2] = "index"
        /\ path[6 + 3] = "complete" /\ path[6 + 4] = "close"
    BY <1>2, <1>3, Finished
  <2> QED  BY <2>1
<1> HIDE DEF path
<1>5. ASSUME step \in {"begin", "aside", "stage", "discard", "apply", "verify", "metadata", "index", "complete"}
      PROVE  i \in 1..10 /\ path[i] = step
  <2>1. \E n \in DOMAIN path : path[n] = step
    BY <1>4, <1>5
  <2> QED  BY <1>4, <2>1
<1> HIDE DEF i
<1> QED  BY <1>1, <1>4, <1>5

\* The steps of a replacing rename.
LEMMA ReplacePath ==
    ASSUME route = "Replace", ~(mode = "recovering" /\ step = "verify")
    PROVE  /\ step = "begin" => Following = "aside"
           /\ step = "aside" => Following = "stage"
           /\ step = "stage" => Following = "clear"
           /\ step = "clear" => Following = "place"
           /\ step = "place" => Following = "apply"
           /\ step = "apply" => Following = "verify"
           /\ step = "verify" => Following = "metadata"
           /\ step = "metadata" => Following = "index"
           /\ step = "index" => Following = "complete"
           /\ step = "complete" => Following = "close"
<1> DEFINE own == <<"begin", "aside", "stage", "clear", "place", "apply", "verify">>
           path == Stages["Replace"]
           i == CHOOSE n \in DOMAIN path : path[n] = step
<1>1. Following = path[i + 1]
  BY DEF Following
<1>2. path = own \o Finish
  BY DEF Stages
<1>3. own \in Seq(StepNames) /\ Len(own) = 7
  BY DEF StepNames
<1>4. /\ DOMAIN path = 1..11 /\ \A n \in 1..7 : path[n] = own[n]
      /\ path[8] = "metadata" /\ path[9] = "index" /\ path[10] = "complete"
      /\ path[11] = "close"
  <2> HIDE DEF own, path
  <2>1. /\ DOMAIN path = 1..(7 + 4) /\ \A n \in 1..7 : path[n] = own[n]
        /\ path[7 + 1] = "metadata" /\ path[7 + 2] = "index"
        /\ path[7 + 3] = "complete" /\ path[7 + 4] = "close"
    BY <1>2, <1>3, Finished
  <2> QED  BY <2>1
<1> HIDE DEF path
<1>5. ASSUME step \in {"begin", "aside", "stage", "clear", "place", "apply", "verify", "metadata", "index", "complete"}
      PROVE  i \in 1..11 /\ path[i] = step
  <2>1. \E n \in DOMAIN path : path[n] = step
    BY <1>4, <1>5
  <2> QED  BY <1>4, <2>1
<1> HIDE DEF i
<1> QED  BY <1>1, <1>4, <1>5

-----------------------------------------------------------------------------
(* What is known of the files, the row and the worker in every state. *)

Copying == route \in {"Copy", "CrossMove"}
NoParts == disk["copyPart"] = NoFile /\ disk["sidePart"] = NoFile

\* Somewhere, place by place.
Kept(f) == \/ disk["src"] = f \/ disk["dst"] = f \/ disk["copyPart"] = f \/ disk["sidePart"] = f
           \/ f \in gone

FileTypes ==
    /\ disk \in [Places -> Contents \cup {NoFile}]
    /\ disk["src"] \in {"orig", "foreign", NoFile}
    /\ disk["dst"] # "partial"
    /\ disk["copyPart"] \in {"partial", "copy", NoFile}
    /\ disk["sidePart"] \in {"orig", NoFile}

FilesAreSafe ==
    /\ policy = "Replace" => Kept("old") \/ "old" \in trash
    /\ "old" \in trash => policy = "Replace"
    /\ \/ Kept("orig")
       \/ "orig" \in trash /\ (route = "Trash" \/ (route = "CrossMove" /\ Kept("copy")))

Prepared ==
    /\ route \in {"Copy", "CrossMove", "Trash", "Replace"} /\ policy \in {"Skip", "Replace"}
    /\ route = "Trash" => policy = "Skip"
    /\ route = "Replace" => policy = "Replace"

\* The row names the part that is in use, and only a live or retained row does.
PartsAreNamed ==
    /\ items \in [{1} -> Journal!ItemRow] /\ temp \in Hidden \cup {NoFile}
    /\ \A p \in Hidden : disk[p] # NoFile => temp = p
    /\ row.temporary <=> temp # NoFile
    /\ row.state = "Absent" => mode = "idle" /\ temp = NoFile /\ "orig" \notin trash
    /\ route = "CrossMove" /\ row.evidence => row.state \notin Early

CopyIsBound ==
    armed => /\ mode = "executing" /\ Copying
             /\ step \in {"write", "stage", "apply", "verify", "clear", "place"}

CopySteps == {"begin", "create", "write", "stage", "apply", "verify", "clear", "place",
              "cancel", "keepFailed", "keepCancelled"}
StepsOf ==
    [Copy |-> CopySteps, CrossMove |-> CopySteps \cup {"compare", "aside", "discard"},
     Trash |-> {"begin", "aside", "stage", "discard", "apply", "verify", "cancel"},
     Replace |-> {"begin", "aside", "stage", "clear", "place", "apply", "verify", "cancel",
                  "putBack", "giveUp"}]
Ending == {"metadata", "index", "complete"}

\* A copy is complete before it is placed, and placed before its source is taken away.
CopyAtWork ==
    mode = "executing" /\ Copying =>
        /\ step \in CopySteps \ {"begin", "cancel"} => temp = "copyPart"
        /\ step \in {"stage", "apply", "verify", "clear", "place"} => disk["copyPart"] = "copy"
        /\ step \in {"compare", "aside", "discard"} => disk["copyPart"] = NoFile /\ Kept("copy")
        /\ step \in CopySteps \cup {"compare", "aside"} => disk["sidePart"] = NoFile
        /\ step \in CopySteps \cup {"compare", "aside", "discard"} => "orig" \notin trash
        /\ step \in {"aside", "discard"} => temp = "sidePart"
        /\ step = "discard" => disk["sidePart"] = "orig"

\* Between being set aside and leaving, the file is at the part the row names.
MoveAtWork ==
    mode = "executing" /\ ~Copying =>
        /\ step \in {"aside", "stage", "discard", "clear", "place", "putBack"} => temp = "sidePart"
        /\ step \in {"aside", "giveUp", "apply", "verify"} => NoParts
        /\ step \in {"stage", "discard", "clear", "place", "putBack"} => disk["sidePart"] = "orig"

WorkerKnows ==
    /\ mode \in {"idle", "executing", "recovering", "closed"}
    /\ mode \in {"idle", "closed"} => step = "none"
    /\ mode = "executing" =>
          /\ step \in StepsOf[route] \cup Ending \cup {"close", "fail"}
          /\ step \in {"begin", "cancel"} \cup Ending => NoParts
    /\ mode = "recovering" =>
          /\ step \in {"choose", "fail", "resolve", "restore", "apply", "verify", "place", "close"}
                      \cup Ending
          /\ step \in {"fail", "resolve", "apply"} \cup Ending => NoParts
          /\ step = "verify" /\ route # "Copy" => NoParts
          /\ step \in {"verify", "place"} /\ route = "Copy" =>
                disk["sidePart"] = NoFile /\ disk["copyPart"] # "partial"
          /\ step = "place" => route = "Copy" /\ disk["copyPart"] = "copy"
          /\ step = "apply" => ~Copying
          /\ step = "restore" => temp = "sidePart"

DataInv == FileTypes /\ FilesAreSafe /\ Prepared /\ PartsAreNamed
WorkInv == armed \in BOOLEAN /\ CopyIsBound /\ CopyAtWork /\ MoveAtWork /\ WorkerKnows
TransferInv == DataInv /\ WorkInv

-----------------------------------------------------------------------------
(* What a journal write does to the row. *)

RowTyped == items \in [{1} -> Journal!ItemRow]

\* begin_plan inserts a Prepared row without temporary or evidence.
LEMMA PlanWrite ==
    ASSUME RowTyped, Prepared, Journal!BeginPlan("batch", {1}, policy, "planned")
    PROVE  /\ RowTyped' /\ row.state = "Absent" /\ row'.state = "Prepared"
           /\ ~row'.temporary /\ ~row'.evidence /\ row'.result = "none"
<1>1. items' = [o \in {1} |-> Journal!NewItem(policy, "planned")]
  BY DEF Journal!BeginPlan
<1>2. Journal!NewItem(policy, "planned") \in Journal!ItemRow
  BY DEF Journal!NewItem, Journal!ItemRow, Journal!LiveStates, Prepared
<1>3. items[1].state = "Absent"
  BY DEF Journal!BeginPlan
<1>4. items'[1] = Journal!NewItem(policy, "planned")
  BY <1>1
<1> QED  BY <1>1, <1>2, <1>3, <1>4 DEF RowTyped, row, Journal!NewItem

\* register_temporary and record_prepared_evidence.
LEMMA RegisterWrite ==
    ASSUME RowTyped, NEW expected, Journal!RegisterTemporary(1, expected)
    PROVE  /\ RowTyped' /\ row.state = expected /\ row'.state = row.state
           /\ row'.temporary /\ row'.evidence = row.evidence /\ row'.result = row.result
<1>1. items[1] \in Journal!ItemRow
  BY DEF RowTyped
<1>2. items' = [items EXCEPT ![1] = [items[1] EXCEPT !.temporary = TRUE]]
  BY DEF Journal!RegisterTemporary
<1>3. [items[1] EXCEPT !.temporary = TRUE] \in Journal!ItemRow
  BY <1>1 DEF Journal!ItemRow
<1>4. items'[1] = [items[1] EXCEPT !.temporary = TRUE]
  BY <1>2 DEF RowTyped
<1>5. /\ items'[1].state = items[1].state /\ items'[1].temporary
      /\ items'[1].evidence = items[1].evidence /\ items'[1].result = items[1].result
  BY <1>1, <1>4 DEF Journal!ItemRow
<1> QED  BY <1>2, <1>3, <1>5 DEF RowTyped, row, Journal!RegisterTemporary

LEMMA EvidenceWrite ==
    ASSUME RowTyped, Journal!RecordPreparedEvidence(1)
    PROVE  /\ RowTyped' /\ row.state = "Prepared" /\ row'.state = "Prepared"
           /\ row'.temporary /\ row'.evidence /\ row'.result = row.result
<1> DEFINE new == [items[1] EXCEPT !.temporary = TRUE, !.evidence = TRUE]
<1>1. items[1] \in Journal!ItemRow /\ items[1].state = "Prepared"
  BY DEF RowTyped, Journal!RecordPreparedEvidence
<1>2. items' = [items EXCEPT ![1] = new]
  BY <1>1 DEF Journal!RecordPreparedEvidence, RowTyped, Journal!ItemRow
<1>3. new \in Journal!ItemRow
  BY <1>1 DEF Journal!ItemRow
<1>4. /\ new.state = items[1].state /\ new.temporary /\ new.evidence /\ new.result = items[1].result
  BY <1>1 DEF Journal!ItemRow
<1> HIDE DEF new
<1>5. items'[1] = new
  BY <1>2 DEF RowTyped
<1> QED  BY <1>1, <1>2, <1>3, <1>4, <1>5 DEF RowTyped, row

\* record_fs_applied.
LEMMA AppliedWrite ==
    ASSUME RowTyped, Journal!RecordFsApplied(1)
    PROVE  /\ RowTyped' /\ row.state = "Staged" /\ row'.state = "FsApplied"
           /\ row'.temporary = row.temporary /\ row'.evidence /\ row'.result = row.result
<1> DEFINE new == [items[1] EXCEPT !.state = "FsApplied", !.evidence = TRUE]
<1>1. items[1] \in Journal!ItemRow /\ items[1].state = "Staged"
  BY DEF RowTyped, Journal!RecordFsApplied, Journal!CanTransition
<1>2. items' = [items EXCEPT ![1] = new]
  BY <1>1 DEF Journal!RecordFsApplied, RowTyped, Journal!ItemRow
<1>3. new \in Journal!ItemRow
  BY <1>1 DEF Journal!ItemRow, Journal!LiveStates
<1>4. /\ new.state = "FsApplied" /\ new.temporary = items[1].temporary
      /\ new.evidence /\ new.result = items[1].result
  BY <1>1 DEF Journal!ItemRow
<1> HIDE DEF new
<1>5. items'[1] = new
  BY <1>2 DEF RowTyped
<1> QED  BY <1>1, <1>2, <1>3, <1>4, <1>5 DEF RowTyped, row

\* advance.
LEMMA AdvanceWrite ==
    ASSUME RowTyped, NEW expected,
           NEW next \in {"Staged", "Verified", "MetaCommitted", "IndexSynced"},
           Journal!Advance(1, expected, next)
    PROVE  /\ RowTyped' /\ row.state = expected /\ row'.state = next
           /\ row'.temporary = row.temporary /\ row'.evidence = row.evidence
           /\ row'.result = row.result
<1> DEFINE new == [items[1] EXCEPT !.state = next]
<1>1. items[1] \in Journal!ItemRow /\ items[1].state = expected
  BY DEF RowTyped, Journal!Advance
<1>2. items' = [items EXCEPT ![1] = new]
  BY DEF Journal!Advance
<1>3. new \in Journal!ItemRow
  BY <1>1 DEF Journal!ItemRow, Journal!LiveStates
<1>4. /\ new.state = next /\ new.temporary = items[1].temporary
      /\ new.evidence = items[1].evidence /\ new.result = items[1].result
  BY <1>1 DEF Journal!ItemRow
<1> HIDE DEF new
<1>5. items'[1] = new
  BY <1>2 DEF RowTyped
<1> QED  BY <1>1, <1>2, <1>3, <1>4, <1>5 DEF RowTyped, row

\* finish_item, which gives the row its result and keeps its temporary only when told to.
LEMMA FinishWrite ==
    ASSUME RowTyped, NEW expected, NEW terminal \in Journal!Terminal,
           NEW counter \in Journal!Counters, NEW retain \in BOOLEAN,
           Journal!FinishItem(1, expected, terminal, counter, retain)
    PROVE  /\ RowTyped' /\ row.state = expected /\ row.result = "none"
           /\ row'.state = terminal /\ row'.result = counter
           /\ retain => row.temporary
           /\ row'.temporary <=> retain
           /\ row'.evidence <=> retain /\ row.evidence
<1> DEFINE new == [items[1] EXCEPT !.state = terminal, !.result = counter,
                                   !.temporary = retain /\ items[1].temporary,
                                   !.evidence = retain /\ items[1].evidence]
<1>1. items[1] \in Journal!ItemRow /\ items[1].state = expected /\ items[1].result = "none"
      /\ (retain => items[1].temporary)
  BY DEF RowTyped, Journal!FinishItem
<1>2. items' = [items EXCEPT ![1] = new]
  BY <1>1 DEF Journal!FinishItem, RowTyped, Journal!ItemRow
<1>3. new \in Journal!ItemRow
  BY <1>1 DEF Journal!ItemRow, Journal!Terminal, Journal!Counters
<1>4. /\ new.state = terminal /\ new.result = counter
      /\ new.temporary <=> retain
      /\ new.evidence <=> retain /\ items[1].evidence
  BY <1>1 DEF Journal!ItemRow
<1> HIDE DEF new
<1>5. items'[1] = new
  BY <1>2 DEF RowTyped
<1> QED  BY <1>1, <1>2, <1>3, <1>4, <1>5 DEF RowTyped, row

\* resolve_recovery_obligation.
LEMMA ResolveWrite ==
    ASSUME RowTyped, NEW expected, Journal!ResolveRecoveryObligation(1, expected)
    PROVE  /\ RowTyped' /\ row.state \in Journal!Terminal /\ row'.state = row.state
           /\ ~row'.temporary /\ ~row'.evidence /\ row'.result = row.result
<1> DEFINE new == [items[1] EXCEPT !.temporary = FALSE, !.evidence = FALSE]
<1>1. items[1] \in Journal!ItemRow /\ items[1].state \in Journal!Terminal
  BY DEF RowTyped, Journal!ResolveRecoveryObligation
<1>2. items' = [items EXCEPT ![1] = new]
  BY <1>1 DEF Journal!ResolveRecoveryObligation, RowTyped, Journal!ItemRow
<1>3. new \in Journal!ItemRow
  BY <1>1 DEF Journal!ItemRow
<1>4. new.state = items[1].state /\ ~new.temporary /\ ~new.evidence /\ new.result = items[1].result
  BY <1>1 DEF Journal!ItemRow
<1> HIDE DEF new
<1>5. items'[1] = new
  BY <1>2 DEF RowTyped
<1> QED  BY <1>1, <1>2, <1>3, <1>4, <1>5 DEF RowTyped, row

-----------------------------------------------------------------------------
(* Endings that many steps share. *)

\* The program stops, in a crash or at a refused project, and leaves everything as it is.
LEMMA ShutdownKeeps ==
    ASSUME TransferInv, Shutdown, UNCHANGED <<journal, prepared, files>>, row.state # "Absent"
    PROVE  TransferInv'
<1> USE DEF TransferInv, Shutdown, journal, prepared, files
<1>1. DataInv'
  BY DEF DataInv, FileTypes, FilesAreSafe, Kept, Prepared, PartsAreNamed, row
<1>2. WorkInv'
  BY DEF WorkInv, CopyIsBound, CopyAtWork, MoveAtWork, WorkerKnows
<1> QED  BY <1>1, <1>2

LEMMA WorkingRow == TransferInv /\ mode # "idle" => row.state # "Absent"
BY DEF TransferInv, DataInv, PartsAreNamed

\* At an error the lease unlinks the part it is bound to, which never holds the original.
LEMMA ErrorKeeps ==
    ASSUME TransferInv, mode = "executing", NEW n, Error(n)
    PROVE  TransferInv'
<1> USE DEF TransferInv
<1>1. /\ UNCHANGED <<items, temp, route, policy, trash, gone, mode>>
      /\ step' = "fail" /\ armed' = FALSE
      /\ disk' = disk \/ (armed /\ disk' = [disk EXCEPT !["copyPart"] = NoFile])
  BY DEF Error, GoTo, Vacate, journal, prepared
<1>2. armed => Copying /\ "orig" \notin trash
  BY DEF WorkInv, CopyIsBound, CopyAtWork, CopySteps
<1>3. WorkInv'
  BY <1>1 DEF WorkInv, CopyIsBound, CopyAtWork, MoveAtWork, WorkerKnows, CopySteps, Ending
<1>4. disk \in [Places -> Contents \cup {NoFile}]
  BY DEF DataInv, FileTypes
<1>5. /\ disk'["src"] = disk["src"] /\ disk'["dst"] = disk["dst"]
      /\ disk'["sidePart"] = disk["sidePart"]
      /\ disk'["copyPart"] = disk["copyPart"] \/ (armed /\ disk'["copyPart"] = NoFile)
      /\ disk' \in [Places -> Contents \cup {NoFile}]
  BY <1>1, <1>4 DEF Places
<1>6. FileTypes' /\ PartsAreNamed' /\ Prepared'
  BY <1>1, <1>5 DEF DataInv, FileTypes, Prepared, PartsAreNamed, row, Hidden
<1>7. FilesAreSafe'
  BY <1>1, <1>2, <1>5 DEF DataInv, FileTypes, FilesAreSafe, Kept, NoFile
<1> QED  BY <1>3, <1>6, <1>7 DEF DataInv

LEMMA CopyingSteps == Copying => CopySteps \subseteq StepsOf[route]
BY DEF Copying, StepsOf, CopySteps

\* The staged copy is cleaned up, or its part stays registered.
LEMMA UnstageKeeps ==
    ASSUME TransferInv, mode = "executing", Copying, step \in {"write", "place"},
           NEW n, NEW clean \in {"fail", "cancel"}, NEW keep \in {"keepFailed", "keepCancelled"},
           Unstage(n, clean, keep)
    PROVE  TransferInv'
<1> USE DEF TransferInv
<1>1. /\ UNCHANGED <<items, temp, route, policy, trash, gone, mode>>
      /\ armed' = FALSE
      /\ \/ step' = clean /\ disk' = [disk EXCEPT !["copyPart"] = NoFile]
         \/ step' = keep /\ (disk' = disk \/ disk' = [disk EXCEPT !["copyPart"] = NoFile])
  BY DEF Unstage, GoTo, Vacate, journal, prepared
<1>2. temp = "copyPart" /\ disk["sidePart"] = NoFile /\ "orig" \notin trash
  BY DEF WorkInv, CopyAtWork, CopySteps
<1>4. disk \in [Places -> Contents \cup {NoFile}]
  BY DEF DataInv, FileTypes
<1>5. /\ disk'["src"] = disk["src"] /\ disk'["dst"] = disk["dst"]
      /\ disk'["sidePart"] = disk["sidePart"]
      /\ disk'["copyPart"] = disk["copyPart"] \/ disk'["copyPart"] = NoFile
      /\ step' = clean => disk'["copyPart"] = NoFile
      /\ disk' \in [Places -> Contents \cup {NoFile}]
  BY <1>1, <1>4 DEF Places
<1>3. WorkInv'
  <2>1. step' \in {"fail", "cancel", "keepFailed", "keepCancelled"}
        /\ (step' = "cancel" => disk'["copyPart"] = NoFile)
    BY <1>1, <1>5
  <2>2. step' \in StepsOf[route] \cup {"fail"}
    BY <2>1, CopyingSteps DEF CopySteps
  <2> QED  BY <1>1, <1>2, <1>5, <2>1, <2>2 DEF WorkInv, CopyIsBound, CopyAtWork, MoveAtWork,
              WorkerKnows, CopySteps, Ending, Copying, NoParts
<1>6. FileTypes' /\ PartsAreNamed' /\ Prepared'
  BY <1>1, <1>5 DEF DataInv, FileTypes, Prepared, PartsAreNamed, row, Hidden
<1>7. FilesAreSafe'
  BY <1>1, <1>2, <1>5 DEF DataInv, FileTypes, FilesAreSafe, Kept, NoFile
<1> QED  BY <1>3, <1>6, <1>7 DEF DataInv

\* A compensated move trashes the copy only while the original is still to be had.
LEMMA CompensateKeeps ==
    ASSUME TransferInv, mode = "executing", route = "CrossMove",
           step \in {"compare", "aside", "discard"}, NEW n, Compensate(n)
    PROVE  TransferInv'
<1> USE DEF TransferInv
<1>1. /\ UNCHANGED <<items, temp, route, policy, gone, mode, armed>>
      /\ step' = "fail"
      /\ \/ disk["dst"] = "copy" /\ trash' = trash \cup {"copy"}
            /\ disk' = [disk EXCEPT !["dst"] = NoFile]
         \/ UNCHANGED <<trash, disk>>
  BY DEF Compensate, GoTo, Vacate, journal, prepared
<1>2. "orig" \notin trash /\ ~armed
  BY DEF WorkInv, CopyAtWork, CopySteps, CopyIsBound, Copying
<1>4. disk \in [Places -> Contents \cup {NoFile}]
  BY DEF DataInv, FileTypes
<1>5. /\ disk'["src"] = disk["src"] /\ disk'["copyPart"] = disk["copyPart"]
      /\ disk'["sidePart"] = disk["sidePart"]
      /\ disk'["dst"] = disk["dst"] \/ (disk["dst"] = "copy" /\ disk'["dst"] = NoFile)
      /\ disk' \in [Places -> Contents \cup {NoFile}]
  BY <1>1, <1>4 DEF Places
<1>3. WorkInv'
  BY <1>1, <1>2, <1>5 DEF WorkInv, CopyIsBound, CopyAtWork, MoveAtWork, WorkerKnows, CopySteps,
     Ending
<1>6. FileTypes' /\ PartsAreNamed' /\ Prepared'
  BY <1>1, <1>5 DEF DataInv, FileTypes, Prepared, PartsAreNamed, row, Hidden, NoFile
<1>7. FilesAreSafe'
  BY <1>1, <1>2, <1>5 DEF DataInv, FileTypes, FilesAreSafe, Kept, NoFile
<1> QED  BY <1>3, <1>6, <1>7 DEF DataInv

-----------------------------------------------------------------------------
(* The steps that write to the journal and go on. *)

\* The next step is looked up in the path of the route.
LEMMA PathOf ==
    ASSUME ~(mode = "recovering" /\ step = "verify")
    PROVE  /\ Copying =>
                 /\ step = "begin" => Following = "create"
                 /\ step = "create" => Following = "write"
                 /\ step = "write" => Following = "stage"
                 /\ step = "stage" => Following = "apply"
                 /\ step = "apply" => Following = "verify"
                 /\ step = "verify" => Following = "clear"
                 /\ step = "clear" => Following = "place"
           /\ step = "place" => /\ route = "Copy" => Following = "metadata"
                                /\ route = "CrossMove" => Following = "compare"
                                /\ route = "Replace" => Following = "apply"
           /\ route = "CrossMove" => /\ step = "compare" => Following = "aside"
                                     /\ step = "aside" => Following = "discard"
           /\ route \in {"CrossMove", "Trash"} /\ step = "discard" =>
                 Following = IF route = "Trash" THEN "apply" ELSE "metadata"
           /\ route \in {"Trash", "Replace"} =>
                 /\ step = "begin" => Following = "aside"
                 /\ step = "aside" => Following = "stage"
                 /\ step = "stage" => Following = IF route = "Trash" THEN "discard" ELSE "clear"
                 /\ step = "apply" => Following = "verify"
                 /\ step = "verify" => Following = "metadata"
           /\ route = "Replace" /\ step = "clear" => Following = "place"
           /\ route \in {"Copy", "CrossMove", "Trash", "Replace"} =>
                 /\ step = "metadata" => Following = "index"
                 /\ step = "index" => Following = "complete"
                 /\ step = "complete" => Following = "close"
BY CopyPath, CrossMovePath, TrashPath, ReplacePath DEF Copying

\* A write that only moves the row on keeps what is known of the files and the row.
LEMMA RowOnly ==
    ASSUME DataInv, RowTyped', row'.state # "Absent",
           row'.temporary = row.temporary,
           row'.state \in Early => row.state \in Early /\ row'.evidence = row.evidence,
           UNCHANGED <<temp, prepared, files>>
    PROVE  DataInv'
BY DEF DataInv, FileTypes, FilesAreSafe, Kept, Prepared, PartsAreNamed, RowTyped, prepared, files

LEMMA RowIsTyped == TransferInv => RowTyped
BY DEF TransferInv, DataInv, PartsAreNamed, RowTyped

LEMMA StageKeeps == TransferInv /\ Stage => TransferInv'
<1> SUFFICES ASSUME TransferInv, Stage PROVE TransferInv'
  OBVIOUS
<1> USE DEF TransferInv
<1>1. /\ UNCHANGED <<temp, prepared, files, mode, armed>> /\ mode = "executing"
      /\ step = "stage" /\ step' = Following
      /\ Journal!Advance(1, "Prepared", "Staged")
  BY DEF Stage, Executing, JournalStep, GoTo
<1>2. /\ RowTyped' /\ row.state = "Prepared" /\ row'.state = "Staged"
      /\ row'.temporary = row.temporary /\ row'.evidence = row.evidence
  BY <1>1, AdvanceWrite, RowIsTyped
<1>3. DataInv'
  BY <1>1, <1>2, RowOnly DEF Early
<1>4. route \in {"Copy", "CrossMove", "Trash", "Replace"}
  BY DEF DataInv, Prepared
<1>5. step' \in StepsOf[route]
      /\ step' = IF Copying THEN "apply" ELSE IF route = "Trash" THEN "discard" ELSE "clear"
  BY <1>1, <1>4, PathOf DEF Copying, StepsOf, CopySteps
<1>6. WorkInv'
  BY <1>1, <1>4, <1>5 DEF WorkInv, CopyIsBound, CopyAtWork, MoveAtWork, WorkerKnows, Copying,
     CopySteps, NoParts, Ending, prepared, files, Kept
<1> QED  BY <1>3, <1>6

LEMMA ApplyKeeps == TransferInv /\ Apply => TransferInv'
<1> SUFFICES ASSUME TransferInv, Apply PROVE TransferInv'
  OBVIOUS
<1> USE DEF TransferInv
<1>1. /\ UNCHANGED <<temp, prepared, files, mode, armed>> /\ mode \in {"executing", "recovering"}
      /\ step = "apply" /\ step' = Following
      /\ Journal!RecordFsApplied(1)
  BY DEF Apply, Working, JournalStep, GoTo
<1>2. /\ RowTyped' /\ row'.state = "FsApplied" /\ row'.temporary = row.temporary
  BY <1>1, AppliedWrite, RowIsTyped
<1>3. DataInv'
  BY <1>1, <1>2, RowOnly DEF Early
<1>4. route \in {"Copy", "CrossMove", "Trash", "Replace"}
  BY DEF DataInv, Prepared
<1>5. step' = "verify" /\ step' \in StepsOf[route]
  BY <1>1, <1>4, PathOf DEF Copying, StepsOf, CopySteps
<1>6. WorkInv'
  BY <1>1, <1>4, <1>5 DEF WorkInv, CopyIsBound, CopyAtWork, MoveAtWork, WorkerKnows, Copying,
     CopySteps, NoParts, Ending, prepared, files, Kept
<1> QED  BY <1>3, <1>6

LEMMA VerifyKeeps == TransferInv /\ Verify => TransferInv'
<1> SUFFICES ASSUME TransferInv, Verify PROVE TransferInv'
  OBVIOUS
<1> USE DEF TransferInv
<1>1. /\ UNCHANGED <<temp, prepared, files, mode, armed>> /\ mode \in {"executing", "recovering"}
      /\ step = "verify" /\ step' = Following
      /\ Journal!Advance(1, "FsApplied", "Verified")
  BY DEF Verify, Working, JournalStep, GoTo
<1>2. /\ RowTyped' /\ row'.state = "Verified" /\ row'.temporary = row.temporary
  BY <1>1, AdvanceWrite, RowIsTyped
<1>3. DataInv'
  BY <1>1, <1>2, RowOnly DEF Early
<1>4. route \in {"Copy", "CrossMove", "Trash", "Replace"}
  BY DEF DataInv, Prepared
<1>5. CASE mode = "executing"
  <2>1. step' \in StepsOf[route] \cup Ending /\ step' = IF Copying THEN "clear" ELSE "metadata"
    BY <1>1, <1>4, <1>5, PathOf DEF Copying, StepsOf, CopySteps, Ending
  <2>2. WorkInv'
    BY <1>1, <1>4, <1>5, <2>1 DEF WorkInv, CopyIsBound, CopyAtWork, MoveAtWork, WorkerKnows,
       Copying, CopySteps, NoParts, Ending, prepared, files, Kept
  <2> QED  BY <1>3, <2>2
<1>6. CASE mode = "recovering"
  <2>1. step' = IF route = "Copy" /\ disk["copyPart"] # NoFile THEN "place" ELSE "metadata"
    BY <1>1, <1>6 DEF Following
  <2>2. disk["copyPart"] \in {"partial", "copy", NoFile}
    BY DEF DataInv, FileTypes
  <2>3. WorkInv'
    BY <1>1, <1>4, <1>6, <2>1, <2>2 DEF WorkInv, CopyIsBound, CopyAtWork, MoveAtWork, WorkerKnows,
       Copying, CopySteps, NoParts, Ending, prepared, files, Kept
  <2> QED  BY <1>3, <2>3
<1> QED  BY <1>1, <1>5, <1>6

LEMMA EndingKeeps ==
    TransferInv /\ (Metadata \/ Index) => TransferInv'
<1> SUFFICES ASSUME TransferInv, Metadata \/ Index PROVE TransferInv'
  OBVIOUS
<1> USE DEF TransferInv
<1>1. /\ UNCHANGED <<temp, prepared, files, mode, armed>> /\ mode \in {"executing", "recovering"}
      /\ step' = Following
      /\ \/ step = "metadata" /\ Journal!Advance(1, "Verified", "MetaCommitted")
         \/ step = "index" /\ Journal!Advance(1, "MetaCommitted", "IndexSynced")
  BY DEF Metadata, Index, Working, JournalStep, GoTo
<1>2. /\ RowTyped' /\ row'.state \in {"MetaCommitted", "IndexSynced"}
      /\ row'.temporary = row.temporary
  BY <1>1, AdvanceWrite, RowIsTyped
<1>3. DataInv'
  BY <1>1, <1>2, RowOnly DEF Early
<1>4. route \in {"Copy", "CrossMove", "Trash", "Replace"}
  BY DEF DataInv, Prepared
<1>5. step' \in {"index", "complete"}
  BY <1>1, <1>4, PathOf
<1>6. WorkInv'
  BY <1>1, <1>4, <1>5 DEF WorkInv, CopyIsBound, CopyAtWork, MoveAtWork, WorkerKnows, Copying,
     CopySteps, NoParts, Ending, prepared, files, Kept
<1> QED  BY <1>3, <1>6

-----------------------------------------------------------------------------
(* Starting the item and writing the part. *)

LEMMA StartKeeps == TransferInv /\ Start => TransferInv'
<1> SUFFICES ASSUME TransferInv, Start PROVE TransferInv'
  OBVIOUS
<1> USE DEF TransferInv
<1>1. /\ UNCHANGED <<temp, prepared, files, armed>> /\ mode = "idle" /\ mode' = "executing"
      /\ step' = "begin" /\ row.state = "Absent"
      /\ Journal!BeginPlan("batch", {1}, policy, "planned")
  BY DEF Start
<1>2. RowTyped' /\ row'.state = "Prepared" /\ ~row'.temporary /\ ~row'.evidence
  BY <1>1, PlanWrite, RowIsTyped DEF DataInv
<1>3. temp = NoFile /\ disk["copyPart"] = NoFile /\ disk["sidePart"] = NoFile
  BY <1>1 DEF DataInv, PartsAreNamed, Hidden, NoFile
<1>4. DataInv'
  BY <1>1, <1>2, <1>3 DEF DataInv, FileTypes, FilesAreSafe, Kept, Prepared, PartsAreNamed,
     RowTyped, prepared, files, Hidden, NoFile
<1>5. route \in {"Copy", "CrossMove", "Trash", "Replace"}
  BY DEF DataInv, Prepared
<1>6. "orig" \notin trash /\ NoParts /\ ~armed
  BY <1>1, <1>3 DEF DataInv, PartsAreNamed, NoParts, WorkInv, CopyIsBound
<1>7. WorkInv'
  BY <1>1, <1>5, <1>6 DEF WorkInv, CopyIsBound, CopyAtWork, MoveAtWork, WorkerKnows, Copying,
     CopySteps, NoParts, Ending, prepared, files, Kept, StepsOf
<1> QED  BY <1>4, <1>7

LEMMA BeginKeeps == TransferInv /\ Begin => TransferInv'
<1> SUFFICES ASSUME TransferInv, Begin PROVE TransferInv'
  OBVIOUS
<1> USE DEF TransferInv
<1>1. /\ UNCHANGED <<prepared, files, mode, armed>> /\ mode = "executing"
      /\ step = "begin" /\ step' = Following
      /\ IF Copying THEN Journal!RegisterTemporary(1, "Prepared") /\ temp' = "copyPart"
         ELSE Journal!RecordPreparedEvidence(1) /\ temp' = "sidePart"
  BY DEF Begin, Executing, JournalStep, GoTo, Copying
<1>2. /\ RowTyped' /\ row.state = "Prepared" /\ row'.state = "Prepared" /\ row'.temporary
      /\ Copying => row'.evidence = row.evidence
  BY <1>1, RegisterWrite, EvidenceWrite, RowIsTyped
<1>3. disk["copyPart"] = NoFile /\ disk["sidePart"] = NoFile
  BY <1>1 DEF WorkInv, WorkerKnows, NoParts
<1>4. DataInv'
  BY <1>1, <1>2, <1>3 DEF DataInv, FileTypes, FilesAreSafe, Kept, Prepared, PartsAreNamed,
     RowTyped, prepared, files, Hidden, NoFile, Copying, Early
<1>5. route \in {"Copy", "CrossMove", "Trash", "Replace"}
  BY DEF DataInv, Prepared
<1>6. step' = (IF Copying THEN "create" ELSE "aside") /\ step' \in StepsOf[route]
  BY <1>1, <1>5, PathOf DEF Copying, CopySteps, StepsOf
<1>7. WorkInv'
  BY <1>1, <1>3, <1>5, <1>6 DEF WorkInv, CopyIsBound, CopyAtWork, MoveAtWork, WorkerKnows, Copying,
     CopySteps, NoParts, Ending, prepared, files, Kept
<1> QED  BY <1>4, <1>7

LEMMA BeginCancelledKeeps == TransferInv /\ BeginCancelled => TransferInv'
<1> SUFFICES ASSUME TransferInv, BeginCancelled PROVE TransferInv'
  OBVIOUS
<1> USE DEF TransferInv
<1>1. /\ UNCHANGED <<items, temp, prepared, files, mode, armed>> /\ mode = "executing"
      /\ step = "begin" /\ step' = "cancel"
  BY DEF BeginCancelled, Executing, GoTo, journal
<1>4. DataInv'
  BY <1>1 DEF DataInv, FileTypes, FilesAreSafe, Kept, Prepared, PartsAreNamed, row, prepared, files
<1>5. route \in {"Copy", "CrossMove", "Trash", "Replace"}
  BY DEF DataInv, Prepared
<1>6. step' \in StepsOf[route]
  BY <1>1, <1>5 DEF CopySteps, StepsOf
<1>7. WorkInv'
  BY <1>1, <1>5, <1>6 DEF WorkInv, CopyIsBound, CopyAtWork, MoveAtWork, WorkerKnows, Copying,
     CopySteps, NoParts, Ending, prepared, files, Kept
<1> QED  BY <1>4, <1>7

\* The part of a copy is only made and filled while the original is in its place.
LEMMA WritePartKeeps ==
    TransferInv /\ (Create \/ CreateUnbound \/ Write) => TransferInv'
<1> SUFFICES ASSUME TransferInv, Create \/ CreateUnbound \/ Write PROVE TransferInv'
  OBVIOUS
<1> USE DEF TransferInv
<1>1. /\ UNCHANGED <<items, temp, route, policy, trash, gone, mode>> /\ mode = "executing"
      /\ disk["src"] = "orig"
      /\ \/ step = "create" /\ step' = Following /\ armed' = TRUE
            /\ disk' = [disk EXCEPT !["copyPart"] = "partial"]
         \/ step = "create" /\ step' = "keepFailed" /\ armed' = armed
            /\ disk' = [disk EXCEPT !["copyPart"] = "partial"]
         \/ step = "write" /\ step' = Following /\ armed' = armed
            /\ disk' = [disk EXCEPT !["copyPart"] = "copy"]
  BY DEF Create, CreateUnbound, Write, Executing, DiskStep, GoTo, journal, prepared
<1>2. Copying
  BY <1>1 DEF WorkInv, WorkerKnows, StepsOf, Ending, DataInv, Prepared, Copying
<1>3. temp = "copyPart" /\ disk["sidePart"] = NoFile /\ "orig" \notin trash
  BY <1>1, <1>2 DEF WorkInv, CopyAtWork, CopySteps
<1>4. /\ step = "create" => step' \in {"write", "keepFailed"} /\ (armed' => step' = "write" \/ armed)
      /\ step = "write" => step' = "stage" /\ disk'["copyPart"] = "copy"
  BY <1>1, <1>2, PathOf DEF DataInv, FileTypes, Places
<1>5. disk \in [Places -> Contents \cup {NoFile}]
  BY DEF DataInv, FileTypes
<1>6. /\ disk'["src"] = disk["src"] /\ disk'["dst"] = disk["dst"]
      /\ disk'["sidePart"] = disk["sidePart"] /\ disk'["copyPart"] \in {"partial", "copy"}
      /\ disk' \in [Places -> Contents \cup {NoFile}]
  BY <1>1, <1>5 DEF Places, Contents
<1>7. step' \in StepsOf[route]
  BY <1>1, <1>2, <1>4, CopyingSteps DEF CopySteps
<1>8. WorkInv'
  BY <1>1, <1>2, <1>3, <1>4, <1>6, <1>7 DEF WorkInv, CopyIsBound, CopyAtWork, MoveAtWork, WorkerKnows,
     Copying, CopySteps, NoParts, Ending
<1>9. FileTypes' /\ PartsAreNamed' /\ Prepared'
  BY <1>1, <1>3, <1>6 DEF DataInv, FileTypes, Prepared, PartsAreNamed, row, Hidden, NoFile
<1>10. FilesAreSafe'
  BY <1>1, <1>3, <1>6 DEF DataInv, FileTypes, FilesAreSafe, Kept, NoFile
<1> QED  BY <1>8, <1>9, <1>10 DEF DataInv

-----------------------------------------------------------------------------
(* Clearing the destination and filling it. *)

LEMMA ClearKeeps == TransferInv /\ Clear => TransferInv'
<1> SUFFICES ASSUME TransferInv, Clear PROVE TransferInv'
  OBVIOUS
<1> USE DEF TransferInv
<1>1. /\ UNCHANGED <<items, temp, route, policy, gone, mode, armed>> /\ mode = "executing"
      /\ step = "clear" /\ step' = Following
      /\ \/ policy = "Replace" /\ disk["dst"] = "old" /\ trash' = trash \cup {"old"}
            /\ disk' = [disk EXCEPT !["dst"] = NoFile]
         \/ UNCHANGED <<trash, disk>>
  BY DEF Clear, Executing, DiskStep, GoTo, Vacate, journal, prepared
<1>2. route \in {"Copy", "CrossMove", "Replace"}
  BY <1>1 DEF WorkInv, WorkerKnows, StepsOf, Ending, DataInv, Prepared
<1>3. step' = "place" /\ step' \in StepsOf[route]
  BY <1>1, <1>2, PathOf DEF Copying, StepsOf, CopySteps
<1>4. disk \in [Places -> Contents \cup {NoFile}]
  BY DEF DataInv, FileTypes
<1>5. /\ disk'["src"] = disk["src"] /\ disk'["copyPart"] = disk["copyPart"]
      /\ disk'["sidePart"] = disk["sidePart"]
      /\ disk'["dst"] = disk["dst"] \/ (disk["dst"] = "old" /\ disk'["dst"] = NoFile)
      /\ disk' \in [Places -> Contents \cup {NoFile}]
  BY <1>1, <1>4 DEF Places
<1>6. WorkInv'
  BY <1>1, <1>2, <1>3, <1>5 DEF WorkInv, CopyIsBound, CopyAtWork, MoveAtWork, WorkerKnows,
     Copying, CopySteps, NoParts, Ending
<1>7. FileTypes' /\ PartsAreNamed' /\ Prepared'
  BY <1>1, <1>5 DEF DataInv, FileTypes, Prepared, PartsAreNamed, row, Hidden, NoFile
<1>8. FilesAreSafe'
  BY <1>1, <1>5 DEF DataInv, FileTypes, FilesAreSafe, Kept, NoFile
<1> QED  BY <1>6, <1>7, <1>8 DEF DataInv

LEMMA ClearChangedKeeps == TransferInv /\ ClearChanged => TransferInv'
<1> SUFFICES ASSUME TransferInv, ClearChanged PROVE TransferInv'
  OBVIOUS
<1> USE DEF TransferInv
<1>1. CASE Error(0)
  BY <1>1, ErrorKeeps DEF ClearChanged, Executing
<1>2. CASE ~Error(0)
  <2>1. /\ UNCHANGED <<items, temp, prepared, files, mode, armed>> /\ mode = "executing"
        /\ step = "clear" /\ step' = "putBack" /\ route = "Replace"
    BY <1>2 DEF ClearChanged, Executing, GoTo, journal
  <2>2. DataInv'
    BY <2>1 DEF DataInv, FileTypes, FilesAreSafe, Kept, Prepared, PartsAreNamed, row, prepared, files
  <2>3. WorkInv'
    BY <2>1 DEF WorkInv, CopyIsBound, CopyAtWork, MoveAtWork, WorkerKnows, Copying,
       CopySteps, NoParts, Ending, StepsOf, prepared, files, Kept
  <2> QED  BY <2>2, <2>3
<1> QED  BY <1>1, <1>2

\* A file put back leaves its part and finds nobody in its place.
LEMMA ReturnKeepsFiles ==
    ASSUME DataInv, temp = "sidePart", disk["src"] = NoFile, Move("sidePart", "src"),
           UNCHANGED <<items, temp, route, policy, trash, gone, mode>>
    PROVE  DataInv' /\ NoParts'
<1> USE DEF DataInv
<1>1. disk \in [Places -> Contents \cup {NoFile}] /\ disk["sidePart"] \in {"orig", NoFile}
  BY DEF FileTypes
<1>2. /\ disk'["src"] = disk["sidePart"] /\ disk'["dst"] = disk["dst"]
      /\ disk'["copyPart"] = disk["copyPart"] /\ disk'["sidePart"] = NoFile
      /\ disk' \in [Places -> Contents \cup {NoFile}]
  BY <1>1 DEF Move, Places
<1>3. disk["copyPart"] = NoFile
  BY DEF PartsAreNamed, Hidden
<1>4. FileTypes' /\ PartsAreNamed' /\ Prepared'
  BY <1>1, <1>2, <1>3 DEF FileTypes, Prepared, PartsAreNamed, row, Hidden, NoFile
<1>5. FilesAreSafe'
  BY <1>1, <1>2 DEF FileTypes, FilesAreSafe, Kept, NoFile
<1> QED  BY <1>2, <1>3, <1>4, <1>5 DEF NoParts

LEMMA PutBackKeeps == TransferInv /\ PutBack => TransferInv'
<1> SUFFICES ASSUME TransferInv, PutBack PROVE TransferInv'
  OBVIOUS
<1> USE DEF TransferInv
<1>1. CASE Error(0)
  BY <1>1, ErrorKeeps DEF PutBack, Executing
<1>2. CASE ~Error(0)
  <2>1. /\ UNCHANGED <<items, temp, route, policy, trash, gone, mode, armed>> /\ mode = "executing"
        /\ step = "putBack" /\ step' = "giveUp" /\ disk["src"] = NoFile /\ Move("sidePart", "src")
    BY <1>2 DEF PutBack, Executing, GoTo, journal, prepared
  <2>2. route = "Replace"
    BY <2>1 DEF WorkInv, WorkerKnows, StepsOf, CopySteps, Ending, DataInv, Prepared
  <2>3. temp = "sidePart"
    BY <2>1, <2>2 DEF WorkInv, MoveAtWork, Copying
  <2>4. DataInv' /\ NoParts'
    BY <2>1, <2>3, ReturnKeepsFiles
  <2>5. WorkInv'
    BY <2>1, <2>2, <2>4 DEF WorkInv, CopyIsBound, CopyAtWork, MoveAtWork, WorkerKnows, Copying,
       CopySteps, Ending, StepsOf
  <2> QED  BY <2>4, <2>5
<1> QED  BY <1>1, <1>2

\* A row that ends without obligation has nothing left under a hidden name.
LEMMA EndOfRow ==
    ASSUME DataInv, NoParts, RowTyped', row'.state \in Journal!Terminal, ~row'.temporary,
           temp' = NoFile, ~row'.evidence \/ row'.evidence = row.evidence,
           UNCHANGED <<prepared, files>>
    PROVE  DataInv'
<1>1. row'.state \notin Early \cup {"Absent"}
  BY DEF Journal!Terminal, Early
<1> QED
  BY <1>1 DEF DataInv, FileTypes, FilesAreSafe, Kept, Prepared, PartsAreNamed, RowTyped, prepared,
     files, Hidden, NoFile, NoParts

LEMMA EndWrite ==
    ASSUME RowTyped, NEW expected, NEW retain \in BOOLEAN,
           \/ Journal!CompleteItem(1, expected) /\ retain = FALSE
           \/ Journal!FailItem(1, expected, retain)
           \/ Journal!SkipItem(1, expected, retain)
    PROVE  /\ RowTyped' /\ row'.state \in Journal!Terminal
           /\ row.result = "none" /\ row.state = expected
           /\ retain => row.temporary
           /\ row'.temporary <=> retain
           /\ row'.evidence <=> retain /\ row.evidence
           /\ Journal!CompleteItem(1, expected) \/ Journal!FailItem(1, expected, retain)
                 \/ Journal!SkipItem(1, expected, retain)
<1>1. PICK terminal \in Journal!Terminal, counter \in Journal!Counters :
         Journal!FinishItem(1, expected, terminal, counter, retain)
  BY DEF Journal!CompleteItem, Journal!FailItem, Journal!SkipItem, Journal!Terminal,
         Journal!Counters
<1> QED  BY <1>1, FinishWrite

LEMMA GiveUpKeeps == TransferInv /\ GiveUp => TransferInv'
<1> SUFFICES ASSUME TransferInv, GiveUp PROVE TransferInv'
  OBVIOUS
<1> USE DEF TransferInv
<1>1. /\ UNCHANGED <<prepared, files, mode, armed>> /\ mode = "executing" /\ temp' = NoFile
      /\ step = "giveUp" /\ step' = "fail" /\ Journal!FailItem(1, "Staged", FALSE)
  BY DEF GiveUp, Executing, GoTo
<1>2. RowTyped' /\ row'.state \in Journal!Terminal /\ ~row'.temporary /\ ~row'.evidence
  BY <1>1, EndWrite, RowIsTyped
<1>3. ~Copying /\ NoParts
  BY <1>1 DEF WorkInv, WorkerKnows, StepsOf, CopySteps, Ending, DataInv, Prepared, Copying, MoveAtWork
<1>4. DataInv'
  BY <1>1, <1>2, <1>3, EndOfRow
<1>5. WorkInv'
  BY <1>1, <1>3 DEF WorkInv, CopyIsBound, CopyAtWork, MoveAtWork, WorkerKnows, Copying,
     CopySteps, Ending, prepared
<1> QED  BY <1>4, <1>5

\* What is placed leaves its part and finds nobody at the destination.
LEMMA PlaceKeepsFiles ==
    ASSUME DataInv, temp = Staging, disk["dst"] = NoFile, disk[Staging] # "partial",
           Move(Staging, "dst"),
           UNCHANGED <<items, temp, route, policy, trash, gone, mode>>
    PROVE  /\ DataInv' /\ NoParts' /\ disk'["dst"] = disk[Staging]
<1> USE DEF DataInv
<1>1. disk \in [Places -> Contents \cup {NoFile}]
  BY DEF FileTypes
<1>2. CASE route = "Replace"
  <2>1. /\ disk'["src"] = disk["src"] /\ disk'["dst"] = disk["sidePart"]
        /\ disk'["copyPart"] = disk["copyPart"] /\ disk'["sidePart"] = NoFile
        /\ disk' \in [Places -> Contents \cup {NoFile}]
    BY <1>1, <1>2 DEF Move, Places, Staging
  <2>2. disk["copyPart"] = NoFile
    BY <1>2 DEF PartsAreNamed, Hidden, Staging
  <2>3. FileTypes' /\ PartsAreNamed' /\ Prepared'
    BY <1>2, <2>1, <2>2 DEF FileTypes, Prepared, PartsAreNamed, row, Hidden, NoFile, Staging
  <2>4. FilesAreSafe'
    BY <2>1 DEF FileTypes, FilesAreSafe, Kept, NoFile
  <2> QED  BY <1>2, <2>1, <2>2, <2>3, <2>4 DEF NoParts, Staging
<1>3. CASE route # "Replace"
  <2>1. /\ disk'["src"] = disk["src"] /\ disk'["dst"] = disk["copyPart"]
        /\ disk'["sidePart"] = disk["sidePart"] /\ disk'["copyPart"] = NoFile
        /\ disk' \in [Places -> Contents \cup {NoFile}]
    BY <1>1, <1>3 DEF Move, Places, Staging
  <2>2. disk["sidePart"] = NoFile
    BY <1>3 DEF PartsAreNamed, Hidden, Staging
  <2>3. FileTypes' /\ PartsAreNamed' /\ Prepared'
    BY <1>3, <2>1, <2>2 DEF FileTypes, Prepared, PartsAreNamed, row, Hidden, NoFile, Staging
  <2>4. FilesAreSafe'
    BY <2>1 DEF FileTypes, FilesAreSafe, Kept, NoFile
  <2> QED  BY <1>3, <2>1, <2>2, <2>3, <2>4 DEF NoParts, Staging
<1> QED  BY <1>2, <1>3

\* At "place" the row names the complete part that is about to be renamed.
LEMMA AtPlace ==
    ASSUME TransferInv, mode \in {"executing", "recovering"}, step = "place"
    PROVE  /\ temp = Staging /\ disk[Staging] = (IF route = "Replace" THEN "orig" ELSE "copy")
           /\ route \in {"Copy", "CrossMove", "Replace"}
           /\ mode = "recovering" => route = "Copy"
           /\ mode = "executing" /\ Copying => "orig" \notin trash
<1> USE DEF TransferInv
<1>1. CASE mode = "executing"
  <2>1. route \in {"Copy", "CrossMove", "Replace"}
    BY <1>1 DEF WorkInv, WorkerKnows, StepsOf, CopySteps, Ending, DataInv, Prepared
  <2> QED  BY <1>1, <2>1 DEF WorkInv, CopyAtWork, MoveAtWork, Copying, Staging, CopySteps
<1>2. CASE mode = "recovering"
  <2>1. route = "Copy" /\ disk["copyPart"] = "copy"
    BY <1>2 DEF WorkInv, WorkerKnows
  <2> QED  BY <1>2, <2>1 DEF DataInv, PartsAreNamed, Hidden, Staging, NoFile
<1> QED  BY <1>1, <1>2

LEMMA PlaceKeeps == TransferInv /\ Place => TransferInv'
<1> SUFFICES ASSUME TransferInv, Place PROVE TransferInv'
  OBVIOUS
<1> USE DEF TransferInv
<1>1. /\ UNCHANGED <<items, temp, route, policy, trash, gone, mode>> /\ step = "place"
      /\ mode \in {"executing", "recovering"}
      /\ step' = Following /\ armed' = FALSE /\ disk["dst"] = NoFile /\ Move(Staging, "dst")
  BY DEF Place, Working, DiskStep, GoTo, journal, prepared
<1>2. /\ temp = Staging /\ disk[Staging] = (IF route = "Replace" THEN "orig" ELSE "copy")
      /\ route \in {"Copy", "CrossMove", "Replace"}
      /\ mode = "recovering" => route = "Copy"
      /\ mode = "executing" /\ Copying => "orig" \notin trash
  BY <1>1, AtPlace
<1>3. DataInv' /\ NoParts' /\ disk'["dst"] = disk[Staging]
  BY <1>1, <1>2, PlaceKeepsFiles
<1>4. step' = (CASE route = "Copy" -> "metadata" [] route = "CrossMove" -> "compare"
                 [] route = "Replace" -> "apply")
  BY <1>1, <1>2, PathOf
<1>5. step' \in StepsOf[route] \cup Ending
  BY <1>2, <1>4 DEF StepsOf, Ending, CopySteps
<1>6. WorkInv'
  BY <1>1, <1>2, <1>3, <1>4, <1>5 DEF WorkInv, CopyIsBound, CopyAtWork, MoveAtWork, WorkerKnows,
     Copying, CopySteps, Ending, NoParts, Kept
<1> QED  BY <1>3, <1>6

LEMMA RefuseKeeps ==
    ASSUME TransferInv, mode = "recovering", NEW n, NEW why, Refuse(n, why)
    PROVE  TransferInv'
BY ShutdownKeeps, WorkingRow DEF Refuse

LEMMA PlaceOccupiedKeeps == TransferInv /\ PlaceOccupied => TransferInv'
BY ErrorKeeps, RefuseKeeps DEF PlaceOccupied, Executing, Recovering

LEMMA PlaceFailsKeeps == TransferInv /\ PlaceFails => TransferInv'
<1> SUFFICES ASSUME TransferInv, PlaceFails PROVE TransferInv'
  OBVIOUS
<1> USE DEF TransferInv
<1>1. mode = "executing" /\ step = "place"
  BY DEF PlaceFails, Executing
<1>2. CASE Error(1)
  BY <1>1, <1>2, ErrorKeeps
<1>3. CASE route # "Replace" /\ Unstage(1, "fail", "keepFailed")
  <2>1. Copying
    BY <1>1, <1>3, AtPlace DEF Copying
  <2> QED  BY <1>1, <1>3, <2>1, UnstageKeeps
<1>4. CASE /\ disk["dst"] = NoFile /\ Move(Staging, "dst") /\ armed' = FALSE /\ GoTo("fail")
           /\ UNCHANGED <<journal, prepared, trash, gone, told, reviewed, refused>>
  <2>1. UNCHANGED <<items, temp, route, policy, trash, gone, mode>> /\ step' = "fail"
    BY <1>4 DEF GoTo, journal, prepared
  <2>2. DataInv'
    BY <1>1, <1>4, <2>1, AtPlace, PlaceKeepsFiles
  <2>3. WorkInv'
    BY <1>1, <1>4, <2>1 DEF WorkInv, CopyIsBound, CopyAtWork, MoveAtWork, WorkerKnows,
       Copying, CopySteps, Ending
  <2> QED  BY <2>2, <2>3
<1> QED  BY <1>2, <1>3, <1>4 DEF PlaceFails

\* place_verified's refusal ends the row and keeps its temporary.
LEMMA PlaceIdentityChangedKeeps == TransferInv /\ PlaceIdentityChanged => TransferInv'
<1> SUFFICES ASSUME TransferInv, PlaceIdentityChanged PROVE TransferInv'
  OBVIOUS
<1> USE DEF TransferInv
<1>1. /\ UNCHANGED <<temp, prepared, files>> /\ mode' = "closed" /\ step' = "none" /\ ~armed'
      /\ armed' \in BOOLEAN /\ Journal!FailItem(1, "Verified", TRUE)
  BY DEF PlaceIdentityChanged, Shutdown
<1>2. /\ RowTyped' /\ row'.state \in Journal!Terminal /\ row.temporary /\ row'.temporary
      /\ row'.evidence = row.evidence
  <2>1. row.evidence \in BOOLEAN /\ row'.evidence \in BOOLEAN
    BY <1>1, EndWrite, RowIsTyped DEF RowTyped, row, Journal!ItemRow
  <2> QED  BY <1>1, <2>1, EndWrite, RowIsTyped
<1>3. row'.state \notin Early \cup {"Absent"}
  BY <1>2 DEF Journal!Terminal, Early
<1>4. row'.temporary = row.temporary
  BY <1>2, RowIsTyped DEF RowTyped, row, Journal!ItemRow
<1>5. DataInv'
  BY <1>1, <1>2, <1>3, <1>4, RowOnly
<1>6. WorkInv'
  BY <1>1 DEF WorkInv, CopyIsBound, CopyAtWork, MoveAtWork, WorkerKnows
<1> QED  BY <1>5, <1>6

-----------------------------------------------------------------------------
(* Taking the source away. *)

\* The routes that take their source away.
LEMMA AtRemoval ==
    ASSUME TransferInv, mode = "executing", step \in {"compare", "aside", "discard"}
    PROVE  /\ route \in {"CrossMove", "Trash", "Replace"}
           /\ step = "compare" => route = "CrossMove"
           /\ step = "discard" => route # "Replace"
           /\ step \in {"aside", "discard"} => temp = "sidePart"
           /\ step = "aside" => NoParts
           /\ step = "discard" => disk["sidePart"] = "orig" /\ disk["copyPart"] = NoFile
           /\ step \in {"compare", "aside"} => ~Copying \/ disk["sidePart"] = NoFile
<1> USE DEF TransferInv
<1>1. /\ route \in {"CrossMove", "Trash", "Replace"}
      /\ step = "compare" => route = "CrossMove"
      /\ step = "discard" => route # "Replace"
  BY DEF WorkInv, WorkerKnows, StepsOf, CopySteps, Ending, DataInv, Prepared
<1>2. step \in {"aside", "discard"} => temp = "sidePart"
  BY <1>1 DEF WorkInv, CopyAtWork, MoveAtWork, Copying
<1>3. temp = "sidePart" => disk["copyPart"] = NoFile
  BY DEF DataInv, PartsAreNamed, Hidden
<1> QED
  BY <1>1, <1>2, <1>3 DEF WorkInv, CopyAtWork, MoveAtWork, Copying, NoParts

LEMMA CompareKeeps == TransferInv /\ Compare => TransferInv'
<1> SUFFICES ASSUME TransferInv, Compare PROVE TransferInv'
  OBVIOUS
<1> USE DEF TransferInv
<1>1. /\ UNCHANGED <<prepared, files, mode, armed>> /\ mode = "executing"
      /\ step = "compare" /\ step' = Following /\ temp' = "sidePart"
      /\ Journal!RegisterTemporary(1, "Verified")
  BY DEF Compare, Executing, JournalStep, GoTo
<1>2. route = "CrossMove"
  BY <1>1, AtRemoval
<1>3. RowTyped' /\ row'.state = "Verified" /\ row'.temporary
  BY <1>1, RegisterWrite, RowIsTyped
<1>4. disk["copyPart"] = NoFile /\ disk["sidePart"] = NoFile /\ "orig" \notin trash /\ Kept("copy")
  BY <1>1, <1>2 DEF WorkInv, CopyAtWork, Copying
<1>5. DataInv'
  BY <1>1, <1>3, <1>4 DEF DataInv, FileTypes, FilesAreSafe, Kept, Prepared, PartsAreNamed,
     RowTyped, prepared, files, Hidden, NoFile, Early
<1>6. step' = "aside" /\ step' \in StepsOf[route]
  BY <1>1, <1>2, PathOf DEF StepsOf
<1>7. WorkInv'
  BY <1>1, <1>2, <1>4, <1>6 DEF WorkInv, CopyIsBound, CopyAtWork, MoveAtWork, WorkerKnows, Copying,
     CopySteps, NoParts, Ending, prepared, files, Kept
<1> QED  BY <1>5, <1>7

\* Only the original itself is set aside.
LEMMA AsideKeepsFiles ==
    ASSUME TransferInv, mode = "executing", step = "aside", disk["src"] = "orig",
           Move("src", "sidePart"),
           UNCHANGED <<items, temp, route, policy, trash, gone, mode>>
    PROVE  /\ DataInv' /\ disk'["sidePart"] = "orig"
           /\ disk'["copyPart"] = NoFile /\ disk'["dst"] = disk["dst"]
<1> USE DEF TransferInv, DataInv
<1>1. disk \in [Places -> Contents \cup {NoFile}]
  BY DEF FileTypes
<1>2. NoParts /\ temp = "sidePart"
  BY AtRemoval
<1>3. /\ disk'["src"] = NoFile /\ disk'["dst"] = disk["dst"]
      /\ disk'["copyPart"] = disk["copyPart"] /\ disk'["sidePart"] = "orig"
      /\ disk' \in [Places -> Contents \cup {NoFile}]
  BY <1>1 DEF Move, Places
<1>4. FileTypes' /\ PartsAreNamed' /\ Prepared'
  BY <1>2, <1>3 DEF FileTypes, Prepared, PartsAreNamed, row, Hidden, NoFile, NoParts
<1>5. FilesAreSafe'
  BY <1>2, <1>3 DEF FileTypes, FilesAreSafe, Kept, NoFile, NoParts
<1> QED  BY <1>2, <1>3, <1>4, <1>5 DEF NoParts

LEMMA AsideKeeps == TransferInv /\ (Aside \/ AsideUnverified) => TransferInv'
<1> SUFFICES ASSUME TransferInv, Aside \/ AsideUnverified PROVE TransferInv'
  OBVIOUS
<1> USE DEF TransferInv
<1>1. /\ UNCHANGED <<items, temp, route, policy, trash, gone, mode, armed>> /\ mode = "executing"
      /\ step = "aside" /\ step' \in {"fail", Following} /\ disk["src"] = "orig"
      /\ Move("src", "sidePart")
  BY DEF Aside, AsideUnverified, Executing, DiskStep, GoTo, journal, prepared
<1>2. /\ DataInv' /\ disk'["sidePart"] = "orig"
      /\ disk'["copyPart"] = NoFile /\ disk'["dst"] = disk["dst"]
  BY <1>1, AsideKeepsFiles
<1>3. route \in {"CrossMove", "Trash", "Replace"} /\ temp = "sidePart"
  BY <1>1, AtRemoval
<1>4. route = "CrossMove" => Kept("copy") /\ "orig" \notin trash /\ disk["copyPart"] = NoFile
  BY <1>1 DEF WorkInv, CopyAtWork, Copying
<1>5. Following = (IF route = "CrossMove" THEN "discard" ELSE "stage")
  BY <1>1, <1>3, PathOf
<1>6. step' \in StepsOf[route] \cup {"fail"}
  BY <1>1, <1>3, <1>5 DEF StepsOf
<1>7. route = "CrossMove" => Kept("copy")'
  BY <1>1, <1>2, <1>4 DEF Kept, DataInv, FileTypes, NoFile
<1>8. WorkInv'
  BY <1>1, <1>2, <1>3, <1>4, <1>5, <1>6, <1>7 DEF WorkInv, CopyIsBound, CopyAtWork, MoveAtWork,
     WorkerKnows, Copying, CopySteps, Ending
<1> QED  BY <1>2, <1>8

LEMMA RemovalChangedKeeps ==
    TransferInv /\ (CompareChanged \/ AsideChanged) => TransferInv'
<1>1. TransferInv /\ CompareChanged => TransferInv'
  BY AtRemoval, CompensateKeeps DEF CompareChanged, Executing
<1>2. TransferInv /\ AsideChanged => TransferInv'
  BY ErrorKeeps, CompensateKeeps DEF AsideChanged, Executing
<1> QED  BY <1>1, <1>2

LEMMA DiscardKeeps == TransferInv /\ Discard => TransferInv'
<1> SUFFICES ASSUME TransferInv, Discard PROVE TransferInv'
  OBVIOUS
<1> USE DEF TransferInv
<1>1. /\ UNCHANGED <<items, temp, route, policy, gone, mode, armed>> /\ mode = "executing"
      /\ step = "discard" /\ step' \in {"fail", Following}
      /\ trash' = trash \cup {"orig"} /\ disk' = [disk EXCEPT !["sidePart"] = NoFile]
  BY DEF Discard, Executing, DiskStep, GoTo, Vacate, journal, prepared
<1>2. /\ route \in {"CrossMove", "Trash"} /\ temp = "sidePart"
      /\ disk["sidePart"] = "orig" /\ disk["copyPart"] = NoFile
  BY <1>1, AtRemoval
<1>3. disk \in [Places -> Contents \cup {NoFile}]
  BY DEF DataInv, FileTypes
<1>4. /\ disk'["src"] = disk["src"] /\ disk'["dst"] = disk["dst"]
      /\ disk'["copyPart"] = NoFile /\ disk'["sidePart"] = NoFile
      /\ disk' \in [Places -> Contents \cup {NoFile}]
  BY <1>1, <1>2, <1>3 DEF Places
<1>5. route = "CrossMove" => Kept("copy")
  BY <1>1 DEF WorkInv, CopyAtWork, Copying
<1>6. FileTypes' /\ PartsAreNamed' /\ Prepared'
  BY <1>1, <1>2, <1>4, WorkingRow DEF DataInv, FileTypes, Prepared, PartsAreNamed, row, Hidden, NoFile
<1>7. FilesAreSafe'
  BY <1>1, <1>2, <1>4, <1>5 DEF DataInv, FileTypes, FilesAreSafe, Kept, NoFile
<1>8. Following = (IF route = "Trash" THEN "apply" ELSE "metadata")
  BY <1>1, <1>2, PathOf
<1>9. step' \in StepsOf[route] \cup Ending \cup {"fail"}
  BY <1>1, <1>2, <1>8 DEF StepsOf, Ending
<1>10. WorkInv'
  BY <1>1, <1>2, <1>4, <1>8, <1>9 DEF WorkInv, CopyIsBound, CopyAtWork, MoveAtWork,
     WorkerKnows, Copying, CopySteps, Ending, NoParts
<1> QED  BY <1>6, <1>7, <1>10 DEF DataInv

LEMMA StepFailsKeeps == TransferInv /\ StepFails => TransferInv'
BY ErrorKeeps, CompensateKeeps DEF StepFails

-----------------------------------------------------------------------------
(* Ending the item. *)

LEMMA CompleteKeeps == TransferInv /\ Complete => TransferInv'
<1> SUFFICES ASSUME TransferInv, Complete PROVE TransferInv'
  OBVIOUS
<1> USE DEF TransferInv
<1>1. /\ UNCHANGED <<prepared, files, mode, armed>> /\ mode \in {"executing", "recovering"}
      /\ temp' = NoFile
      /\ step = "complete" /\ step' = Following /\ Journal!CompleteItem(1, "IndexSynced")
  BY DEF Complete, Working, GoTo
<1>2. RowTyped' /\ row'.state \in Journal!Terminal /\ ~row'.temporary /\ ~row'.evidence
  BY <1>1, EndWrite, RowIsTyped
<1>3. NoParts /\ route \in {"Copy", "CrossMove", "Trash", "Replace"}
  BY <1>1 DEF WorkInv, WorkerKnows, Ending, DataInv, Prepared
<1>4. DataInv'
  BY <1>1, <1>2, <1>3, EndOfRow
<1>5. step' = "close"
  BY <1>1, <1>3, PathOf
<1>6. WorkInv'
  BY <1>1, <1>3, <1>5 DEF WorkInv, CopyIsBound, CopyAtWork, MoveAtWork, WorkerKnows,
     CopySteps, Ending, prepared
<1> QED  BY <1>4, <1>6

\* mark_failed only gives up a row whose part is empty.
LEMMA UntouchedHasNoParts == TransferInv /\ Untouched => NoParts
<1> SUFFICES ASSUME TransferInv, Untouched PROVE NoParts
  OBVIOUS
<1>1. temp \in Hidden \cup {NoFile} /\ (temp = NoFile \/ disk[temp] = NoFile)
  BY DEF TransferInv, DataInv, PartsAreNamed, Untouched
<1>2. \A p \in Hidden : disk[p] # NoFile => temp = p
  BY DEF TransferInv, DataInv, PartsAreNamed
<1> QED  BY <1>1, <1>2 DEF NoParts, Hidden, NoFile

LEMMA MarkFailedKeeps == TransferInv /\ MarkFailed => TransferInv'
<1> SUFFICES ASSUME TransferInv, MarkFailed PROVE TransferInv'
  OBVIOUS
<1> USE DEF TransferInv
<1>1. /\ UNCHANGED <<prepared, files, mode, armed>> /\ mode = "executing"
      /\ step = "fail" /\ step' = "close"
      /\ IF Untouched THEN Journal!FailItem(1, row.state, FALSE) /\ temp' = NoFile
                      ELSE UNCHANGED <<items, temp>>
  BY DEF MarkFailed, Executing, GoTo, journal
<1>2. ASSUME Untouched PROVE DataInv'
  <2>1. RowTyped' /\ row'.state \in Journal!Terminal /\ ~row'.temporary /\ ~row'.evidence
    BY <1>1, <1>2, EndWrite, RowIsTyped
  <2> QED  BY <1>1, <1>2, <2>1, UntouchedHasNoParts, EndOfRow
<1>3. ASSUME ~Untouched PROVE DataInv'
  BY <1>1, <1>3 DEF DataInv, FileTypes, FilesAreSafe, Kept, Prepared, PartsAreNamed, row,
     prepared, files
<1>4. ~armed
  BY <1>1 DEF WorkInv, CopyIsBound
<1>5. WorkInv'
  BY <1>1, <1>4 DEF WorkInv, CopyIsBound, CopyAtWork, MoveAtWork, WorkerKnows,
     CopySteps, Ending, prepared
<1>6. DataInv'
  BY <1>2, <1>3
<1> QED  BY <1>5, <1>6

LEMMA MarkCancelledKeeps == TransferInv /\ MarkCancelled => TransferInv'
<1> SUFFICES ASSUME TransferInv, MarkCancelled PROVE TransferInv'
  OBVIOUS
<1> USE DEF TransferInv
<1>1. /\ UNCHANGED <<prepared, files, mode, armed>> /\ mode = "executing"
      /\ step = "cancel" /\ step' = "close"
      /\ Journal!SkipItem(1, row.state, FALSE) /\ temp' = NoFile
  BY DEF MarkCancelled, Executing, GoTo
<1>2. RowTyped' /\ row'.state \in Journal!Terminal /\ ~row'.temporary /\ ~row'.evidence
  BY <1>1, EndWrite, RowIsTyped
<1>3. NoParts /\ ~armed
  BY <1>1 DEF WorkInv, WorkerKnows, CopyIsBound
<1>4. DataInv'
  BY <1>1, <1>2, <1>3, EndOfRow
<1>5. WorkInv'
  BY <1>1, <1>3 DEF WorkInv, CopyIsBound, CopyAtWork, MoveAtWork, WorkerKnows,
     CopySteps, Ending, prepared
<1> QED  BY <1>4, <1>5

\* A row that ends with an obligation goes on naming its part.
LEMMA RetainingEnd ==
    ASSUME DataInv, NEW expected,
           Journal!FailItem(1, expected, TRUE) \/ Journal!SkipItem(1, expected, TRUE),
           UNCHANGED <<temp, prepared, files>>
    PROVE  DataInv'
<1>1. RowTyped
  BY DEF DataInv, PartsAreNamed, RowTyped
<1>2. /\ RowTyped' /\ row'.state \in Journal!Terminal /\ row.temporary /\ row'.temporary
  BY <1>1, EndWrite
<1>3. row'.state \notin Early \cup {"Absent"}
  BY <1>2 DEF Journal!Terminal, Early
<1>4. row'.temporary = row.temporary
  BY <1>1, <1>2 DEF RowTyped, row, Journal!ItemRow
<1> QED  BY <1>2, <1>3, <1>4, RowOnly

LEMMA SettleKeeps == TransferInv /\ SettleRecoveryRequired => TransferInv'
<1> SUFFICES ASSUME TransferInv, SettleRecoveryRequired PROVE TransferInv'
  OBVIOUS
<1> USE DEF TransferInv
<1>1. /\ UNCHANGED <<temp, prepared, files, mode, armed>> /\ mode = "executing"
      /\ step \in {"keepCancelled", "keepFailed"} /\ step' = "close"
      /\ Journal!FailItem(1, row.state, TRUE) \/ Journal!SkipItem(1, row.state, TRUE)
  BY DEF SettleRecoveryRequired, Executing, GoTo
<1>2. DataInv'
  BY <1>1, RetainingEnd
<1>3. WorkInv'
  BY <1>1 DEF WorkInv, CopyIsBound, CopyAtWork, MoveAtWork, WorkerKnows,
     CopySteps, Ending, prepared
<1> QED  BY <1>2, <1>3

LEMMA CloseBatchKeeps == TransferInv /\ CloseBatch => TransferInv'
<1> SUFFICES ASSUME TransferInv, CloseBatch PROVE TransferInv'
  OBVIOUS
<1> USE DEF TransferInv
<1>1. /\ UNCHANGED <<items, temp, prepared, files, armed>> /\ mode \in {"executing", "recovering"}
      /\ mode' = "idle" /\ step' = "none" /\ step = "close"
  BY DEF CloseBatch, Working, Journal!FinishBatch
<1>2. row.state # "Absent" /\ ~armed
  BY <1>1, WorkingRow DEF WorkInv, CopyIsBound
<1>3. DataInv'
  BY <1>1, <1>2 DEF DataInv, FileTypes, FilesAreSafe, Kept, Prepared, PartsAreNamed, row,
     prepared, files
<1>4. WorkInv'
  BY <1>1, <1>2 DEF WorkInv, CopyIsBound, CopyAtWork, MoveAtWork, WorkerKnows
<1> QED  BY <1>3, <1>4

-----------------------------------------------------------------------------
(* Recovery. *)

\* A place that recovery finds empty is empty, and one it takes for the content holds it.
LEMMA StatusMeans ==
    ASSUME FileTypes, temp \in Hidden \cup {NoFile}, NEW p \in {"src", "dst", temp}
    PROVE  /\ Status(p) \in {"Missing", "Match", "Conflict"}
           /\ Status(p) = "Missing" <=> p = NoFile \/ disk[p] = NoFile
           /\ Status(p) = "Match" => p # NoFile /\ disk[p] \in {"orig", "copy", "foreign"}
BY DEF Status, Same, FileTypes, NoFile, Hidden

\* A part is empty when the registered one is.
LEMMA EmptyTemporary ==
    ASSUME DataInv, temp = NoFile \/ disk[temp] = NoFile
    PROVE  NoParts
BY DEF DataInv, PartsAreNamed, NoParts, Hidden, NoFile

\* The step that finish_from gives for a row with its content in place.
LEMMA FinishFromState ==
    ASSUME RowTyped, row.state \notin Early \cup {"Absent"}
    PROVE  /\ FinishFrom \in {"verify", "close"} \cup Ending
           /\ row.state \in Journal!AppliedStates => FinishFrom # "close"
<1>1. row.state \in {"FsApplied", "Verified", "MetaCommitted", "IndexSynced", "Completed", "Failed"}
  BY DEF RowTyped, row, Journal!ItemRow, Early, Journal!LiveStates, Journal!Terminal
<1> QED  BY <1>1 DEF FinishFrom, Ending, Journal!Terminal, Journal!AppliedStates

\* Every decision of recovery fits the files: a row is only failed, finished or resolved
\* when its part is empty, and a part is only placed or put back when it is registered.
Fits(d) ==
    /\ d \in {"review", "fail", "resolve", "restore", "apply", "verify", "place", "close"} \cup Ending
    /\ d \in {"fail", "resolve", "apply"} \cup Ending => NoParts
    /\ d = "verify" /\ route # "Copy" => NoParts
    /\ d \in {"verify", "place"} /\ route = "Copy" =>
          disk["sidePart"] = NoFile /\ disk["copyPart"] # "partial"
    /\ d = "place" => route = "Copy" /\ disk["copyPart"] = "copy"
    /\ d = "apply" => ~Copying
    /\ d = "restore" => temp = "sidePart"

LEMMA CopyDecisionFits ==
    ASSUME DataInv, row.state # "Absent", route = "Copy" PROVE Fits(RecoverCopy)
<1> USE DEF DataInv
<1>1. CASE temp # "copyPart"
  BY <1>1 DEF RecoverCopy, Fits, Ending
<1>2. CASE temp = "copyPart"
  <2>1. disk["sidePart"] = NoFile
    BY <1>2 DEF PartsAreNamed, Hidden
  <2>2. disk["copyPart"] = NoFile => NoParts
    BY <2>1 DEF NoParts
  <2>3. CASE row.state \in Early
    <3>1. RecoverCopy = (IF disk["src"] # NoFile /\ disk["copyPart"] = NoFile THEN "fail" ELSE "review")
      BY <1>2, <2>3 DEF RecoverCopy, Early, Journal!Terminal
    <3> QED  BY <2>2, <3>1 DEF Fits, Ending
  <2>4. CASE row.state \in Journal!Terminal
    <3>1. RecoverCopy = (IF disk["copyPart"] = NoFile THEN "resolve" ELSE "review")
      BY <1>2, <2>4 DEF RecoverCopy, Early, Journal!Terminal
    <3> QED  BY <2>2, <3>1 DEF Fits, Ending
  <2>5. CASE row.state \notin Early \cup Journal!Terminal
    <3>1. RecoverCopy = (IF {TempStatus, DestinationStatus} # {"Match", "Missing"} THEN "review"
                         ELSE IF TempStatus = "Missing" THEN FinishFrom
                         ELSE CASE row.state = "FsApplied" -> "verify"
                                [] row.state = "Verified" -> "place"
                                [] OTHER -> "review")
      BY <1>2, <2>5 DEF RecoverCopy
    <3>2. /\ TempStatus = "Missing" => NoParts
          /\ TempStatus = "Match" => disk["copyPart"] = "copy"
      BY <1>2, <2>2, StatusMeans DEF TempStatus, FileTypes, NoFile, PartsAreNamed
    <3>3. CASE TempStatus = "Missing"
      <4>1. FinishFrom \in {"verify", "close"} \cup Ending
        BY <2>5, FinishFromState DEF RowTyped, PartsAreNamed
      <4>2. RecoverCopy \in {"review", FinishFrom}
        BY <3>1, <3>3
      <4> QED  BY <2>1, <3>2, <3>3, <4>1, <4>2 DEF Fits, Ending, NoParts, NoFile
    <3>4. CASE TempStatus = "Match"
      <4>1. RecoverCopy \in {"review", "verify", "place"}
        BY <3>1, <3>4
      <4> QED  BY <2>1, <3>2, <3>4, <4>1 DEF Fits, Ending
    <3>5. CASE TempStatus \notin {"Missing", "Match"}
      <4>1. RecoverCopy = "review"
        BY <3>1, <3>5
      <4> QED  BY <4>1 DEF Fits, Ending
    <3> QED  BY <3>3, <3>4, <3>5
  <2> QED  BY <2>3, <2>4, <2>5
<1> QED  BY <1>1, <1>2

LEMMA TrashDecisionFits ==
    ASSUME DataInv, row.state # "Absent", route = "Trash" PROVE Fits(RecoverTrash)
<1> USE DEF DataInv
<1>1. TempStatus = "Missing" => NoParts
  BY StatusMeans, EmptyTemporary DEF TempStatus, PartsAreNamed
<1>2. row.state \in Journal!AppliedStates => FinishFrom \in {"verify"} \cup Ending
  BY FinishFromState DEF Journal!AppliedStates, Early, RowTyped, PartsAreNamed
<1>3. \/ RecoverTrash = "review"
      \/ RecoverTrash = "restore" /\ temp = "sidePart"
      \/ RecoverTrash \in {"fail", "apply"} /\ TempStatus = "Missing"
      \/ RecoverTrash = FinishFrom /\ row.state \in Journal!AppliedStates /\ TempStatus = "Missing"
  BY DEF RecoverTrash
<1> QED  BY <1>1, <1>2, <1>3 DEF Fits, Ending, Copying

LEMMA ReplaceDecisionFits ==
    ASSUME DataInv, row.state # "Absent", route \in {"Replace", "CrossMove"}
    PROVE  Fits(RecoverReplace)
<1> USE DEF DataInv
<1>1. TempStatus = "Missing" => NoParts
  BY StatusMeans, EmptyTemporary DEF TempStatus, PartsAreNamed
<1>2. row.state \in Journal!AppliedStates => FinishFrom \in {"verify"} \cup Ending
  BY FinishFromState DEF Journal!AppliedStates, Early, RowTyped, PartsAreNamed
<1>3. \/ RecoverReplace = "review"
      \/ RecoverReplace = "restore" /\ temp = "sidePart"
      \/ RecoverReplace \in {"fail", "apply"} /\ TempStatus = "Missing" /\ route = "Replace"
      \/ RecoverReplace = FinishFrom /\ row.state \in Journal!AppliedStates /\ TempStatus = "Missing"
  BY DEF RecoverReplace, OnlyAt
<1> QED  BY <1>1, <1>2, <1>3 DEF Fits, Ending, Copying

LEMMA CrossMoveDecisionFits ==
    ASSUME DataInv, row.state # "Absent", route = "CrossMove"
    PROVE  Fits(RecoverCrossVolumeMove)
<1> USE DEF DataInv
<1>1. TempStatus = "Missing" => NoParts
  BY StatusMeans, EmptyTemporary DEF TempStatus, PartsAreNamed
<1>2. temp # NoFile /\ disk[temp] = NoFile => NoParts
  BY EmptyTemporary
<1>3. row.evidence => FinishFrom \in {"verify", "close"} \cup Ending
  BY FinishFromState DEF RowTyped, PartsAreNamed
<1>4. \/ RecoverCrossVolumeMove = "review"
      \/ RecoverCrossVolumeMove = "fail" /\ (TempStatus = "Missing" \/ (disk[temp] = NoFile /\ temp # NoFile))
      \/ RecoverCrossVolumeMove = FinishFrom /\ row.evidence /\ TempStatus = "Missing"
  BY DEF RecoverCrossVolumeMove, OnlyAt
<1> QED  BY <1>1, <1>2, <1>3, <1>4 DEF Fits, Ending

LEMMA DecisionFits == DataInv /\ row.state # "Absent" => Fits(Decision)
<1> SUFFICES ASSUME DataInv, row.state # "Absent" PROVE Fits(Decision)
  OBVIOUS
<1>1. CASE route = "Copy"
  <2>1. Decision = RecoverCopy
    BY <1>1 DEF Decision
  <2> QED  BY <1>1, <2>1, CopyDecisionFits
<1>2. CASE route = "Trash"
  <2>1. Decision = RecoverTrash
    BY <1>2 DEF Decision
  <2> QED  BY <1>2, <2>1, TrashDecisionFits
<1>3. CASE route = "Replace"
  <2>1. policy = "Replace"
    BY <1>3 DEF DataInv, Prepared
  <2>2. Decision = RecoverReplace
    BY <1>3, <2>1 DEF Decision
  <2> QED  BY <1>3, <2>2, ReplaceDecisionFits
<1>4. CASE route = "CrossMove"
  <2>1. Decision = IF policy = "Replace" THEN RecoverReplace ELSE RecoverCrossVolumeMove
    BY <1>4 DEF Decision
  <2>2. CASE policy = "Replace"
    BY <1>4, <2>1, <2>2, ReplaceDecisionFits
  <2>3. CASE policy # "Replace"
    BY <1>4, <2>1, <2>3, CrossMoveDecisionFits
  <2> QED  BY <2>2, <2>3
<1> QED  BY <1>1, <1>2, <1>3, <1>4 DEF DataInv, Prepared

LEMMA SameData ==
    ASSUME DataInv, row.state # "Absent", UNCHANGED <<items, temp, prepared, files>>
    PROVE  DataInv'
BY DEF DataInv, FileTypes, FilesAreSafe, Kept, Prepared, PartsAreNamed, row, prepared, files

LEMMA ChooseKeeps == TransferInv /\ Choose => TransferInv'
<1> SUFFICES ASSUME TransferInv, Choose PROVE TransferInv'
  OBVIOUS
<1> USE DEF TransferInv
<1>1. /\ UNCHANGED <<items, temp, prepared, files, mode, armed>> /\ mode = "recovering"
      /\ step' = (IF Decision = "review" THEN "close" ELSE Decision)
  BY DEF Choose, Recovering, journal
<1>2. row.state # "Absent"
  BY <1>1, WorkingRow
<1>3. DataInv'
  BY <1>1, <1>2, SameData
<1>4. Fits(Decision)
  BY <1>2, DecisionFits
<1> DEFINE d == Decision
<1> HIDE DEF d
<1>5. Fits(d) /\ step' = (IF d = "review" THEN "close" ELSE d)
  BY <1>1, <1>4 DEF d
<1>6. WorkInv'
  BY <1>1, <1>5 DEF WorkInv, CopyIsBound, CopyAtWork, MoveAtWork, WorkerKnows, Fits, Ending,
     NoParts, Copying, prepared, files
<1> QED  BY <1>3, <1>6

LEMMA OpenKeeps == TransferInv /\ Open => TransferInv'
<1> SUFFICES ASSUME TransferInv, Open PROVE TransferInv'
  OBVIOUS
<1> USE DEF TransferInv
<1>1. /\ UNCHANGED <<items, temp, prepared, files, armed>> /\ mode = "closed"
      /\ \/ mode' = "recovering" /\ step' = "choose"
         \/ mode' = "idle" /\ step' = "none"
  BY DEF Open, journal
<1>2. row.state # "Absent" /\ ~armed
  BY <1>1, WorkingRow DEF WorkInv, CopyIsBound
<1>3. DataInv'
  BY <1>1, <1>2, SameData
<1>4. WorkInv'
  BY <1>1, <1>2 DEF WorkInv, CopyIsBound, CopyAtWork, MoveAtWork, WorkerKnows, Ending
<1> QED  BY <1>3, <1>4

\* A row that recovery fails or resolves has an empty part.
LEMMA RecoverEndKeeps == TransferInv /\ (RecoverFail \/ Resolve) => TransferInv'
<1> SUFFICES ASSUME TransferInv, RecoverFail \/ Resolve PROVE TransferInv'
  OBVIOUS
<1> USE DEF TransferInv
<1>1. CASE Refuse(0, "journal")
  BY <1>1, RefuseKeeps DEF RecoverFail, Resolve, Recovering
<1>2. CASE ~Refuse(0, "journal")
  <2>1. /\ UNCHANGED <<prepared, files, mode, armed>> /\ mode = "recovering" /\ temp' = NoFile
        /\ step \in {"fail", "resolve"} /\ step' = "close"
        /\ \/ Journal!FailItem(1, row.state, FALSE)
           \/ Journal!ResolveRecoveryObligation(1, row.state)
    BY <1>2 DEF RecoverFail, Resolve, Recovering, GoTo
  <2>2. RowTyped' /\ row'.state \in Journal!Terminal /\ ~row'.temporary /\ ~row'.evidence
    BY <2>1, EndWrite, ResolveWrite, RowIsTyped
  <2>3. NoParts
    BY <2>1 DEF WorkInv, WorkerKnows
  <2>4. DataInv'
    BY <2>1, <2>2, <2>3, EndOfRow
  <2>5. WorkInv'
    BY <2>1 DEF WorkInv, CopyIsBound, CopyAtWork, MoveAtWork, WorkerKnows, Ending
  <2> QED  BY <2>4, <2>5
<1> QED  BY <1>1, <1>2

LEMMA RestoreKeeps == TransferInv /\ Restore => TransferInv'
<1> SUFFICES ASSUME TransferInv, Restore PROVE TransferInv'
  OBVIOUS
<1> USE DEF TransferInv
<1>1. CASE Refuse(0, "io")
  BY <1>1, RefuseKeeps DEF Restore, Recovering
<1>2. CASE ~Refuse(0, "io")
  <2>1. /\ UNCHANGED <<items, temp, route, policy, trash, gone, mode, armed>>
        /\ mode = "recovering" /\ step = "restore" /\ step' = "fail"
        /\ disk["src"] = NoFile /\ Move("sidePart", "src")
    BY <1>2 DEF Restore, Recovering, GoTo, journal, prepared
  <2>2. temp = "sidePart"
    BY <2>1 DEF WorkInv, WorkerKnows
  <2>3. DataInv' /\ NoParts'
    BY <2>1, <2>2, ReturnKeepsFiles
  <2>4. WorkInv'
    BY <2>1, <2>3 DEF WorkInv, CopyIsBound, CopyAtWork, MoveAtWork, WorkerKnows, Ending
  <2> QED  BY <2>3, <2>4
<1> QED  BY <1>1, <1>2

-----------------------------------------------------------------------------
(* What happens around the program. *)

\* Another application only adds its own file, and a file it takes is remembered.
LEMMA InterfereKeeps == TransferInv /\ Interfere => TransferInv'
<1> SUFFICES ASSUME TransferInv, Interfere PROVE TransferInv'
  OBVIOUS
<1> USE DEF TransferInv
<1>1. UNCHANGED <<items, temp, route, policy, trash, mode, step, armed>>
  BY DEF Interfere, journal, prepared, control
<1>2. disk \in [Places -> Contents \cup {NoFile}]
  BY DEF DataInv, FileTypes
<1>3. ASSUME NEW p \in {"src", "dst"}, Appear(p) PROVE TransferInv'
  <2>1. /\ disk[p] = NoFile /\ disk'[p] = "foreign" /\ gone' = gone
        /\ \A q \in Places \ {p} : disk'[q] = disk[q]
        /\ disk' \in [Places -> Contents \cup {NoFile}]
    BY <1>2, <1>3 DEF Appear, Places, Contents
  <2>2. /\ disk'["copyPart"] = disk["copyPart"] /\ disk'["sidePart"] = disk["sidePart"]
        /\ disk'["src"] = disk["src"] \/ (disk["src"] = NoFile /\ disk'["src"] = "foreign")
        /\ disk'["dst"] = disk["dst"] \/ (disk["dst"] = NoFile /\ disk'["dst"] = "foreign")
    BY <2>1 DEF Places
  <2>3. FileTypes' /\ PartsAreNamed' /\ Prepared'
    BY <1>1, <2>1, <2>2 DEF DataInv, FileTypes, Prepared, PartsAreNamed, row, Hidden
  <2>4. FilesAreSafe' /\ (Kept("copy") => Kept("copy")')
    BY <1>1, <2>1, <2>2 DEF DataInv, FileTypes, FilesAreSafe, Kept, NoFile
  <2>5. WorkInv'
    BY <1>1, <2>2, <2>4 DEF WorkInv, CopyIsBound, CopyAtWork, MoveAtWork, WorkerKnows, NoParts,
       Copying
  <2> QED  BY <2>3, <2>4, <2>5 DEF DataInv
<1>4. ASSUME NEW p \in Places, p \in {"src", "dst"} \/ mode = "closed", Take(p) PROVE TransferInv'
  <2>1. /\ disk'[p] = NoFile /\ gone' = gone \cup {disk[p]}
        /\ \A q \in Places \ {p} : disk'[q] = disk[q]
        /\ disk' \in [Places -> Contents \cup {NoFile}]
    BY <1>2, <1>4 DEF Take, Vacate, Places
  <2>2. FileTypes' /\ Prepared'
    BY <1>1, <2>1 DEF DataInv, FileTypes, Prepared, Places, NoFile
  <2>3. PartsAreNamed'
    BY <1>1, <2>1 DEF DataInv, PartsAreNamed, row, Hidden, Places
  <2>4. \A f \in Contents : Kept(f) => Kept(f)'
    BY <2>1 DEF Kept, Places, Contents
  <2>5. FilesAreSafe'
    BY <1>1, <2>4 DEF DataInv, FilesAreSafe, Contents
  <2>6. CASE p \in {"src", "dst"}
    <3>1. disk'["copyPart"] = disk["copyPart"] /\ disk'["sidePart"] = disk["sidePart"]
      BY <2>1, <2>6 DEF Places
    <3>2. WorkInv'
      BY <1>1, <3>1, <2>4 DEF WorkInv, CopyIsBound, CopyAtWork, MoveAtWork, WorkerKnows, NoParts,
         Copying, Contents
    <3> QED  BY <2>2, <2>3, <2>5, <3>2 DEF DataInv
  <2>7. CASE mode = "closed"
    <3>1. WorkInv'
      BY <1>1, <2>7 DEF WorkInv, CopyIsBound, CopyAtWork, MoveAtWork, WorkerKnows
    <3> QED  BY <2>2, <2>3, <2>5, <3>1 DEF DataInv
  <2> QED  BY <1>4, <2>6, <2>7
<1> QED  BY <1>3, <1>4 DEF Interfere, Hidden, Places

LEMMA StopKeeps == TransferInv /\ (CloseProject \/ Crash) => TransferInv'
BY ShutdownKeeps, WorkingRow DEF CloseProject, Crash

-----------------------------------------------------------------------------
(* The invariant, and what it says of the files. *)

LEMMA TransferInit == Init => TransferInv
<1> SUFFICES ASSUME Init PROVE TransferInv
  OBVIOUS
<1>1. /\ items \in [{1} -> Journal!ItemRow] /\ row.state = "Absent"
      /\ row.temporary = FALSE /\ row.evidence = FALSE
  <2> DEFINE p0 == CHOOSE p \in {"Skip", "Replace"} : TRUE
             d0 == CHOOSE d \in {"planned"} : TRUE
             item == [Journal!NewItem(p0, d0) EXCEPT !.state = "Absent"]
  <2>1. items = [o \in {1} |-> item]
    BY DEF Init, Journal!Init
  <2>2. p0 \in {"Skip", "Replace"} /\ d0 \in {"planned"}
    OBVIOUS
  <2> HIDE DEF p0, d0
  <2>3. Journal!NewItem(p0, d0) \in Journal!ItemRow
    BY <2>2 DEF Journal!NewItem, Journal!ItemRow, Journal!LiveStates
  <2>4. Journal!NewItem(p0, d0).temporary = FALSE /\ Journal!NewItem(p0, d0).evidence = FALSE
    BY DEF Journal!NewItem
  <2>5. /\ item \in Journal!ItemRow /\ item.state = "Absent" /\ item.temporary = FALSE
        /\ item.evidence = FALSE
    BY <2>3, <2>4 DEF Journal!ItemRow
  <2> HIDE DEF item
  <2>6. items[1] = item
    BY <2>1
  <2> QED  BY <2>1, <2>5, <2>6 DEF row
<1>2. Prepared
  BY TransferAssumption DEF Init, Prepared
<1>3. /\ disk \in [Places -> Contents \cup {NoFile}] /\ disk["src"] = "orig"
      /\ disk["dst"] = (IF policy = "Replace" THEN "old" ELSE NoFile)
      /\ disk["copyPart"] = NoFile /\ disk["sidePart"] = NoFile
  BY DEF Init, Places, Contents
<1>4. temp = NoFile /\ trash = {} /\ mode = "idle" /\ step = "none" /\ armed = FALSE
  BY DEF Init
<1>5. FileTypes /\ FilesAreSafe
  BY <1>2, <1>3, <1>4 DEF FileTypes, FilesAreSafe, Kept, NoFile
<1>6. PartsAreNamed
  BY <1>1, <1>3, <1>4 DEF PartsAreNamed, Hidden, NoFile
<1>7. WorkInv
  BY <1>4 DEF WorkInv, CopyIsBound, CopyAtWork, MoveAtWork, WorkerKnows
<1> QED  BY <1>2, <1>5, <1>6, <1>7 DEF TransferInv, DataInv

LEMMA TransferStep == TransferInv /\ [Next]_vars => TransferInv'
<1> SUFFICES ASSUME TransferInv, [Next]_vars PROVE TransferInv'
  OBVIOUS
<1>1. CASE UNCHANGED vars
  BY <1>1 DEF vars, journal, prepared, files, control, bounds, TransferInv, DataInv, WorkInv,
     FileTypes, FilesAreSafe, Kept, Prepared, PartsAreNamed, row, CopyIsBound, CopyAtWork,
     MoveAtWork, WorkerKnows, NoParts, Copying
<1>2. CASE StageContent
  <2>1. BeginChanged \/ CreateChanged => TransferInv'
    BY ErrorKeeps DEF BeginChanged, CreateChanged, Executing
  <2>2. WriteFails \/ WriteCancelled => TransferInv'
    <3>1. mode = "executing" /\ step = "write" => Copying
      BY DEF TransferInv, WorkInv, WorkerKnows, StepsOf, Ending, DataInv, Prepared, Copying
    <3> QED  BY <3>1, UnstageKeeps DEF WriteFails, WriteCancelled, Executing
  <2> QED  BY <1>2, <2>1, <2>2, BeginKeeps, BeginCancelledKeeps, WritePartKeeps, StageKeeps,
              ApplyKeeps, VerifyKeeps DEF StageContent
<1>3. CASE FillDestination
  BY <1>3, ClearKeeps, ClearChangedKeeps, PutBackKeeps, GiveUpKeeps, PlaceKeeps,
     PlaceOccupiedKeeps, PlaceFailsKeeps, PlaceIdentityChangedKeeps DEF FillDestination
<1>4. CASE RemoveSource
  BY <1>4, CompareKeeps, AsideKeeps, RemovalChangedKeeps, DiscardKeeps DEF RemoveSource
<1>5. CASE EndItem
  BY <1>5, EndingKeeps, CompleteKeeps, MarkFailedKeeps, MarkCancelledKeeps, SettleKeeps,
     CloseBatchKeeps, StepFailsKeeps DEF EndItem
<1>6. CASE Recover
  BY <1>6, ChooseKeeps, RecoverEndKeeps, RestoreKeeps, RefuseKeeps DEF Recover, RecoverFaults
<1> QED
  BY <1>1, <1>2, <1>3, <1>4, <1>5, <1>6, StartKeeps, OpenKeeps, StopKeeps, InterfereKeeps
     DEF Next, Work

\* In every state of every route, with any number of crashes, errors and changes by other
\* applications, files, row and worker fit together: a hidden part is the one the row
\* names, a copy is complete before it is placed and placed before its source goes.
THEOREM TransferInvariance == Spec => []TransferInv
<1>1. Init => TransferInv
  BY TransferInit
<1>2. TransferInv /\ [Next]_vars => TransferInv'
  BY TransferStep
<1> QED  BY <1>1, <1>2, PTL DEF Spec

LEMMA SomewhereIsKept == \A f : Somewhere(f) <=> Kept(f)
BY DEF Somewhere, Kept, OnDisk, Places

\* The file of the command is never lost: it is on disk, or another application took it,
\* or it is in the Trash for a move to the Trash or with its copy still to be had
\* (execute_copy_route, execute_trash_route, ReplaceExecutor and the recovery of each).
THEOREM SourceAlwaysSurvives == Spec => []SourceSurvives
<1>1. TransferInv => SourceSurvives
  BY SomewhereIsKept DEF TransferInv, DataInv, FilesAreSafe, SourceSurvives
<1> QED  BY <1>1, TransferInvariance, PTL

\* A file under a hidden name is the registered temporary of a row that the next project
\* open will look at (incomplete_items), so no part is left behind unknown.
THEOREM PartsStayTracked == Spec => []HiddenPartIsTracked
<1>1. TransferInv => HiddenPartIsTracked
  <2> SUFFICES ASSUME TransferInv, NEW p \in Hidden, disk[p] # NoFile
               PROVE  temp = p /\ 1 \in Journal!IncompleteItems
    BY DEF HiddenPartIsTracked
  <2>1. temp = p /\ p # NoFile
    BY DEF TransferInv, DataInv, PartsAreNamed, Hidden, NoFile
  <2>2. row.temporary /\ row.state # "Absent"
    BY <2>1 DEF TransferInv, DataInv, PartsAreNamed
  <2>3. 1 \in Journal!IncompleteItems
    BY <2>2 DEF Journal!IncompleteItems, row
  <2> QED  BY <2>1, <2>3
<1> QED  BY <1>1, TransferInvariance, PTL

\* The replaced file goes to the Trash only where the user chose to replace it, and while
\* the file that takes its place is at the source, the registered part or the destination.
THEOREM ReplacedForItsSuccessor == Spec => []ReplacedOnlyForItsSuccessor
<1>1. TransferInv => ReplacedOnlyForItsSuccessor
  <2> SUFFICES ASSUME TransferInv PROVE ReplacedOnlyForItsSuccessor
    OBVIOUS
  <2>1. /\ policy = "Replace" => Somewhere("old") \/ "old" \in trash
        /\ "old" \in trash => policy = "Replace"
    BY SomewhereIsKept DEF TransferInv, DataInv, FilesAreSafe
  <2>2. policy = "Replace" => Kept("orig") \/ Kept("copy")
    BY DEF TransferInv, DataInv, FilesAreSafe, Prepared
  <2>3. \A p \in Hidden : disk[p] # NoFile => temp = p
    BY DEF TransferInv, DataInv, PartsAreNamed
  <2>4. ASSUME NEW f \in {"orig", "copy"}, Kept(f)
        PROVE  f \in gone \/ \E p \in {"src", "dst", temp} \ {NoFile} : disk[p] = f
    BY <2>3, <2>4 DEF Kept, Hidden, NoFile
  <2>5. Kept("orig") \/ Kept("copy") =>
           \/ {"orig", "copy"} \cap gone # {}
           \/ \E p \in {"src", "dst", temp} \ {NoFile} : disk[p] \in {"orig", "copy"}
    BY <2>4
  <2> QED  BY <2>1, <2>2, <2>5 DEF ReplacedOnlyForItsSuccessor
<1> QED  BY <1>1, TransferInvariance, PTL

-----------------------------------------------------------------------------
(* Another application's file stays where it is. *)

\* Every way in which a step of the program changes what is on disk.
FileMove ==
    \/ disk' = disk
    \/ \E c \in Contents \cup {NoFile} : disk' = [disk EXCEPT !["copyPart"] = c]
    \/ disk' = [disk EXCEPT !["sidePart"] = NoFile]
    \/ disk["dst"] \in {"old", "copy"} /\ disk' = [disk EXCEPT !["dst"] = NoFile]
    \/ disk["src"] = NoFile /\ Move("sidePart", "src")
    \/ disk["src"] = "orig" /\ Move("src", "sidePart")
    \/ disk["dst"] = NoFile /\ Move(Staging, "dst")

\* A step of the program.
Moved == outside' = outside /\ FileMove

LEMMA FilesMoved ==
    ASSUME Next PROVE Interfere \/ Moved
<1> USE DEF Charge, GoTo, bounds, files, Vacate, Moved, FileMove
<1>1. CASE Start \/ Open \/ CloseProject \/ Crash
  BY <1>1 DEF Start, Open, CloseProject, Crash
<1>2. ASSUME NEW n, Error(n)
      PROVE  Moved
  BY <1>2 DEF Error
<1>3. ASSUME NEW n, NEW clean, NEW keep, Unstage(n, clean, keep)
      PROVE  Moved
  BY <1>3 DEF Unstage
<1>4. ASSUME NEW n, Compensate(n)
      PROVE  Moved
  BY <1>4 DEF Compensate
<1>5. ASSUME NEW n, NEW why, Refuse(n, why) PROVE Moved
  BY <1>5 DEF Refuse
<1>6. CASE StageContent
  <2>1. Begin \/ BeginCancelled \/ Stage \/ Apply \/ Verify => Moved
    BY DEF Begin, BeginCancelled, Stage, Apply, Verify, JournalStep
  <2>2. Create \/ CreateUnbound \/ Write => Moved
    BY DEF Create, CreateUnbound, Write, DiskStep, Contents
  <2>3. BeginChanged \/ CreateChanged => Error(0)
    BY DEF BeginChanged, CreateChanged
  <2> QED  BY <1>2, <1>3, <1>6, <2>1, <2>2, <2>3 DEF StageContent, WriteFails, WriteCancelled
<1>7. CASE FillDestination
  <2>1. Clear => Moved
    BY DEF Clear, DiskStep
  <2>2. ClearChanged => Error(0) \/ Moved
    BY DEF ClearChanged
  <2>3. PutBack => Error(0) \/ Moved
    BY DEF PutBack, journal
  <2>4. GiveUp \/ PlaceIdentityChanged => Moved
    BY DEF GiveUp, PlaceIdentityChanged
  <2>5. Place => Moved
    BY DEF Place, DiskStep
  <2>6. PlaceOccupied => Error(0) \/ Refuse(0, "io")
    BY DEF PlaceOccupied
  <2>7. PlaceFails => Moved
                      \/ Unstage(1, "fail", "keepFailed") \/ Error(1)
    BY DEF PlaceFails
  <2> QED  BY <1>2, <1>3, <1>5, <1>7, <2>1, <2>2, <2>3, <2>4, <2>5, <2>6, <2>7 DEF FillDestination
<1>8. CASE RemoveSource
  <2>1. Compare => Moved
    BY DEF Compare, JournalStep
  <2>2. CompareChanged \/ AsideChanged => Compensate(0) \/ Error(0)
    BY DEF CompareChanged, AsideChanged
  <2>3. Aside \/ AsideUnverified => Moved
    BY DEF Aside, AsideUnverified, DiskStep
  <2>4. Discard => Moved
    BY DEF Discard, DiskStep
  <2> QED  BY <1>2, <1>4, <1>8, <2>1, <2>2, <2>3, <2>4 DEF RemoveSource
<1>9. CASE EndItem
  <2>1. Metadata \/ Index \/ Complete \/ MarkFailed \/ MarkCancelled \/ SettleRecoveryRequired
           \/ CloseBatch => Moved
    BY DEF Metadata, Index, Complete, MarkFailed, MarkCancelled, SettleRecoveryRequired,
       CloseBatch, JournalStep
  <2>2. StepFails => Compensate(1) \/ Error(1)
    BY DEF StepFails
  <2> QED  BY <1>2, <1>4, <1>9, <2>1, <2>2 DEF EndItem
<1>10. CASE Recover
  <2>1. Choose \/ Resolve => Moved
    BY DEF Choose, Resolve
  <2>2. RecoverFail => Refuse(0, "journal") \/ Moved
    BY DEF RecoverFail
  <2>3. Restore => Refuse(0, "io") \/ Moved
    BY DEF Restore
  <2> QED  BY <1>5, <1>10, <2>1, <2>2, <2>3 DEF Recover, RecoverFaults
<1> QED  BY <1>1, <1>6, <1>7, <1>8, <1>9, <1>10 DEF Next, Work

LEMMA OutsideCounts == outside \in Nat /\ [Next]_vars => outside' \in Nat
<1>1. Interfere => outside' = outside + 1
  BY DEF Interfere
<1> QED  BY <1>1, FilesMoved DEF vars, bounds, Moved

LEMMA ForeignStep ==
    ASSUME TransferInv, outside \in Nat, [Next]_vars, outside' = outside,
           NEW p \in Places, disk[p] = "foreign"
    PROVE  disk'[p] = "foreign"
<1>1. ~Interfere
  BY DEF Interfere
<1>2. FileMove
  BY <1>1, FilesMoved DEF vars, files, Moved, FileMove
<1>3. /\ disk \in [Places -> Contents \cup {NoFile}] /\ p \in {"src", "dst"}
  BY DEF TransferInv, DataInv, FileTypes, Places, NoFile
<1> QED  BY <1>2, <1>3 DEF FileMove, Move, Places, NoFile, Staging

\* Whatever the program does, in a run, an error or a recovery, it never moves, trashes
\* or overwrites a file that another application has put at the source or destination.
THEOREM ForeignAlwaysStays == Spec => ForeignFilesStay
<1>1. TransferInv /\ outside \in Nat /\ [Next]_vars =>
         [outside' = outside => \A p \in Places : disk[p] = "foreign" => disk'[p] = "foreign"]_vars
  BY ForeignStep
<1>2. Init => outside \in Nat
  BY DEF Init
<1>3. outside \in Nat /\ [Next]_vars => (outside \in Nat)'
  BY OutsideCounts
<1>4. Spec => [](outside \in Nat)
  BY <1>2, <1>3, PTL DEF Spec
<1> QED  BY <1>1, <1>4, TransferInvariance, PTL DEF Spec, ForeignFilesStay

-----------------------------------------------------------------------------
(* What is known of results: where the content is when a row ends. *)

\* The original is in one place, and a file that is not copied has no copy.
Originals ==
    /\ disk["src"] = "orig" => disk["dst"] # "orig" /\ disk["sidePart"] # "orig"
    /\ disk["dst"] = "orig" => disk["sidePart"] # "orig" /\ route = "Replace"
    /\ "orig" \in trash \cup gone => "orig" \notin {disk["src"], disk["dst"], disk["sidePart"]}
    /\ disk["dst"] = "copy" => Copying /\ disk["copyPart"] = NoFile

\* The state of the row says how far the content can have come.
RowFitsFiles ==
    /\ row.state \in {"Absent", "Prepared"} => disk["dst"] \notin {"orig", "copy"} /\ "orig" \notin trash
    /\ Copying /\ row.state \in {"Staged", "FsApplied"} => disk["dst"] # "copy"
    /\ row.state \in Journal!AppliedStates => row.evidence
    /\ row.state \in Journal!LiveStates => row.result = "none"

\* What a row may end with: the content has arrived, or it has not left.
Delivered == Arrived /\ Left
Undelivered ==
    {"orig", "foreign"} \cap ({disk["src"]} \cup gone) # {} /\ disk["dst"] \notin {"orig", "copy"}

DeliveredWhenDone ==
    /\ mode = "executing" /\ (step \in Ending \/ (~Copying /\ step \in {"apply", "verify"})) => Delivered
    /\ mode = "recovering" /\ step \in Ending \cup {"apply"} => Delivered
    /\ mode = "recovering" /\ step = "verify" /\ (route # "Copy" \/ disk["copyPart"] = NoFile) => Delivered

UndeliveredWhenEnded ==
    /\ mode = "executing" /\ Copying /\ step \in CopySteps => disk["dst"] # "copy"
    /\ mode = "executing" /\ step \in {"begin", "cancel"} => disk["dst"] # "orig" /\ "orig" \notin trash
    /\ mode = "executing" /\ step = "giveUp" => disk["src"] = "orig" \/ "orig" \in gone
    /\ mode = "recovering" /\ step = "fail" /\ row.state \in Journal!LiveStates => Undelivered
    /\ mode = "recovering" /\ step = "restore" => ~Copying /\ disk["sidePart"] = "orig"

WorkerKnowsTheRow ==
    /\ mode = "executing" =>
          /\ Copying /\ step \in {"clear", "place", "compare", "aside", "discard"} => row.state = "Verified"
          /\ ~Copying /\ step \in {"clear", "place", "putBack", "discard"} => row.state = "Staged"
          /\ step \notin {"fail", "close"} => row.state \in Journal!LiveStates
          /\ step = "fail" => row.result \in {"none", "failed"}
          /\ step # "close" => told = "nothing"
    /\ mode = "recovering" /\ step = "place" => row.state = "Verified"
    /\ mode \in {"recovering", "closed"} \/ row.state = "Absent" => told = "nothing"

ToldWhatIsRecorded == row.result \in Recorded

ResultInv ==
    /\ Originals /\ RowFitsFiles /\ DeliveredWhenDone /\ UndeliveredWhenEnded
    /\ WorkerKnowsTheRow /\ ToldWhatIsRecorded

\* Everything that is known of the transfer.
FullInv == TransferInv /\ ResultInv

LEMMA RowStates ==
    ASSUME TransferInv
    PROVE  /\ row.state \in {"Absent", "Prepared", "Staged", "FsApplied", "Verified", "MetaCommitted",
                             "IndexSynced", "Completed", "Failed"}
           /\ row.result \in {"none", "completed", "failed", "skipped"}
           /\ row.evidence \in BOOLEAN /\ row.temporary \in BOOLEAN
BY DEF TransferInv, DataInv, PartsAreNamed, row, Journal!ItemRow, Journal!LiveStates,
   Journal!Terminal, Journal!Counters

\* What is known of the files alone stays while they do.
LEMMA SameFiles ==
    ASSUME UNCHANGED <<prepared, files>>
    PROVE  /\ Originals => Originals'
           /\ Delivered => Delivered'
           /\ Undelivered => Undelivered'
BY DEF prepared, files, Originals, Delivered, Arrived, Left, Undelivered, Copying, Same

\* Steps that change neither the files nor the row.
LEMMA IdleResults ==
    ASSUME FullInv, UNCHANGED <<items, prepared, files>>,
           \/ CloseProject \/ Crash \/ Open \/ CloseBatch
           \/ mode = "recovering" /\ \E n \in {0, 1} : \E why \in {"io", "journal"} : Refuse(n, why)
    PROVE  ResultInv'
<1> USE DEF FullInv, ResultInv
<1>1. row' = row
  BY DEF row
<1>2. \/ mode' = "closed" /\ told' = "nothing"
      \/ mode = "closed" /\ told' = told /\ mode' = "recovering" /\ step' = "choose"
      \/ told' = told /\ mode' = "idle" /\ (mode = "closed" \/ row.state # "Absent")
  <2>1. CASE CloseProject \/ Crash \/ \E n \in {0, 1} : \E why \in {"io", "journal"} : Refuse(n, why)
    BY <2>1 DEF CloseProject, Crash, Refuse, Shutdown
  <2>2. CASE Open
    BY <2>2 DEF Open
  <2>3. CASE CloseBatch
    BY <2>3, WorkingRow DEF CloseBatch, Working
  <2> QED  BY <2>1, <2>2, <2>3
<1>3. Originals' /\ RowFitsFiles'
  BY <1>1, SameFiles DEF RowFitsFiles, prepared, files, Copying
<1>4. DeliveredWhenDone' /\ UndeliveredWhenEnded'
  BY <1>2 DEF DeliveredWhenDone, UndeliveredWhenEnded, Ending
<1>5. WorkerKnowsTheRow'
  BY <1>1, <1>2 DEF WorkerKnowsTheRow
<1>6. ToldWhatIsRecorded'
  BY <1>1, <1>2 DEF ToldWhatIsRecorded, Recorded
<1> QED  BY <1>3, <1>4, <1>5, <1>6

\* Before anything is placed or taken away, the original is at its source or was taken.
LEMMA OriginalUntouched ==
    ASSUME FullInv, "orig" \notin trash, disk["dst"] # "orig", disk["sidePart"] # "orig"
    PROVE  {"orig", "foreign"} \cap ({disk["src"]} \cup gone) # {}
<1>1. Kept("orig") /\ disk["copyPart"] # "orig"
  BY DEF FullInv, TransferInv, DataInv, FilesAreSafe, FileTypes, NoFile
<1> QED  BY <1>1 DEF Kept

LEMMA StartResults == FullInv /\ Start => ResultInv'
<1> SUFFICES ASSUME FullInv, Start PROVE ResultInv'
  OBVIOUS
<1> USE DEF FullInv, ResultInv
<1>1. /\ UNCHANGED <<prepared, files, told>> /\ mode' = "executing"
      /\ step' = "begin" /\ row.state = "Absent"
      /\ Journal!BeginPlan("batch", {1}, policy, "planned")
  BY DEF Start
<1>2. row'.state = "Prepared" /\ row'.result = "none"
  BY <1>1, PlanWrite, RowIsTyped DEF TransferInv, DataInv
<1>3. disk["dst"] \notin {"orig", "copy"} /\ "orig" \notin trash
  BY <1>1 DEF RowFitsFiles
<1>4. told' = "nothing"
  BY <1>1 DEF WorkerKnowsTheRow
<1>5. Originals' /\ RowFitsFiles'
  BY <1>1, <1>2, <1>3, SameFiles DEF RowFitsFiles, prepared, files, Journal!AppliedStates
<1>6. DeliveredWhenDone' /\ UndeliveredWhenEnded'
  BY <1>1, <1>3 DEF DeliveredWhenDone, UndeliveredWhenEnded, Ending, prepared, files
<1>7. WorkerKnowsTheRow' /\ ToldWhatIsRecorded'
  BY <1>1, <1>2, <1>4 DEF WorkerKnowsTheRow, ToldWhatIsRecorded, Recorded, Journal!LiveStates
<1> QED  BY <1>5, <1>6, <1>7

\* Preparing and staging the row, while the worker is still to place the content.
LEMMA PrepareResults == FullInv /\ (Begin \/ Stage \/ Compare) => ResultInv'
<1> SUFFICES ASSUME FullInv, Begin \/ Stage \/ Compare PROVE ResultInv'
  OBVIOUS
<1> USE DEF FullInv, ResultInv
<1>1. /\ UNCHANGED <<prepared, files, told, mode>> /\ mode = "executing" /\ step' = Following
      /\ \/ step = "begin" /\ Journal!RegisterTemporary(1, "Prepared")
         \/ step = "begin" /\ Journal!RecordPreparedEvidence(1)
         \/ step = "stage" /\ Journal!Advance(1, "Prepared", "Staged")
         \/ step = "compare" /\ Journal!RegisterTemporary(1, "Verified")
  BY DEF Begin, Stage, Compare, Executing, JournalStep, GoTo
<1>2. /\ step \in {"begin", "stage"} => row.state = "Prepared"
      /\ step = "begin" => row'.state = "Prepared"
      /\ step = "stage" => row'.state = "Staged"
      /\ step = "compare" => row.state = "Verified" /\ row'.state = "Verified"
      /\ row'.result = row.result /\ (row.evidence => row'.evidence)
  BY <1>1, RegisterWrite, EvidenceWrite, AdvanceWrite, RowIsTyped, RowStates
<1>3. row.result = "none" /\ told = "nothing"
  BY <1>1, <1>2 DEF RowFitsFiles, Journal!LiveStates, WorkerKnowsTheRow
<1>4. route \in {"Copy", "CrossMove", "Trash", "Replace"} /\ (step = "compare" => route = "CrossMove")
  BY <1>1, AtRemoval DEF TransferInv, DataInv, Prepared
<1>5. /\ step = "begin" => step' = IF Copying THEN "create" ELSE "aside"
      /\ step = "stage" => step' = IF Copying THEN "apply" ELSE IF route = "Trash" THEN "discard" ELSE "clear"
      /\ step = "compare" => step' = "aside"
  BY <1>1, <1>4, PathOf DEF Copying
<1>6. Originals' /\ RowFitsFiles'
  BY <1>1, <1>2, <1>3, SameFiles, RowStates DEF RowFitsFiles, prepared, files, Journal!AppliedStates,
     Copying
<1>7. DeliveredWhenDone' /\ UndeliveredWhenEnded'
  BY <1>1, <1>2, <1>4, <1>5 DEF DeliveredWhenDone, UndeliveredWhenEnded, Ending, prepared, files,
     Copying, CopySteps, RowFitsFiles
<1>8. WorkerKnowsTheRow' /\ ToldWhatIsRecorded'
  BY <1>1, <1>2, <1>3, <1>4, <1>5 DEF WorkerKnowsTheRow, ToldWhatIsRecorded, Recorded,
     Journal!LiveStates, Copying, prepared
<1> QED  BY <1>6, <1>7, <1>8

\* The forward writes of a row whose content is in place.
LEMMA ForwardResults == FullInv /\ (Apply \/ Verify \/ Metadata \/ Index) => ResultInv'
<1> SUFFICES ASSUME FullInv, Apply \/ Verify \/ Metadata \/ Index PROVE ResultInv'
  OBVIOUS
<1> USE DEF FullInv, ResultInv
<1>1. /\ UNCHANGED <<prepared, files, told, mode>> /\ mode \in {"executing", "recovering"}
      /\ step' = Following
      /\ \/ step = "apply" /\ Journal!RecordFsApplied(1)
         \/ step = "verify" /\ Journal!Advance(1, "FsApplied", "Verified")
         \/ step = "metadata" /\ Journal!Advance(1, "Verified", "MetaCommitted")
         \/ step = "index" /\ Journal!Advance(1, "MetaCommitted", "IndexSynced")
  BY DEF Apply, Verify, Metadata, Index, Working, JournalStep, GoTo
<1>2. /\ step = "apply" => row.state = "Staged" /\ row'.state = "FsApplied" /\ row'.evidence
      /\ step = "verify" => row.state = "FsApplied" /\ row'.state = "Verified"
      /\ step = "metadata" => row.state = "Verified" /\ row'.state = "MetaCommitted"
      /\ step = "index" => row.state = "MetaCommitted" /\ row'.state = "IndexSynced"
      /\ row'.result = row.result /\ (row.evidence => row'.evidence)
  BY <1>1, AppliedWrite, AdvanceWrite, RowIsTyped, RowStates
<1>3. row.result = "none" /\ told = "nothing" /\ row'.evidence
  BY <1>1, <1>2 DEF RowFitsFiles, Journal!LiveStates, Journal!AppliedStates, WorkerKnowsTheRow
<1>4. route \in {"Copy", "CrossMove", "Trash", "Replace"}
  BY <1>1 DEF TransferInv, DataInv, Prepared
<1>5. /\ step = "apply" => step' = "verify"
      /\ step = "verify" => \/ step' = "clear" /\ mode = "executing" /\ Copying
                            \/ step' = "metadata" /\ mode = "executing" /\ ~Copying
                            \/ step' = "place" /\ mode = "recovering" /\ route = "Copy"
                            \/ step' = "metadata" /\ mode = "recovering"
                               /\ ~(route = "Copy" /\ disk["copyPart"] # NoFile)
      /\ step = "metadata" => step' = "index"
      /\ step = "index" => step' = "complete"
  <2>1. CASE mode = "recovering" /\ step = "verify"
    BY <1>1, <2>1 DEF Following
  <2>2. CASE ~(mode = "recovering" /\ step = "verify")
    BY <1>1, <1>4, <2>2, PathOf DEF Copying
  <2> QED  BY <2>1, <2>2
<1>6. Originals' /\ RowFitsFiles'
  BY <1>1, <1>2, <1>3, SameFiles, RowStates DEF RowFitsFiles, prepared, files, Journal!AppliedStates,
     Copying
<1>7. DeliveredWhenDone'
  <2>1. mode = "executing" /\ step = "apply" /\ Copying => step' = "verify"
    BY <1>5
  <2>2. Delivered => Delivered'
    BY <1>1 DEF prepared, files, Delivered, Arrived, Left, Same
  <2>3. /\ step' \in Ending /\ mode = "executing" =>
               Delivered
        /\ step' = "verify" /\ mode = "executing" /\ ~Copying => Delivered
        /\ step' \in Ending /\ mode = "recovering" => Delivered
        /\ step' = "verify" /\ mode = "recovering" => Delivered
    BY <1>1, <1>5 DEF DeliveredWhenDone, Ending
  <2> QED  BY <1>1, <1>5, <2>2, <2>3 DEF DeliveredWhenDone, Ending, Copying, prepared, files
<1>8. UndeliveredWhenEnded'
  BY <1>1, <1>2, <1>4, <1>5 DEF UndeliveredWhenEnded, prepared, files, Copying, CopySteps, RowFitsFiles
<1>9. WorkerKnowsTheRow' /\ ToldWhatIsRecorded'
  BY <1>1, <1>2, <1>3, <1>4, <1>5 DEF WorkerKnowsTheRow, ToldWhatIsRecorded, Recorded,
     Journal!LiveStates, Copying, prepared
<1> QED  BY <1>6, <1>7, <1>8, <1>9

\* What recovery decides agrees with where the content is.
Settles(d) ==
    /\ d \in Ending \cup {"apply"} => Delivered
    /\ d = "verify" /\ (route # "Copy" \/ disk["copyPart"] = NoFile) => Delivered
    /\ d = "fail" /\ row.state \in Journal!LiveStates => Undelivered
    /\ d = "restore" => ~Copying /\ disk["sidePart"] = "orig"
    /\ d = "place" => row.state = "Verified"

\* A destination that matches has the content, and one that is missing has not.
LEMMA DestinationMeans ==
    ASSUME FullInv
    PROVE  /\ DestinationStatus = "Match" => disk["dst"] \in Same
           /\ DestinationStatus = "Missing" => disk["dst"] = NoFile
           /\ SourceStatus = "Match" => disk["src"] \in {"orig", "foreign"}
           /\ SourceStatus = "Missing" => disk["src"] = NoFile
           /\ TempStatus = "Match" /\ temp = "sidePart" => disk["sidePart"] = "orig"
           /\ TempStatus = "Missing" => NoParts
<1> USE DEF FullInv, TransferInv, DataInv
<1>1. temp \in Hidden \cup {NoFile}
  BY DEF PartsAreNamed
<1>2. TempStatus = "Missing" => NoParts
  BY <1>1, StatusMeans, EmptyTemporary DEF TempStatus
<1>3. TempStatus = "Match" /\ temp = "sidePart" => disk["sidePart"] = "orig"
  BY DEF TempStatus, Status, Same, FileTypes, NoFile
<1> QED
  BY <1>2, <1>3 DEF DestinationStatus, SourceStatus, Status, FileTypes, NoFile

LEMMA CopyDecisionSettles ==
    ASSUME FullInv, row.state # "Absent", route = "Copy" PROVE Settles(RecoverCopy)
<1> USE DEF FullInv, ResultInv
<1>0. Left
  BY DEF Left
<1>1. CASE temp # "copyPart"
  BY <1>1 DEF RecoverCopy, Settles, Ending
<1>2. CASE temp = "copyPart"
  <2>1. disk["dst"] # "orig" /\ Copying
    BY DEF Originals, Copying
  <2>2. disk["dst"] \in Same => Delivered
    BY <1>0 DEF Delivered, Arrived
  <2>3. CASE row.state \in Early
    <3>1. RecoverCopy = (IF disk["src"] # NoFile /\ disk["copyPart"] = NoFile THEN "fail" ELSE "review")
      BY <1>2, <2>3 DEF RecoverCopy, Early, Journal!Terminal
    <3>2. disk["src"] # NoFile => Undelivered
      BY <2>1, <2>3 DEF TransferInv, DataInv, FileTypes, Undelivered, RowFitsFiles, Early
    <3> QED  BY <3>1, <3>2 DEF Settles, Ending
  <2>4. CASE row.state \in Journal!Terminal
    <3>1. RecoverCopy \in {"resolve", "review"}
      BY <1>2, <2>4 DEF RecoverCopy, Early, Journal!Terminal
    <3> QED  BY <3>1 DEF Settles, Ending
  <2>5. CASE row.state \notin Early \cup Journal!Terminal
    <3>1. RecoverCopy = (IF {TempStatus, DestinationStatus} # {"Match", "Missing"} THEN "review"
                         ELSE IF TempStatus = "Missing" THEN FinishFrom
                         ELSE CASE row.state = "FsApplied" -> "verify"
                                [] row.state = "Verified" -> "place"
                                [] OTHER -> "review")
      BY <1>2, <2>5 DEF RecoverCopy
    <3>2. CASE RecoverCopy = "review"
      BY <3>2 DEF Settles, Ending
    <3>3. CASE RecoverCopy # "review" /\ TempStatus = "Missing"
      <4>1. DestinationStatus = "Match" /\ RecoverCopy = FinishFrom
        BY <3>1, <3>3
      <4>2. Delivered
        BY <2>2, <4>1, DestinationMeans
      <4>3. FinishFrom \in {"verify", "close"} \cup Ending
        BY <2>5, FinishFromState, RowIsTyped
      <4> QED  BY <4>1, <4>2, <4>3 DEF Settles, Ending
    <3>4. CASE RecoverCopy # "review" /\ TempStatus # "Missing"
      <4>1. TempStatus = "Match"
        BY <3>1, <3>4
      <4>2. disk["copyPart"] # NoFile
        BY <1>2, <4>1 DEF TempStatus, Status
      <4>3. RecoverCopy = "verify" \/ (RecoverCopy = "place" /\ row.state = "Verified")
        BY <3>1, <3>4, <4>1
      <4> QED  BY <4>2, <4>3 DEF Settles, Ending
    <3> QED  BY <3>2, <3>3, <3>4
  <2> QED  BY <2>3, <2>4, <2>5
<1> QED  BY <1>1, <1>2

\* An item found gone from its place and its part has gone to the Trash.
LEMMA TrashDecisionSettles ==
    ASSUME FullInv, row.state # "Absent", route = "Trash" PROVE Settles(RecoverTrash)
<1> USE DEF FullInv, ResultInv
<1>1. disk["dst"] \notin {"orig", "copy"} /\ disk["copyPart"] # "orig" /\ ~Copying
  BY DEF Originals, Copying, TransferInv, DataInv, FileTypes, NoFile
<1>2. SourceStatus = "Missing" /\ TempStatus = "Missing" => Delivered
  <2>1. Kept("orig") \/ "orig" \in trash
    BY DEF TransferInv, DataInv, FilesAreSafe
  <2> QED  BY <1>1, <2>1, DestinationMeans DEF Kept, NoParts, Delivered, Arrived, Left, NoFile
<1>3. SourceStatus = "Match" => Undelivered
  BY <1>1, DestinationMeans DEF Undelivered
<1>4. row.state \in Journal!AppliedStates => FinishFrom \in {"verify"} \cup Ending
  BY FinishFromState, RowIsTyped DEF Journal!AppliedStates, Early
<1>5. \/ RecoverTrash = "review"
      \/ RecoverTrash = "restore" /\ temp = "sidePart" /\ TempStatus = "Match"
      \/ RecoverTrash = "fail" /\ SourceStatus = "Match"
      \/ RecoverTrash = "apply" /\ SourceStatus = "Missing" /\ TempStatus = "Missing"
      \/ /\ RecoverTrash = FinishFrom /\ row.state \in Journal!AppliedStates
         /\ SourceStatus = "Missing" /\ TempStatus = "Missing"
  BY DEF RecoverTrash
<1> QED  BY <1>1, <1>2, <1>3, <1>4, <1>5, DestinationMeans DEF Settles, Ending

\* A file found at the destination and nowhere else has arrived.
LEMMA OnlyAtDestination ==
    ASSUME FullInv, route \in {"Replace", "CrossMove"}, OnlyAt("dst")
    PROVE  Delivered
<1>1. disk["dst"] \in Same /\ disk["src"] = NoFile
  BY DestinationMeans DEF OnlyAt
<1> QED  BY <1>1 DEF Delivered, Arrived, Left, NoFile

LEMMA ReplaceDecisionSettles ==
    ASSUME FullInv, row.state # "Absent", route \in {"Replace", "CrossMove"}
    PROVE  Settles(RecoverReplace)
<1> USE DEF FullInv, ResultInv
<1>1. row.state \in Journal!AppliedStates => FinishFrom \in {"verify"} \cup Ending
  BY FinishFromState, RowIsTyped DEF Journal!AppliedStates, Early
<1>2. \/ RecoverReplace = "review"
      \/ RecoverReplace = "restore" /\ temp = "sidePart" /\ TempStatus = "Match" /\ route = "Replace"
      \/ RecoverReplace = "fail" /\ SourceStatus = "Match" /\ row.state = "Prepared"
      \/ RecoverReplace = "apply" /\ OnlyAt("dst")
      \/ RecoverReplace = FinishFrom /\ row.state \in Journal!AppliedStates /\ OnlyAt("dst")
  BY DEF RecoverReplace
<1>3. SourceStatus = "Match" /\ row.state = "Prepared" => Undelivered
  BY DestinationMeans DEF Undelivered, RowFitsFiles
<1> QED  BY <1>1, <1>2, <1>3, OnlyAtDestination, DestinationMeans DEF Settles, Ending, Copying

LEMMA CrossMoveDecisionSettles ==
    ASSUME FullInv, row.state # "Absent", route = "CrossMove"
    PROVE  Settles(RecoverCrossVolumeMove)
<1> USE DEF FullInv, ResultInv
<1>1. row.evidence => FinishFrom \in {"verify", "close"} \cup Ending
  BY FinishFromState, RowIsTyped DEF TransferInv, DataInv, PartsAreNamed
<1>2. \/ RecoverCrossVolumeMove = "review"
      \/ RecoverCrossVolumeMove = "fail" /\ ~row.evidence /\ disk["src"] # NoFile
      \/ RecoverCrossVolumeMove = "fail" /\ SourceStatus = "Match" /\ DestinationStatus = "Missing"
      \/ RecoverCrossVolumeMove = FinishFrom /\ row.evidence /\ OnlyAt("dst")
  BY DEF RecoverCrossVolumeMove
<1>3. SourceStatus = "Match" /\ DestinationStatus = "Missing" => Undelivered
  BY DestinationMeans DEF Undelivered, NoFile
<1>4. ~row.evidence /\ disk["src"] # NoFile /\ row.state \in Journal!LiveStates => Undelivered
  <2>1. ASSUME ~row.evidence, row.state \in Journal!LiveStates
        PROVE  row.state \in {"Prepared", "Staged"}
    BY <2>1 DEF RowFitsFiles, Journal!LiveStates, Journal!AppliedStates
  <2> QED
    BY <2>1 DEF RowFitsFiles, Undelivered, TransferInv, DataInv, FileTypes, Originals, Copying
<1> QED  BY <1>1, <1>2, <1>3, <1>4, OnlyAtDestination DEF Settles, Ending

LEMMA DecisionSettles == FullInv /\ row.state # "Absent" => Settles(Decision)
<1> SUFFICES ASSUME FullInv, row.state # "Absent" PROVE Settles(Decision)
  OBVIOUS
<1> USE DEF FullInv, TransferInv, DataInv
<1>1. CASE route = "Copy"
  <2>1. Decision = RecoverCopy
    BY <1>1 DEF Decision
  <2> QED  BY <1>1, <2>1, CopyDecisionSettles
<1>2. CASE route = "Trash"
  <2>1. Decision = RecoverTrash
    BY <1>2 DEF Decision
  <2> QED  BY <1>2, <2>1, TrashDecisionSettles
<1>3. CASE route = "Replace"
  <2>1. Decision = RecoverReplace
    BY <1>3 DEF Decision, Prepared
  <2> QED  BY <1>3, <2>1, ReplaceDecisionSettles
<1>4. CASE route = "CrossMove"
  <2>1. Decision = IF policy = "Replace" THEN RecoverReplace ELSE RecoverCrossVolumeMove
    BY <1>4 DEF Decision
  <2>2. CASE policy = "Replace"
    BY <1>4, <2>1, <2>2, ReplaceDecisionSettles
  <2>3. CASE policy # "Replace"
    BY <1>4, <2>1, <2>3, CrossMoveDecisionSettles
  <2> QED  BY <2>2, <2>3
<1> QED  BY <1>1, <1>2, <1>3, <1>4 DEF Prepared

\* Steps that only choose what to do next.
LEMMA ChoiceResults == FullInv /\ (BeginCancelled \/ Choose) => ResultInv'
<1> SUFFICES ASSUME FullInv, BeginCancelled \/ Choose PROVE ResultInv'
  OBVIOUS
<1> USE DEF FullInv, ResultInv
<1>1. /\ UNCHANGED <<items, prepared, files, told, mode>>
      /\ \/ mode = "executing" /\ step = "begin" /\ step' = "cancel"
         \/ /\ mode = "recovering" /\ step = "choose"
            /\ step' = (IF Decision = "review" THEN "close" ELSE Decision)
  BY DEF BeginCancelled, Choose, Executing, Recovering, GoTo, journal
<1>2. row' = row
  BY <1>1 DEF row
<1>3. Originals' /\ RowFitsFiles'
  BY <1>1, <1>2, SameFiles DEF RowFitsFiles, prepared, files, Copying
<1>4. CASE mode = "executing"
  <2>1. step = "begin" /\ step' = "cancel"
    BY <1>1, <1>4
  <2>2. DeliveredWhenDone' /\ UndeliveredWhenEnded'
    BY <1>1, <1>2, <1>4, <2>1 DEF DeliveredWhenDone, UndeliveredWhenEnded, Ending, prepared, files,
       Copying, CopySteps
  <2>3. WorkerKnowsTheRow' /\ ToldWhatIsRecorded'
    BY <1>1, <1>2, <1>4, <2>1 DEF WorkerKnowsTheRow, ToldWhatIsRecorded, Recorded
  <2> QED  BY <1>3, <2>2, <2>3
<1>5. CASE mode = "recovering"
  <2> DEFINE d == Decision
  <2>1. row.state # "Absent" /\ told = "nothing"
    BY <1>5, WorkingRow DEF WorkerKnowsTheRow
  <2>2. Settles(d)
    BY <2>1, DecisionSettles
  <2>3. step' = (IF d = "review" THEN "close" ELSE d)
    BY <1>1, <1>5
  <2> HIDE DEF d
  <2>4. (Delivered => Delivered') /\ (Undelivered => Undelivered')
    BY <1>1 DEF prepared, files, Delivered, Arrived, Left, Undelivered, Same
  <2>5. DeliveredWhenDone'
    BY <1>1, <1>5, <2>2, <2>3, <2>4 DEF DeliveredWhenDone, Settles, Ending, prepared, files
  <2>6. UndeliveredWhenEnded'
    BY <1>1, <1>2, <1>5, <2>2, <2>3, <2>4 DEF UndeliveredWhenEnded, Settles, prepared, files, Copying
  <2>7. WorkerKnowsTheRow' /\ ToldWhatIsRecorded'
    BY <1>1, <1>2, <1>5, <2>1, <2>2, <2>3 DEF WorkerKnowsTheRow, ToldWhatIsRecorded, Recorded, Settles
  <2> QED  BY <1>3, <2>5, <2>6, <2>7
<1> QED  BY <1>1, <1>4, <1>5

\* A row that gets its result gets the one that the files bear out.
EndsRight ==
    row.result = "none" /\ row'.result # "none" =>
        IF row'.result = "completed" THEN Delivered ELSE Undelivered

LEMMA EndKinds ==
    ASSUME RowTyped, NEW expected, NEW retain \in BOOLEAN
    PROVE  /\ Journal!CompleteItem(1, expected) => row'.state = "Completed" /\ row'.result = "completed"
           /\ Journal!FailItem(1, expected, retain) => row'.state = "Failed" /\ row'.result = "failed"
           /\ Journal!SkipItem(1, expected, retain) => row'.state = "Completed" /\ row'.result = "skipped"
<1>1. ASSUME Journal!CompleteItem(1, expected)
      PROVE  row'.state = "Completed" /\ row'.result = "completed"
  <2>1. Journal!FinishItem(1, expected, "Completed", "completed", FALSE)
    BY <1>1 DEF Journal!CompleteItem
  <2> QED  BY <2>1, FinishWrite DEF Journal!Terminal, Journal!Counters
<1>2. ASSUME Journal!FailItem(1, expected, retain)
      PROVE  row'.state = "Failed" /\ row'.result = "failed"
  <2>1. Journal!FinishItem(1, expected, "Failed", "failed", retain)
    BY <1>2 DEF Journal!FailItem
  <2> QED  BY <2>1, FinishWrite DEF Journal!Terminal, Journal!Counters
<1>3. ASSUME Journal!SkipItem(1, expected, retain)
      PROVE  row'.state = "Completed" /\ row'.result = "skipped"
  <2>1. Journal!FinishItem(1, expected, "Completed", "skipped", retain)
    BY <1>3 DEF Journal!SkipItem
  <2> QED  BY <2>1, FinishWrite DEF Journal!Terminal, Journal!Counters
<1> QED  BY <1>1, <1>2, <1>3

\* The files fit a row that has ended.
LEMMA EndedRow ==
    ASSUME FullInv, UNCHANGED <<prepared, files>>, row'.state \in Journal!Terminal
    PROVE  Originals' /\ RowFitsFiles'
<1>1. row'.state \in {"Completed", "Failed"}
  BY DEF Journal!Terminal
<1> QED
  BY <1>1, SameFiles DEF FullInv, ResultInv, RowFitsFiles, Journal!AppliedStates, Journal!LiveStates

LEMMA CompleteResults == FullInv /\ Complete => ResultInv' /\ EndsRight
<1> SUFFICES ASSUME FullInv, Complete PROVE ResultInv' /\ EndsRight
  OBVIOUS
<1> USE DEF FullInv, ResultInv
<1>1. /\ UNCHANGED <<prepared, files, mode>> /\ mode \in {"executing", "recovering"}
      /\ step = "complete" /\ step' = Following /\ Journal!CompleteItem(1, "IndexSynced")
      /\ told' = (IF mode = "executing" THEN "completed" ELSE told)
  BY DEF Complete, Working, GoTo
<1>2. row'.state = "Completed" /\ row'.result = "completed"
  BY <1>1, EndKinds, RowIsTyped
<1>3. step' = "close"
  BY <1>1, PathOf DEF TransferInv, DataInv, Prepared
<1>4. Delivered
  BY <1>1 DEF DeliveredWhenDone, Ending
<1>5. Originals' /\ RowFitsFiles'
  BY <1>1, <1>2, EndedRow DEF Journal!Terminal
<1>6. DeliveredWhenDone' /\ UndeliveredWhenEnded'
  BY <1>3 DEF DeliveredWhenDone, UndeliveredWhenEnded, Ending, CopySteps
<1>7. mode = "recovering" => told = "nothing"
  BY DEF WorkerKnowsTheRow
<1>8. WorkerKnowsTheRow' /\ ToldWhatIsRecorded'
  BY <1>1, <1>2, <1>3, <1>7 DEF WorkerKnowsTheRow, ToldWhatIsRecorded, Recorded
<1> QED  BY <1>2, <1>4, <1>5, <1>6, <1>8 DEF EndsRight

LEMMA GiveUpResults == FullInv /\ GiveUp => ResultInv' /\ EndsRight
<1> SUFFICES ASSUME FullInv, GiveUp PROVE ResultInv' /\ EndsRight
  OBVIOUS
<1> USE DEF FullInv, ResultInv
<1>1. /\ UNCHANGED <<prepared, files, mode, told>> /\ mode = "executing"
      /\ step = "giveUp" /\ step' = "fail" /\ Journal!FailItem(1, "Staged", FALSE)
  BY DEF GiveUp, Executing, GoTo
<1>2. row'.state = "Failed" /\ row'.result = "failed"
  BY <1>1, EndKinds, RowIsTyped
<1>3. disk["src"] = "orig" \/ "orig" \in gone
  BY <1>1 DEF UndeliveredWhenEnded
<1>4. ~Copying
  BY <1>1 DEF TransferInv, WorkInv, WorkerKnows, StepsOf, CopySteps, Ending, DataInv, Prepared, Copying
<1>5. Undelivered
  BY <1>3, <1>4 DEF Undelivered, Originals
<1>6. Originals' /\ RowFitsFiles'
  BY <1>1, <1>2, EndedRow DEF Journal!Terminal
<1>7. DeliveredWhenDone' /\ UndeliveredWhenEnded'
  BY <1>1 DEF DeliveredWhenDone, UndeliveredWhenEnded, Ending, CopySteps
<1>8. WorkerKnowsTheRow' /\ ToldWhatIsRecorded'
  BY <1>1, <1>2 DEF WorkerKnowsTheRow, ToldWhatIsRecorded, Recorded
<1> QED  BY <1>2, <1>5, <1>6, <1>7, <1>8 DEF EndsRight

\* mark_failed gives up a row only where the content has not left.
LEMMA UntouchedIsUndelivered == FullInv /\ Untouched => Undelivered
<1> SUFFICES ASSUME FullInv, Untouched PROVE Undelivered
  OBVIOUS
<1>1. disk["src"] \in {"orig", "foreign"}
  BY DEF FullInv, TransferInv, DataInv, FileTypes, Untouched
<1>2. disk["dst"] \notin {"orig", "copy"}
  BY DEF FullInv, ResultInv, Untouched, RowFitsFiles, Originals, Copying, NoFile
<1> QED  BY <1>1, <1>2 DEF Undelivered

LEMMA MarkFailedResults == FullInv /\ MarkFailed => ResultInv' /\ EndsRight
<1> SUFFICES ASSUME FullInv, MarkFailed PROVE ResultInv' /\ EndsRight
  OBVIOUS
<1> USE DEF FullInv, ResultInv
<1>1. /\ UNCHANGED <<prepared, files, mode>> /\ mode = "executing" /\ told' = "failed"
      /\ step = "fail" /\ step' = "close"
      /\ IF Untouched THEN Journal!FailItem(1, row.state, FALSE) ELSE UNCHANGED items
  BY DEF MarkFailed, Executing, GoTo, journal
<1>2. DeliveredWhenDone' /\ UndeliveredWhenEnded'
  BY <1>1 DEF DeliveredWhenDone, UndeliveredWhenEnded, Ending, CopySteps
<1>3. ASSUME Untouched
      PROVE  Originals' /\ RowFitsFiles' /\ row'.state = "Failed" /\ row'.result = "failed" /\ EndsRight
  <2>1. row'.state = "Failed" /\ row'.result = "failed"
    BY <1>1, <1>3, EndKinds, RowIsTyped
  <2> QED  BY <1>1, <1>3, <2>1, EndedRow, UntouchedIsUndelivered DEF Journal!Terminal, EndsRight
<1>4. ASSUME ~Untouched
      PROVE  /\ Originals' /\ RowFitsFiles' /\ row' = row /\ row.state # "Absent"
             /\ row'.result \in {"none", "failed"} /\ EndsRight
  <2>1. row' = row /\ row.state # "Absent" /\ row.result \in {"none", "failed"}
    BY <1>1, <1>4, WorkingRow DEF row, WorkerKnowsTheRow
  <2> QED  BY <1>1, <2>1, SameFiles DEF RowFitsFiles, prepared, files, EndsRight, Copying
<1>5. WorkerKnowsTheRow' /\ ToldWhatIsRecorded'
  BY <1>1, <1>3, <1>4 DEF WorkerKnowsTheRow, ToldWhatIsRecorded, Recorded
<1> QED  BY <1>2, <1>3, <1>4, <1>5

\* A cancelled item, and one whose part could not be cleaned up, has not been placed.
LEMMA CancelledIsUndelivered ==
    ASSUME FullInv, mode = "executing", step \in {"cancel", "keepFailed", "keepCancelled"}
    PROVE  Undelivered
<1> USE DEF FullInv, TransferInv, ResultInv
<1>1. disk["dst"] # "copy"
  BY DEF UndeliveredWhenEnded, CopySteps, Originals
<1>2. step # "cancel" => Copying
  BY DEF WorkInv, WorkerKnows, StepsOf, Ending, DataInv, Prepared, Copying
<1>3. "orig" \notin trash
  BY <1>2 DEF UndeliveredWhenEnded, WorkInv, CopyAtWork, CopySteps
<1>4. disk["sidePart"] # "orig"
  BY <1>2 DEF WorkInv, CopyAtWork, CopySteps, WorkerKnows, NoParts, NoFile
<1>5. disk["dst"] # "orig"
  BY <1>2 DEF UndeliveredWhenEnded, Originals, Copying
<1> QED  BY <1>1, <1>3, <1>4, <1>5, OriginalUntouched DEF Undelivered

LEMMA CancelResults ==
    FullInv /\ (MarkCancelled \/ SettleRecoveryRequired) => ResultInv' /\ EndsRight
<1> SUFFICES ASSUME FullInv, MarkCancelled \/ SettleRecoveryRequired PROVE ResultInv' /\ EndsRight
  OBVIOUS
<1> USE DEF FullInv, ResultInv
<1>1. /\ UNCHANGED <<prepared, files, mode>> /\ mode = "executing" /\ step' = "close"
      /\ step \in {"cancel", "keepFailed", "keepCancelled"}
      /\ \E retain \in BOOLEAN :
            \/ Journal!SkipItem(1, row.state, retain) /\ told' = "cancelled"
            \/ Journal!FailItem(1, row.state, retain) /\ told' = "failed"
  BY DEF MarkCancelled, SettleRecoveryRequired, Executing, GoTo
<1>2. \/ row'.state = "Completed" /\ row'.result = "skipped" /\ told' = "cancelled"
      \/ row'.state = "Failed" /\ row'.result = "failed" /\ told' = "failed"
  BY <1>1, EndKinds, RowIsTyped
<1>3. Undelivered
  BY <1>1, CancelledIsUndelivered
<1>4. Originals' /\ RowFitsFiles'
  BY <1>1, <1>2, EndedRow DEF Journal!Terminal
<1>5. DeliveredWhenDone' /\ UndeliveredWhenEnded'
  BY <1>1 DEF DeliveredWhenDone, UndeliveredWhenEnded, Ending, CopySteps
<1>6. WorkerKnowsTheRow' /\ ToldWhatIsRecorded'
  BY <1>1, <1>2 DEF WorkerKnowsTheRow, ToldWhatIsRecorded, Recorded
<1> QED  BY <1>2, <1>3, <1>4, <1>5, <1>6 DEF EndsRight

LEMMA PlaceIdentityResults == FullInv /\ PlaceIdentityChanged => ResultInv' /\ EndsRight
<1> SUFFICES ASSUME FullInv, PlaceIdentityChanged PROVE ResultInv' /\ EndsRight
  OBVIOUS
<1> USE DEF FullInv, ResultInv
<1>1. /\ UNCHANGED <<prepared, files>> /\ mode' = "closed" /\ told' = "nothing"
      /\ mode = "recovering" /\ step = "place" /\ Journal!FailItem(1, "Verified", TRUE)
  BY DEF PlaceIdentityChanged, Shutdown, Recovering
<1>2. row'.state = "Failed" /\ row'.result = "failed"
  BY <1>1, EndKinds, RowIsTyped
<1>3. route = "Copy" /\ disk["copyPart"] = "copy" /\ temp = "copyPart"
  BY <1>1, AtPlace DEF TransferInv, WorkInv, WorkerKnows, Staging
<1>4. disk["dst"] \notin {"orig", "copy"}
  BY <1>3 DEF Originals, NoFile
<1>5. disk["sidePart"] # "orig"
  BY <1>3 DEF TransferInv, DataInv, PartsAreNamed, Hidden, NoFile
<1>6. Undelivered
  <2>1. Kept("orig")
    BY <1>3 DEF TransferInv, DataInv, FilesAreSafe
  <2> QED  BY <1>3, <1>4, <1>5, <2>1 DEF Kept, Undelivered
<1>7. Originals' /\ RowFitsFiles'
  BY <1>1, <1>2, EndedRow DEF Journal!Terminal
<1>8. DeliveredWhenDone' /\ UndeliveredWhenEnded' /\ WorkerKnowsTheRow' /\ ToldWhatIsRecorded'
  BY <1>1, <1>2 DEF DeliveredWhenDone, UndeliveredWhenEnded, WorkerKnowsTheRow, ToldWhatIsRecorded,
     Recorded
<1> QED  BY <1>2, <1>6, <1>7, <1>8 DEF EndsRight

LEMMA RecoverEndResults == FullInv /\ (RecoverFail \/ Resolve) => ResultInv' /\ EndsRight
<1> SUFFICES ASSUME FullInv, RecoverFail \/ Resolve PROVE ResultInv' /\ EndsRight
  OBVIOUS
<1> USE DEF FullInv, ResultInv
<1>1. CASE Refuse(0, "journal")
  <2>1. mode = "recovering"
    BY DEF RecoverFail, Resolve, Recovering
  <2>2. UNCHANGED <<items, prepared, files>>
    BY <1>1 DEF Refuse, journal
  <2>3. ResultInv'
    BY <1>1, <2>1, <2>2, IdleResults
  <2> QED  BY <2>2, <2>3 DEF EndsRight, row
<1>2. CASE ~Refuse(0, "journal")
  <2>1. /\ UNCHANGED <<prepared, files, mode, told>> /\ mode = "recovering"
        /\ step' = "close"
        /\ \/ /\ step = "fail" /\ row.state \in Journal!LiveStates
              /\ Journal!FailItem(1, row.state, FALSE)
           \/ Journal!ResolveRecoveryObligation(1, row.state)
    BY <1>2 DEF RecoverFail, Resolve, Recovering, GoTo
  <2>2. row'.state \in Journal!Terminal /\ EndsRight
    <3>1. CASE Journal!ResolveRecoveryObligation(1, row.state)
      BY <3>1, ResolveWrite, RowIsTyped DEF EndsRight
    <3>2. CASE /\ step = "fail" /\ row.state \in Journal!LiveStates
               /\ Journal!FailItem(1, row.state, FALSE)
      <4>1. row'.state = "Failed" /\ row'.result = "failed"
        BY <3>2, EndKinds, RowIsTyped
      <4>2. Undelivered
        BY <2>1, <3>2 DEF UndeliveredWhenEnded
      <4> QED  BY <4>1, <4>2 DEF EndsRight, Journal!Terminal
    <3> QED  BY <2>1, <3>1, <3>2
  <2>3. Originals' /\ RowFitsFiles'
    BY <2>1, <2>2, EndedRow
  <2>4. DeliveredWhenDone' /\ UndeliveredWhenEnded'
    BY <2>1 DEF DeliveredWhenDone, UndeliveredWhenEnded, Ending
  <2>5. WorkerKnowsTheRow' /\ ToldWhatIsRecorded'
    BY <2>1 DEF WorkerKnowsTheRow, ToldWhatIsRecorded, Recorded
  <2> QED  BY <2>2, <2>3, <2>4, <2>5
<1> QED  BY <1>1, <1>2

-----------------------------------------------------------------------------
(* Results and the steps that move files. *)

\* Where the files at a place go away, and no original goes to the Trash, what is known
\* of the files and the row stays.
LEMMA FewerFiles ==
    ASSUME FullInv, UNCHANGED <<items, prepared, gone>>,
           disk'["src"] = disk["src"],
           disk'["dst"] \in {disk["dst"], NoFile}, disk'["sidePart"] \in {disk["sidePart"], NoFile},
           disk["dst"] = "copy" => disk'["copyPart"] = NoFile,
           "orig" \in trash' => "orig" \in trash
    PROVE  Originals' /\ RowFitsFiles'
<1> USE DEF FullInv, ResultInv
<1>1. row' = row
  BY DEF row
<1>2. Originals'
  BY DEF Originals, prepared, Copying, NoFile
<1>3. RowFitsFiles'
  BY <1>1 DEF RowFitsFiles, prepared, Copying, NoFile
<1> QED  BY <1>2, <1>3

\* A worker that is not through with its row has told nothing and recorded nothing.
LEMMA AtWork ==
    ASSUME FullInv, mode = "executing", step \notin {"fail", "close"}, UNCHANGED <<items, told>>
    PROVE  /\ row' = row /\ row.state \in Journal!LiveStates /\ row.result = "none"
           /\ told' = "nothing" /\ ToldWhatIsRecorded' /\ row.state # "Absent"
<1> USE DEF FullInv, ResultInv
<1>1. row' = row
  BY DEF row
<1>2. row.state \in Journal!LiveStates /\ told = "nothing"
  BY DEF WorkerKnowsTheRow
<1>3. row.result = "none"
  BY <1>2 DEF RowFitsFiles
<1> QED  BY <1>1, <1>2, <1>3, WorkingRow DEF ToldWhatIsRecorded, Recorded

\* Going to mark_failed asks for nothing but what is known of the files.
LEMMA FailingResults ==
    ASSUME FullInv, mode = "executing", step \notin {"fail", "close"}, UNCHANGED <<items, told, mode>>,
           step' = "fail", Originals', RowFitsFiles'
    PROVE  ResultInv'
<1>1. DeliveredWhenDone' /\ UndeliveredWhenEnded'
  BY DEF DeliveredWhenDone, UndeliveredWhenEnded, Ending, CopySteps
<1>2. WorkerKnowsTheRow' /\ ToldWhatIsRecorded'
  BY AtWork DEF WorkerKnowsTheRow
<1> QED  BY <1>1, <1>2 DEF ResultInv

LEMMA ErrorResults ==
    ASSUME FullInv, mode = "executing", step \notin {"fail", "close"}, NEW n, Error(n)
    PROVE  ResultInv'
<1> USE DEF FullInv, TransferInv
<1>1. /\ UNCHANGED <<items, prepared, trash, gone, told, mode>> /\ step' = "fail"
      /\ disk' = disk \/ disk' = [disk EXCEPT !["copyPart"] = NoFile]
  BY DEF Error, GoTo, Vacate, journal
<1>2. disk \in [Places -> Contents \cup {NoFile}]
  BY DEF DataInv, FileTypes
<1>3. /\ disk'["src"] = disk["src"] /\ disk'["dst"] = disk["dst"]
      /\ disk'["sidePart"] = disk["sidePart"]
      /\ disk["copyPart"] = NoFile => disk'["copyPart"] = NoFile
  BY <1>1, <1>2 DEF Places
<1>4. Originals' /\ RowFitsFiles'
  BY <1>1, <1>3, FewerFiles DEF ResultInv, Originals
<1> QED  BY <1>1, <1>4, FailingResults

LEMMA CompensateResults ==
    ASSUME FullInv, mode = "executing", step \notin {"fail", "close"}, NEW n, Compensate(n)
    PROVE  ResultInv'
<1> USE DEF FullInv, TransferInv
<1>1. /\ UNCHANGED <<items, prepared, gone, told, mode>> /\ step' = "fail"
      /\ trash' = trash \cup {"copy"} \/ trash' = trash
      /\ disk' = disk \/ disk' = [disk EXCEPT !["dst"] = NoFile]
  BY DEF Compensate, GoTo, Vacate, journal
<1>2. disk \in [Places -> Contents \cup {NoFile}]
  BY DEF DataInv, FileTypes
<1>3. /\ disk'["src"] = disk["src"] /\ disk'["dst"] \in {disk["dst"], NoFile}
      /\ disk'["sidePart"] = disk["sidePart"] /\ disk'["copyPart"] = disk["copyPart"]
  BY <1>1, <1>2 DEF Places
<1>4. Originals' /\ RowFitsFiles'
  BY <1>1, <1>3, FewerFiles DEF ResultInv, Originals
<1> QED  BY <1>1, <1>4, FailingResults

LEMMA UnstageResults ==
    ASSUME FullInv, mode = "executing", Copying, step \in {"write", "place"},
           NEW n, NEW clean \in {"fail", "cancel"}, NEW keep \in {"keepFailed", "keepCancelled"},
           Unstage(n, clean, keep)
    PROVE  ResultInv'
<1> USE DEF FullInv, TransferInv
<1>1. /\ UNCHANGED <<items, prepared, trash, gone, told, mode>>
      /\ step' \in {"fail", "cancel", "keepFailed", "keepCancelled"}
      /\ disk' = disk \/ disk' = [disk EXCEPT !["copyPart"] = NoFile]
  BY DEF Unstage, GoTo, Vacate, journal
<1>2. disk \in [Places -> Contents \cup {NoFile}]
  BY DEF DataInv, FileTypes
<1>3. /\ disk'["src"] = disk["src"] /\ disk'["dst"] = disk["dst"]
      /\ disk'["sidePart"] = disk["sidePart"]
      /\ disk["copyPart"] = NoFile => disk'["copyPart"] = NoFile
  BY <1>1, <1>2 DEF Places
<1>4. Originals' /\ RowFitsFiles'
  BY <1>1, <1>3, FewerFiles DEF ResultInv, Originals
<1>5. disk["dst"] \notin {"orig", "copy"} /\ "orig" \notin trash
  BY DEF ResultInv, UndeliveredWhenEnded, Originals, WorkInv, CopyAtWork, CopySteps, Copying
<1>6. DeliveredWhenDone' /\ UndeliveredWhenEnded'
  BY <1>1, <1>3, <1>5 DEF DeliveredWhenDone, UndeliveredWhenEnded, Ending
<1>7. WorkerKnowsTheRow' /\ ToldWhatIsRecorded'
  BY <1>1, AtWork DEF WorkerKnowsTheRow
<1> QED  BY <1>4, <1>6, <1>7 DEF ResultInv

\* Creating and writing the part.
LEMMA WritePartResults ==
    FullInv /\ (Create \/ CreateUnbound \/ Write) => ResultInv'
<1> SUFFICES ASSUME FullInv, Create \/ CreateUnbound \/ Write PROVE ResultInv'
  OBVIOUS
<1> USE DEF FullInv, TransferInv
<1>1. /\ UNCHANGED <<items, prepared, trash, gone, told, mode>> /\ mode = "executing"
      /\ \/ step = "create" /\ step' \in {Following, "keepFailed"}
         \/ step = "write" /\ step' = Following
      /\ disk' = [disk EXCEPT !["copyPart"] = "partial"] \/ disk' = [disk EXCEPT !["copyPart"] = "copy"]
  BY DEF Create, CreateUnbound, Write, Executing, DiskStep, GoTo, journal
<1>2. Copying
  BY <1>1 DEF WorkInv, WorkerKnows, StepsOf, Ending, DataInv, Prepared, Copying
<1>3. step' \in {"write", "stage", "keepFailed"}
  BY <1>1, <1>2, PathOf
<1>4. disk \in [Places -> Contents \cup {NoFile}]
  BY DEF DataInv, FileTypes
<1>5. /\ disk'["src"] = disk["src"] /\ disk'["dst"] = disk["dst"]
      /\ disk'["sidePart"] = disk["sidePart"]
  BY <1>1, <1>4 DEF Places
<1>6. disk["dst"] # "copy"
  BY <1>1, <1>2 DEF ResultInv, UndeliveredWhenEnded, CopySteps
<1>7. Originals' /\ RowFitsFiles'
  BY <1>1, <1>5, <1>6, FewerFiles
<1>8. DeliveredWhenDone' /\ UndeliveredWhenEnded'
  BY <1>1, <1>2, <1>3, <1>5, <1>6 DEF DeliveredWhenDone, UndeliveredWhenEnded, Ending, prepared, Copying
<1>9. WorkerKnowsTheRow' /\ ToldWhatIsRecorded'
  BY <1>1, <1>3, AtWork DEF WorkerKnowsTheRow
<1> QED  BY <1>7, <1>8, <1>9 DEF ResultInv

LEMMA ClearResults == FullInv /\ Clear => ResultInv'
<1> SUFFICES ASSUME FullInv, Clear PROVE ResultInv'
  OBVIOUS
<1> USE DEF FullInv, TransferInv
<1>1. /\ UNCHANGED <<items, prepared, gone, told, mode>> /\ mode = "executing"
      /\ step = "clear" /\ step' = Following
      /\ trash' = trash \cup {"old"} \/ trash' = trash
      /\ disk' = [disk EXCEPT !["dst"] = NoFile] \/ disk' = disk
  BY DEF Clear, Executing, DiskStep, GoTo, Vacate, journal
<1>2. route \in {"Copy", "CrossMove", "Replace"}
  BY <1>1 DEF WorkInv, WorkerKnows, StepsOf, Ending, DataInv, Prepared
<1>3. step' = "place"
  BY <1>1, <1>2, PathOf DEF Copying
<1>4. disk \in [Places -> Contents \cup {NoFile}]
  BY DEF DataInv, FileTypes
<1>5. /\ disk'["src"] = disk["src"] /\ disk'["copyPart"] = disk["copyPart"]
      /\ disk'["sidePart"] = disk["sidePart"] /\ disk'["dst"] \in {disk["dst"], NoFile}
  BY <1>1, <1>4 DEF Places
<1>6. Originals' /\ RowFitsFiles'
  BY <1>1, <1>5, FewerFiles DEF ResultInv, Originals
<1>7. DeliveredWhenDone' /\ UndeliveredWhenEnded'
  BY <1>1, <1>3, <1>5 DEF ResultInv, DeliveredWhenDone, UndeliveredWhenEnded, Ending, CopySteps,
     prepared, Copying, NoFile
<1>8. row' = row /\ (Copying' <=> Copying)
  BY <1>1 DEF row, prepared, Copying
<1>9. WorkerKnowsTheRow' /\ ToldWhatIsRecorded'
  BY <1>1, <1>3, <1>8, AtWork DEF ResultInv, WorkerKnowsTheRow
<1> QED  BY <1>6, <1>7, <1>9 DEF ResultInv

LEMMA ClearChangedResults == FullInv /\ ClearChanged => ResultInv'
<1> SUFFICES ASSUME FullInv, ClearChanged PROVE ResultInv'
  OBVIOUS
<1>1. mode = "executing" /\ step = "clear"
  BY DEF ClearChanged, Executing
<1>2. CASE Error(0)
  BY <1>1, <1>2, ErrorResults
<1>3. CASE ~Error(0)
  <2>1. /\ UNCHANGED <<items, prepared, files, told, mode>> /\ step' = "putBack" /\ route = "Replace"
    BY <1>3 DEF ClearChanged, GoTo, journal
  <2>2. row' = row /\ ~Copying'
    BY <2>1 DEF row, prepared, Copying
  <2>3. Originals' /\ RowFitsFiles'
    BY <2>1, <2>2, SameFiles DEF FullInv, ResultInv, RowFitsFiles, prepared, files, Copying
  <2>4. DeliveredWhenDone' /\ UndeliveredWhenEnded'
    BY <1>1, <2>1, <2>2 DEF DeliveredWhenDone, UndeliveredWhenEnded, Ending
  <2>5. row.state = "Staged"
    BY <1>1, <2>1 DEF FullInv, ResultInv, WorkerKnowsTheRow, Copying
  <2>6. WorkerKnowsTheRow' /\ ToldWhatIsRecorded'
    BY <1>1, <2>1, <2>2, <2>5, AtWork DEF WorkerKnowsTheRow
  <2> QED  BY <2>3, <2>4, <2>6 DEF ResultInv
<1> QED  BY <1>2, <1>3

LEMMA PutBackResults == FullInv /\ PutBack => ResultInv'
<1> SUFFICES ASSUME FullInv, PutBack PROVE ResultInv'
  OBVIOUS
<1> USE DEF FullInv, TransferInv
<1>1. mode = "executing" /\ step = "putBack"
  BY DEF PutBack, Executing
<1>2. CASE Error(0)
  BY <1>1, <1>2, ErrorResults
<1>3. CASE ~Error(0)
  <2>1. /\ UNCHANGED <<items, prepared, trash, gone, told, mode>> /\ step' = "giveUp"
        /\ Move("sidePart", "src")
    BY <1>3 DEF PutBack, GoTo, journal
  <2>2. ~Copying
    BY <1>1 DEF WorkInv, WorkerKnows, StepsOf, CopySteps, Ending, DataInv, Prepared, Copying
  <2>3. disk["sidePart"] = "orig"
    BY <1>1, <2>2 DEF WorkInv, MoveAtWork
  <2>4. /\ disk'["src"] = "orig" /\ disk'["dst"] = disk["dst"] /\ disk'["sidePart"] = NoFile
        /\ disk'["copyPart"] = disk["copyPart"]
    BY <2>1, <2>3 DEF Move, Places, DataInv, FileTypes
  <2>5. row' = row /\ Copying' = Copying
    BY <2>1 DEF row, prepared, Copying
  <2>6. Originals' /\ RowFitsFiles'
    <3>1. Originals'
      BY <2>1, <2>2, <2>3, <2>4, <2>5 DEF ResultInv, Originals, NoFile
    <3>2. RowFitsFiles'
      BY <2>1, <2>4, <2>5 DEF ResultInv, RowFitsFiles
    <3> QED  BY <3>1, <3>2
  <2>7. DeliveredWhenDone' /\ UndeliveredWhenEnded'
    BY <1>1, <2>1, <2>2, <2>4, <2>5 DEF DeliveredWhenDone, UndeliveredWhenEnded, Ending
  <2>8. WorkerKnowsTheRow' /\ ToldWhatIsRecorded'
    BY <1>1, <2>1, <2>2, <2>5, AtWork DEF WorkerKnowsTheRow
  <2> QED  BY <2>6, <2>7, <2>8 DEF ResultInv
<1> QED  BY <1>2, <1>3

\* What is placed is where a result can be recorded.
LEMMA PlacedFiles ==
    ASSUME FullInv, mode \in {"executing", "recovering"}, step = "place", disk["dst"] = NoFile,
           Move(Staging, "dst"), UNCHANGED <<items, prepared, trash, gone>>
    PROVE  /\ Originals' /\ RowFitsFiles' /\ (Delivered' <=> Left')
           /\ route = "Replace" => Left'
<1> USE DEF FullInv, TransferInv
<1>1. disk \in [Places -> Contents \cup {NoFile}]
  BY DEF DataInv, FileTypes
<1>2. /\ temp = Staging /\ disk[Staging] = (IF route = "Replace" THEN "orig" ELSE "copy")
      /\ route \in {"Copy", "CrossMove", "Replace"} /\ (mode = "recovering" => route = "Copy")
  BY AtPlace
<1>3. row' = row /\ (Copying' <=> Copying) /\ (Copying <=> route # "Replace")
  BY <1>2 DEF row, prepared, Copying
<1>4. Copying => row.state = "Verified"
  BY <1>2 DEF ResultInv, WorkerKnowsTheRow, Copying
<1>5. ~Copying => row.state = "Staged"
  BY <1>2 DEF ResultInv, WorkerKnowsTheRow, Copying
<1>6. /\ disk'["src"] = disk["src"] /\ disk'["dst"] = disk[Staging]
      /\ disk'[Staging] = NoFile
      /\ route = "Replace" => disk'["copyPart"] = disk["copyPart"]
      /\ route # "Replace" => disk'["sidePart"] = disk["sidePart"]
  BY <1>1, <1>2 DEF Move, Places, Staging
<1>7. Originals'
  BY <1>2, <1>3, <1>6 DEF ResultInv, Originals, prepared, Staging, NoFile
<1>8. RowFitsFiles'
  BY <1>3, <1>4, <1>5, <1>6 DEF ResultInv, RowFitsFiles, Journal!AppliedStates, Journal!LiveStates
<1>9. Arrived'
  BY <1>2, <1>6 DEF Arrived, prepared, Same
<1>10. route = "Replace" => Left'
  BY <1>2, <1>6 DEF ResultInv, Originals, Left, prepared, Staging
<1> QED  BY <1>7, <1>8, <1>9, <1>10 DEF Delivered

LEMMA PlaceResults == FullInv /\ Place => ResultInv'
<1> SUFFICES ASSUME FullInv, Place PROVE ResultInv'
  OBVIOUS
<1> USE DEF FullInv, TransferInv
<1>1. /\ UNCHANGED <<items, prepared, trash, gone, told, mode>> /\ step = "place"
      /\ mode \in {"executing", "recovering"}
      /\ step' = Following /\ disk["dst"] = NoFile /\ Move(Staging, "dst")
  BY DEF Place, Working, DiskStep, GoTo, journal
<1>2. /\ route \in {"Copy", "CrossMove", "Replace"} /\ (mode = "recovering" => route = "Copy")
  BY <1>1, AtPlace
<1>3. /\ Originals' /\ RowFitsFiles' /\ (Delivered' <=> Left')
      /\ route = "Replace" => Left'
  BY <1>1, PlacedFiles
<1>4. step' = (CASE route = "Copy" -> "metadata" [] route = "CrossMove" -> "compare"
                 [] route = "Replace" -> "apply")
  BY <1>1, <1>2, PathOf
<1>5. route = "Copy" => Left'
  BY <1>1 DEF Left, prepared
<1>6. DeliveredWhenDone' /\ UndeliveredWhenEnded'
  BY <1>1, <1>2, <1>3, <1>4, <1>5 DEF DeliveredWhenDone, UndeliveredWhenEnded, Ending, CopySteps,
     prepared, Copying
<1>7. row' = row /\ (Copying => row.state = "Verified" \/ mode = "recovering") /\ Copying' = Copying
  BY <1>1 DEF ResultInv, WorkerKnowsTheRow, row, prepared, Copying
<1>8. CASE mode = "executing"
  <2>1. WorkerKnowsTheRow' /\ ToldWhatIsRecorded'
    BY <1>1, <1>2, <1>4, <1>7, <1>8, AtWork DEF WorkerKnowsTheRow, Copying
  <2> QED  BY <1>3, <1>6, <2>1 DEF ResultInv
<1>9. CASE mode = "recovering"
  <2>1. WorkerKnowsTheRow' /\ ToldWhatIsRecorded'
    BY <1>1, <1>2, <1>4, <1>7, <1>9 DEF ResultInv, WorkerKnowsTheRow, ToldWhatIsRecorded, Recorded
  <2> QED  BY <1>3, <1>6, <2>1 DEF ResultInv
<1> QED  BY <1>1, <1>8, <1>9

LEMMA PlaceFailsResults == FullInv /\ PlaceFails => ResultInv'
<1> SUFFICES ASSUME FullInv, PlaceFails PROVE ResultInv'
  OBVIOUS
<1>1. mode = "executing" /\ step = "place"
  BY DEF PlaceFails, Executing
<1>2. CASE Error(1)
  BY <1>1, <1>2, ErrorResults
<1>3. CASE route # "Replace" /\ Unstage(1, "fail", "keepFailed")
  <2>1. Copying
    BY <1>1, <1>3, AtPlace DEF Copying, FullInv
  <2> QED  BY <1>1, <1>3, <2>1, UnstageResults
<1>4. CASE /\ disk["dst"] = NoFile /\ Move(Staging, "dst") /\ armed' = FALSE /\ GoTo("fail")
           /\ UNCHANGED <<journal, prepared, trash, gone, told, reviewed, refused>>
  <2>1. UNCHANGED <<items, prepared, trash, gone, told, mode>> /\ step' = "fail"
    BY <1>4 DEF GoTo, journal
  <2>2. Originals' /\ RowFitsFiles'
    BY <1>1, <1>4, <2>1, PlacedFiles
  <2> QED  BY <1>1, <2>1, <2>2, FailingResults
<1> QED  BY <1>2, <1>3, <1>4 DEF PlaceFails

LEMMA PlaceOccupiedResults == FullInv /\ PlaceOccupied => ResultInv'
<1> SUFFICES ASSUME FullInv, PlaceOccupied PROVE ResultInv'
  OBVIOUS
<1>1. CASE Executing("place") /\ Error(0)
  BY <1>1, ErrorResults DEF Executing
<1>2. CASE Recovering("place") /\ Refuse(0, "io")
  <2>1. mode = "recovering" /\ UNCHANGED <<items, prepared, files>>
    BY <1>2 DEF Recovering, Refuse, journal
  <2> QED  BY <1>2, <2>1, IdleResults
<1> QED  BY <1>1, <1>2 DEF PlaceOccupied

\* Setting the original aside.
LEMMA AsideResults == FullInv /\ (Aside \/ AsideUnverified) => ResultInv'
<1> SUFFICES ASSUME FullInv, Aside \/ AsideUnverified PROVE ResultInv'
  OBVIOUS
<1> USE DEF FullInv, TransferInv
<1>1. /\ UNCHANGED <<items, prepared, trash, gone, told, mode>> /\ mode = "executing"
      /\ step = "aside" /\ step' \in {"fail", Following} /\ disk["src"] = "orig"
      /\ Move("src", "sidePart")
  BY DEF Aside, AsideUnverified, Executing, DiskStep, GoTo, journal
<1>2. disk \in [Places -> Contents \cup {NoFile}]
  BY DEF DataInv, FileTypes
<1>3. /\ disk'["src"] = NoFile /\ disk'["dst"] = disk["dst"]
      /\ disk'["copyPart"] = disk["copyPart"] /\ disk'["sidePart"] = "orig"
  BY <1>1, <1>2 DEF Move, Places, NoFile
<1>4. row' = row /\ Copying' = Copying
  BY <1>1 DEF row, prepared, Copying
<1>5. Originals'
  BY <1>1, <1>3, <1>4 DEF ResultInv, Originals, NoFile
<1>6. RowFitsFiles'
  BY <1>1, <1>3, <1>4 DEF ResultInv, RowFitsFiles
<1>7. route \in {"CrossMove", "Trash", "Replace"}
  BY <1>1, AtRemoval
<1>8. Following = (IF route = "CrossMove" THEN "discard" ELSE "stage")
  BY <1>1, <1>7, PathOf
<1>9. CASE step' = "fail"
  BY <1>1, <1>5, <1>6, <1>9, FailingResults
<1>10. CASE step' = Following
  <2>1. DeliveredWhenDone' /\ UndeliveredWhenEnded'
    BY <1>1, <1>3, <1>4, <1>7, <1>8, <1>10 DEF DeliveredWhenDone, UndeliveredWhenEnded, Ending, CopySteps,
       Copying
  <2>2. Copying => row.state = "Verified"
    BY <1>1 DEF ResultInv, WorkerKnowsTheRow
  <2>3. WorkerKnowsTheRow' /\ ToldWhatIsRecorded'
    BY <1>1, <1>4, <1>7, <1>8, <1>10, <2>2, AtWork DEF WorkerKnowsTheRow, Copying
  <2> QED  BY <1>5, <1>6, <2>1, <2>3 DEF ResultInv
<1> QED  BY <1>1, <1>9, <1>10

LEMMA RemovalChangedResults ==
    FullInv /\ (CompareChanged \/ AsideChanged \/ StepFails) => ResultInv'
<1> SUFFICES ASSUME FullInv, CompareChanged \/ AsideChanged \/ StepFails PROVE ResultInv'
  OBVIOUS
<1>1. mode = "executing" /\ step \notin {"fail", "close"}
  BY DEF CompareChanged, AsideChanged, StepFails, Executing
<1>2. \E n \in {0, 1} : Compensate(n) \/ Error(n)
  BY DEF CompareChanged, AsideChanged, StepFails
<1> QED  BY <1>1, <1>2, ErrorResults, CompensateResults

\* The original goes to the Trash from its part, where it was the only one.
LEMMA DiscardResults == FullInv /\ Discard => ResultInv'
<1> SUFFICES ASSUME FullInv, Discard PROVE ResultInv'
  OBVIOUS
<1> USE DEF FullInv, TransferInv
<1>1. /\ UNCHANGED <<items, prepared, gone, told, mode>> /\ mode = "executing"
      /\ step = "discard" /\ trash' = trash \cup {"orig"} /\ disk' = [disk EXCEPT !["sidePart"] = NoFile]
      /\ step' = "fail" \/ (step' = Following /\ disk["src"] = NoFile)
  BY DEF Discard, Executing, DiskStep, GoTo, Vacate, journal
<1>2. /\ route \in {"CrossMove", "Trash"} /\ disk["sidePart"] = "orig" /\ disk["copyPart"] = NoFile
  BY <1>1, AtRemoval
<1>3. disk \in [Places -> Contents \cup {NoFile}] /\ disk["src"] # "copy"
  BY DEF DataInv, FileTypes, NoFile
<1>4. /\ disk'["src"] = disk["src"] /\ disk'["dst"] = disk["dst"]
      /\ disk'["copyPart"] = NoFile /\ disk'["sidePart"] = NoFile
  BY <1>1, <1>2, <1>3 DEF Places
<1>5. row' = row /\ Copying' = Copying
  BY <1>1 DEF row, prepared, Copying
<1>6. row.state \in {"Verified", "Staged"}
  BY <1>1 DEF ResultInv, WorkerKnowsTheRow
<1>7. Originals'
  BY <1>2, <1>4, <1>5, <1>1 DEF ResultInv, Originals, NoFile
<1>8. RowFitsFiles'
  BY <1>4, <1>5, <1>6 DEF ResultInv, RowFitsFiles
<1>9. CASE step' = "fail"
  BY <1>1, <1>7, <1>8, <1>9, FailingResults
<1>10. CASE step' = Following /\ disk["src"] = NoFile
  <2>1. step' = (IF route = "Trash" THEN "apply" ELSE "metadata")
    BY <1>1, <1>2, <1>10, PathOf
  <2>2. route = "CrossMove" => disk["dst"] = "copy" \/ "copy" \in gone
    BY <1>1, <1>2, <1>3 DEF WorkInv, CopyAtWork, Copying, Kept, NoFile
  <2>3. Arrived'
    BY <1>1, <1>2, <1>4, <2>2 DEF Arrived, Same, prepared
  <2>4. Left'
    BY <1>4, <1>10 DEF Left, NoFile
  <2>5. DeliveredWhenDone' /\ UndeliveredWhenEnded'
    BY <1>1, <2>1, <2>3, <2>4 DEF DeliveredWhenDone, UndeliveredWhenEnded, CopySteps, Delivered,
       Copying, prepared
  <2>6. WorkerKnowsTheRow' /\ ToldWhatIsRecorded'
    BY <1>1, <1>5, <2>1, AtWork DEF WorkerKnowsTheRow
  <2> QED  BY <1>7, <1>8, <2>5, <2>6 DEF ResultInv
<1> QED  BY <1>1, <1>9, <1>10

\* Recovery puts the original back where nobody has taken its place.
LEMMA RestoreResults == FullInv /\ Restore => ResultInv'
<1> SUFFICES ASSUME FullInv, Restore PROVE ResultInv'
  OBVIOUS
<1> USE DEF FullInv, TransferInv
<1>1. mode = "recovering" /\ step = "restore"
  BY DEF Restore, Recovering
<1>2. CASE Refuse(0, "io")
  <2>1. UNCHANGED <<items, prepared, files>>
    BY <1>2 DEF Refuse, journal
  <2> QED  BY <1>1, <1>2, <2>1, IdleResults
<1>3. CASE ~Refuse(0, "io")
  <2>1. /\ UNCHANGED <<items, prepared, trash, gone, told, mode>> /\ step' = "fail"
        /\ Move("sidePart", "src")
    BY <1>3 DEF Restore, GoTo, journal
  <2>2. ~Copying /\ disk["sidePart"] = "orig"
    BY <1>1 DEF ResultInv, UndeliveredWhenEnded
  <2>3. /\ disk'["src"] = "orig" /\ disk'["dst"] = disk["dst"] /\ disk'["sidePart"] = NoFile
        /\ disk'["copyPart"] = disk["copyPart"]
    BY <2>1, <2>2 DEF Move, Places, DataInv, FileTypes
  <2>4. row' = row /\ Copying' = Copying /\ told = "nothing"
    BY <1>1, <2>1 DEF row, prepared, Copying, ResultInv, WorkerKnowsTheRow
  <2>5. Originals'
    BY <2>1, <2>2, <2>3, <2>4 DEF ResultInv, Originals, NoFile
  <2>6. RowFitsFiles'
    BY <2>1, <2>3, <2>4 DEF ResultInv, RowFitsFiles
  <2>7. Undelivered'
    BY <2>2, <2>3 DEF ResultInv, Originals, Undelivered
  <2>8. DeliveredWhenDone' /\ UndeliveredWhenEnded'
    BY <1>1, <2>1, <2>7 DEF DeliveredWhenDone, UndeliveredWhenEnded, Ending
  <2>9. WorkerKnowsTheRow' /\ ToldWhatIsRecorded'
    BY <1>1, <2>1, <2>4 DEF WorkerKnowsTheRow, ToldWhatIsRecorded, Recorded
  <2> QED  BY <2>5, <2>6, <2>8, <2>9 DEF ResultInv
<1> QED  BY <1>2, <1>3

\* A file of another application can only stand in for what it took away.
LEMMA InterfereResults == FullInv /\ Interfere => ResultInv'
<1> SUFFICES ASSUME FullInv, Interfere PROVE ResultInv'
  OBVIOUS
<1> USE DEF FullInv, TransferInv
<1>1. /\ UNCHANGED <<items, prepared, trash, told, mode, step>>
      /\ \E p \in Places :
            /\ p \in {"src", "dst"} \/ mode = "closed"
            /\ \/ disk[p] = NoFile /\ disk' = [disk EXCEPT ![p] = "foreign"] /\ gone' = gone
                  /\ p \in {"src", "dst"}
               \/ /\ disk[p] # NoFile /\ disk' = [disk EXCEPT ![p] = NoFile]
                  /\ gone' = gone \cup {disk[p]}
  BY DEF Interfere, Appear, Take, Vacate, control, journal, Places, Hidden
<1>2. PICK p \in Places :
            /\ p \in {"src", "dst"} \/ mode = "closed"
            /\ \/ disk[p] = NoFile /\ disk' = [disk EXCEPT ![p] = "foreign"] /\ gone' = gone
                  /\ p \in {"src", "dst"}
               \/ /\ disk[p] # NoFile /\ disk' = [disk EXCEPT ![p] = NoFile]
                  /\ gone' = gone \cup {disk[p]}
  BY <1>1
<1>3. disk \in [Places -> Contents \cup {NoFile}]
  BY DEF DataInv, FileTypes
<1>4. \A q \in Places \ {p} : disk'[q] = disk[q]
  BY <1>2, <1>3
<1>5. \/ disk[p] = NoFile /\ disk'[p] = "foreign" /\ gone' = gone
      \/ disk[p] # NoFile /\ disk'[p] = NoFile /\ gone' = gone \cup {disk[p]}
  BY <1>2, <1>3
<1>6. \A q \in Places : disk'[q] = disk[q] \/ disk'[q] \in {"foreign", NoFile}
  BY <1>4, <1>5
<1>7. \A q \in Places : disk[q] = disk'[q] \/ disk[q] = NoFile \/ disk[q] \in gone'
  BY <1>4, <1>5
<1>8. /\ gone \subseteq gone' /\ \A f \in gone' : f \in gone \/ (f = disk[p] /\ disk'[p] = NoFile)
  BY <1>5
<1>9. row' = row /\ Copying' = Copying
  BY <1>1 DEF row, prepared, Copying
<1>10. {"src", "dst", "sidePart", "copyPart"} = Places /\ "orig" # NoFile /\ "copy" # NoFile
  BY DEF Places, NoFile
<1>11. Originals'
  <2>1. /\ disk'["src"] = "orig" => disk["src"] = "orig"
        /\ disk'["dst"] = "orig" => disk["dst"] = "orig"
        /\ disk'["sidePart"] = "orig" => disk["sidePart"] = "orig"
        /\ disk'["dst"] = "copy" => disk["dst"] = "copy"
    BY <1>6, <1>10 DEF NoFile
  <2>2. disk["copyPart"] = NoFile => disk'["copyPart"] = NoFile
    BY <1>2, <1>4, <1>5, <1>10
  <2>3. "orig" \in trash' \cup gone' /\ "orig" \notin trash \cup gone =>
           disk[p] = "orig" /\ disk'[p] = NoFile
    BY <1>1, <1>8
  <2>4. ASSUME disk[p] = "orig", disk'[p] = NoFile
        PROVE  "orig" \notin {disk'["src"], disk'["dst"], disk'["sidePart"]}
    BY <2>1, <2>4, <1>10 DEF ResultInv, Originals, DataInv, FileTypes
  <2>5. "orig" \in trash' \cup gone' => "orig" \notin {disk'["src"], disk'["dst"], disk'["sidePart"]}
    BY <2>1, <2>3, <2>4 DEF ResultInv, Originals
  <2> QED  BY <1>1, <1>9, <2>1, <2>2, <2>5 DEF ResultInv, Originals, prepared
<1>12. RowFitsFiles'
  BY <1>1, <1>6, <1>9, <1>10 DEF ResultInv, RowFitsFiles
<1>13. Delivered => Delivered'
  <2>1. Arrived => Arrived'
    BY <1>1, <1>7, <1>8, <1>10 DEF Arrived, Same, prepared, NoFile
  <2>2. Left => Left'
    BY <1>1, <1>6, <1>10 DEF Left, prepared, NoFile
  <2> QED  BY <2>1, <2>2 DEF Delivered
<1>14. Undelivered => Undelivered'
  BY <1>6, <1>7, <1>8, <1>10 DEF Undelivered, NoFile
<1>15. mode # "closed" => disk'["copyPart"] = disk["copyPart"] /\ disk'["sidePart"] = disk["sidePart"]
  BY <1>2, <1>4, <1>10
<1>16. DeliveredWhenDone'
  BY <1>1, <1>9, <1>13, <1>15 DEF ResultInv, DeliveredWhenDone, prepared
<1>17. UndeliveredWhenEnded'
  BY <1>1, <1>6, <1>7, <1>8, <1>9, <1>10, <1>14, <1>15 DEF ResultInv, UndeliveredWhenEnded, NoFile
<1>18. WorkerKnowsTheRow' /\ ToldWhatIsRecorded'
  BY <1>1, <1>9 DEF ResultInv, WorkerKnowsTheRow, ToldWhatIsRecorded, Recorded
<1> QED  BY <1>11, <1>12, <1>16, <1>17, <1>18 DEF ResultInv

-----------------------------------------------------------------------------
(* What the results say is so. *)

LEMMA ResultInit == Init => ResultInv
<1> SUFFICES ASSUME Init PROVE ResultInv
  OBVIOUS
<1>1. /\ trash = {} /\ gone = {} /\ mode = "idle" /\ told = "nothing"
      /\ disk["src"] = "orig" /\ disk["dst"] \in {"old", NoFile} /\ disk["sidePart"] = NoFile
  BY DEF Init, Places
<1>2. row.state = "Absent" /\ row.result = "none"
  <2> DEFINE new == Journal!NewItem(CHOOSE p \in {"Skip", "Replace"} : TRUE,
                                    CHOOSE d \in {"planned"} : TRUE)
  <2>1. items = [o \in {1} |-> [new EXCEPT !.state = "Absent"]]
    BY DEF Init, Journal!Init
  <2>2. [new EXCEPT !.state = "Absent"].state = "Absent" /\ [new EXCEPT !.state = "Absent"].result = "none"
    BY DEF Journal!NewItem
  <2> HIDE DEF new
  <2> QED  BY <2>1, <2>2 DEF row
<1>3. Originals
  BY <1>1 DEF Originals, NoFile
<1>4. RowFitsFiles
  BY <1>1, <1>2 DEF RowFitsFiles, NoFile, Journal!AppliedStates, Journal!LiveStates
<1>5. DeliveredWhenDone /\ UndeliveredWhenEnded /\ WorkerKnowsTheRow /\ ToldWhatIsRecorded
  BY <1>1 DEF DeliveredWhenDone, UndeliveredWhenEnded, WorkerKnowsTheRow, ToldWhatIsRecorded, Recorded
<1> QED  BY <1>3, <1>4, <1>5 DEF ResultInv

LEMMA ResultStutter ==
    ASSUME FullInv, UNCHANGED vars
    PROVE  ResultInv' /\ EndsRight
<1> USE DEF FullInv, ResultInv
<1>1. UNCHANGED <<items, prepared, files, mode, step, told>> /\ row' = row
  BY DEF vars, journal, control, row
<1>2. Originals' /\ RowFitsFiles'
  BY <1>1, SameFiles DEF RowFitsFiles, prepared, files, Copying
<1>3. (Delivered => Delivered') /\ (Undelivered => Undelivered')
  BY <1>1 DEF prepared, files, Delivered, Arrived, Left, Undelivered, Same
<1>4. DeliveredWhenDone' /\ UndeliveredWhenEnded'
  BY <1>1, <1>3 DEF DeliveredWhenDone, UndeliveredWhenEnded, prepared, files, Copying
<1>5. WorkerKnowsTheRow' /\ ToldWhatIsRecorded'
  BY <1>1 DEF WorkerKnowsTheRow, ToldWhatIsRecorded, Recorded, prepared, Copying
<1> QED  BY <1>1, <1>2, <1>4, <1>5 DEF EndsRight

\* Most steps leave the row, or at least its result, alone.
LEMMA SameRow == UNCHANGED items => EndsRight
BY DEF EndsRight, row

\* Planning and moving a row on never gives it a result.
LEMMA OnwardEnds ==
    ASSUME TransferInv, Start \/ Begin \/ Stage \/ Apply \/ Verify \/ Compare \/ Metadata \/ Index
    PROVE  EndsRight
<1>1. RowTyped /\ Prepared
  BY RowIsTyped DEF TransferInv, DataInv
<1>2. CASE Journal!BeginPlan("batch", {1}, policy, "planned")
  BY <1>1, <1>2, PlanWrite DEF EndsRight
<1>3. ASSUME NEW expected, Journal!RegisterTemporary(1, expected)
      PROVE  EndsRight
  BY <1>1, <1>3, RegisterWrite DEF EndsRight
<1>4. CASE Journal!RecordPreparedEvidence(1)
  BY <1>1, <1>4, EvidenceWrite DEF EndsRight
<1>5. CASE Journal!RecordFsApplied(1)
  BY <1>1, <1>5, AppliedWrite DEF EndsRight
<1>6. ASSUME NEW expected, NEW next \in {"Staged", "Verified", "MetaCommitted", "IndexSynced"},
             Journal!Advance(1, expected, next)
      PROVE  EndsRight
  BY <1>1, <1>6, AdvanceWrite DEF EndsRight
<1> QED
  BY <1>2, <1>3, <1>4, <1>5, <1>6 DEF Start, Begin, Stage, Apply, Verify, Compare, Metadata, Index

LEMMA ResultStep == FullInv /\ [Next]_vars => ResultInv' /\ EndsRight
<1> SUFFICES ASSUME FullInv, [Next]_vars PROVE ResultInv' /\ EndsRight
  OBVIOUS
<1> USE DEF FullInv
<1>1. CASE UNCHANGED vars
  BY <1>1, ResultStutter
<1>2. CASE Start \/ Begin \/ Stage \/ Apply \/ Verify \/ Compare \/ Metadata \/ Index
  BY <1>2, OnwardEnds, StartResults, PrepareResults, ForwardResults
<1>3. CASE BeginCancelled \/ Choose
  <2>1. UNCHANGED items
    BY <1>3 DEF BeginCancelled, Choose, journal
  <2> QED  BY <1>3, <2>1, SameRow, ChoiceResults
<1>4. CASE BeginChanged \/ CreateChanged
  <2>1. Executing("begin") \/ Executing("create")
    BY <1>4 DEF BeginChanged, CreateChanged
  <2>2. UNCHANGED items /\ Error(0)
    BY <1>4 DEF BeginChanged, CreateChanged, Error, journal
  <2> QED  BY <2>1, <2>2, SameRow, ErrorResults DEF Executing
<1>5. CASE WriteFails \/ WriteCancelled
  <2>1. mode = "executing" /\ step = "write"
    BY <1>5 DEF WriteFails, WriteCancelled, Executing
  <2>2. Copying
    BY <2>1 DEF TransferInv, WorkInv, WorkerKnows, StepsOf, Ending, DataInv, Prepared, Copying
  <2>3. UNCHANGED items
    BY <1>5 DEF WriteFails, WriteCancelled, Unstage, journal
  <2> QED  BY <1>5, <2>1, <2>2, <2>3, SameRow, UnstageResults DEF WriteFails, WriteCancelled
<1>6. CASE Create \/ CreateUnbound \/ Write
  <2>1. UNCHANGED items
    BY <1>6 DEF Create, CreateUnbound, Write, DiskStep, journal
  <2> QED  BY <1>6, <2>1, SameRow, WritePartResults
<1>7. CASE Clear \/ ClearChanged \/ PutBack \/ Place \/ PlaceOccupied \/ PlaceFails
  <2>1. UNCHANGED items
    BY <1>7 DEF Clear, ClearChanged, PutBack, Place, PlaceOccupied, PlaceFails, DiskStep, Error,
       Unstage, Refuse, journal
  <2> QED  BY <1>7, <2>1, SameRow, ClearResults, ClearChangedResults, PutBackResults, PlaceResults,
              PlaceOccupiedResults, PlaceFailsResults
<1>8. CASE CompareChanged \/ AsideChanged \/ StepFails \/ Aside \/ AsideUnverified \/ Discard
  <2>1. UNCHANGED items
    BY <1>8 DEF CompareChanged, AsideChanged, StepFails, Aside, AsideUnverified, Discard, DiskStep,
       Error, Compensate, journal
  <2> QED  BY <1>8, <2>1, SameRow, RemovalChangedResults, AsideResults, DiscardResults
<1>9. CASE Complete \/ GiveUp \/ MarkFailed \/ MarkCancelled \/ SettleRecoveryRequired
           \/ PlaceIdentityChanged \/ RecoverFail \/ Resolve
  BY <1>9, CompleteResults, GiveUpResults, MarkFailedResults, CancelResults, PlaceIdentityResults,
     RecoverEndResults
<1>10. CASE CloseBatch \/ CloseProject \/ Crash \/ Open \/ RecoverFaults
  <2>1. UNCHANGED <<items, prepared, files>>
    BY <1>10 DEF CloseBatch, CloseProject, Crash, Open, RecoverFaults, Refuse, journal,
       Journal!FinishBatch
  <2> QED  BY <1>10, <2>1, SameRow, IdleResults DEF RecoverFaults
<1>11. CASE Restore \/ Interfere
  <2>1. UNCHANGED items
    BY <1>11 DEF Restore, Interfere, Refuse, journal
  <2> QED  BY <1>11, <2>1, SameRow, RestoreResults, InterfereResults
<1> QED
  BY <1>1, <1>2, <1>3, <1>4, <1>5, <1>6, <1>7, <1>8, <1>9, <1>10, <1>11
     DEF Next, Work, StageContent, FillDestination, RemoveSource, EndItem, Recover

\* In every state the worker knows how far its row and the files have come, and where a
\* row is about to end its content has arrived or has not left.
THEOREM ResultsInvariance == Spec => []FullInv
<1>1. Init => FullInv
  BY TransferInit, ResultInit DEF FullInv
<1>2. FullInv /\ [Next]_vars => FullInv'
  BY TransferStep, ResultStep DEF FullInv
<1> QED  BY <1>1, <1>2, PTL DEF Spec

\* No result is recorded that the disk does not bear out, on any route and whatever fails
\* or is changed by other applications, and the caller is told what the row records.
THEOREM ResultsAlwaysTrue == Spec => ResultsAreTrue
<1>1. FullInv /\ FullInv' /\ [Next]_vars =>
        [/\ row.result = "none" /\ row'.result # "none" =>
                IF row'.result = "completed" THEN Arrived /\ Left
                ELSE /\ {"orig", "foreign"} \cap ({disk["src"]} \cup gone) # {}
                     /\ disk["dst"] \notin {"orig", "copy"}
         /\ mode' = "idle" => row'.result \in Recorded']_vars
  BY ResultStep DEF FullInv, ResultInv, ToldWhatIsRecorded, EndsRight, Delivered, Undelivered
<1> QED  BY <1>1, ResultsInvariance, PTL DEF Spec, ResultsAreTrue

-----------------------------------------------------------------------------
(* When nothing but crashes happens. *)

\* What the destination held before the command, and what each place holds.
Before == IF policy = "Replace" THEN "old" ELSE NoFile
At(s, d, c, a) ==
    disk["src"] = s /\ disk["dst"] = d /\ disk["copyPart"] = c /\ disk["sidePart"] = a

\* A stage of the transfer: the row, the part it names, the files, and the steps at which
\* the worker or recovery may be then (apart from having stopped).
Scene(state, part, s, d, c, a, steps) ==
    row.state = state /\ temp = part /\ At(s, d, c, a) /\ step \in steps \cup {"none", "choose", "close"}

StagedCopy ==
    \/ Scene("Prepared", NoFile, "orig", Before, NoFile, NoFile, {"begin", "cancel"})
    \/ Scene("Prepared", "copyPart", "orig", Before, NoFile, NoFile, {"create", "cancel", "fail"})
    \/ Scene("Prepared", "copyPart", "orig", Before, "partial", NoFile, {"write"})
    \/ Scene("Prepared", "copyPart", "orig", Before, "copy", NoFile, {"stage"})
    \/ Scene("Staged", "copyPart", "orig", Before, "copy", NoFile, {"apply"})
    \/ Scene("FsApplied", "copyPart", "orig", Before, "copy", NoFile, {"verify"})
    \/ Scene("Verified", "copyPart", "orig", Before, "copy", NoFile, {"clear"})
    \/ Scene("Verified", "copyPart", "orig", NoFile, "copy", NoFile, {"place"})

PlacedCopy ==
    \/ Scene("Verified", "copyPart", "orig", "copy", NoFile, NoFile, {"metadata"})
    \/ Scene("MetaCommitted", "copyPart", "orig", "copy", NoFile, NoFile, {"index"})
    \/ Scene("IndexSynced", "copyPart", "orig", "copy", NoFile, NoFile, {"complete"})

MovedCopy ==
    \/ Scene("Verified", "copyPart", "orig", "copy", NoFile, NoFile, {"compare"})
    \/ Scene("Verified", "sidePart", "orig", "copy", NoFile, NoFile, {"aside"})
    \/ Scene("Verified", "sidePart", NoFile, "copy", NoFile, "orig", {"discard"})
    \/ Scene("Verified", "sidePart", NoFile, "copy", NoFile, NoFile, {"metadata"})
    \/ Scene("MetaCommitted", "sidePart", NoFile, "copy", NoFile, NoFile, {"index"})
    \/ Scene("IndexSynced", "sidePart", NoFile, "copy", NoFile, NoFile, {"complete"})

SetAside ==
    \/ Scene("Prepared", NoFile, "orig", Before, NoFile, NoFile, {"begin", "cancel"})
    \/ Scene("Prepared", "sidePart", "orig", Before, NoFile, NoFile, {"aside", "fail"})
    \/ Scene("Prepared", "sidePart", NoFile, Before, NoFile, "orig", {"stage", "restore"})
    \/ Scene("Staged", "sidePart", "orig", Before, NoFile, NoFile, {"fail"})
    \/ Scene("Staged", "sidePart", NoFile, Before, NoFile, "orig", {"discard", "clear", "restore"})

Exchanged ==
    \/ Scene("Staged", "sidePart", NoFile, NoFile, NoFile, "orig", {"place", "restore"})
    \/ Scene("Staged", "sidePart", "orig", NoFile, NoFile, NoFile, {"fail"})

\* The file set aside has arrived at the destination or in the Trash.
HasLeft(d) ==
    \/ Scene("Staged", "sidePart", NoFile, d, NoFile, NoFile, {"apply"})
    \/ Scene("FsApplied", "sidePart", NoFile, d, NoFile, NoFile, {"verify"})
    \/ Scene("Verified", "sidePart", NoFile, d, NoFile, NoFile, {"metadata"})
    \/ Scene("MetaCommitted", "sidePart", NoFile, d, NoFile, NoFile, {"index"})
    \/ Scene("IndexSynced", "sidePart", NoFile, d, NoFile, NoFile, {"complete"})

Unstarted == row.state = "Absent" /\ temp = NoFile /\ At("orig", Before, NoFile, NoFile)
Ended == row.state \in Journal!Terminal /\ temp = NoFile /\ step \in {"none", "choose", "close"}

Scenes ==
    CASE route = "Copy" -> StagedCopy \/ PlacedCopy
      [] route = "CrossMove" -> StagedCopy \/ MovedCopy
      [] route = "Trash" -> SetAside \/ HasLeft(NoFile)
      [] route = "Replace" -> SetAside \/ Exchanged \/ HasLeft("orig")

\* The evidence that a route which sets its file aside records before it does.
SetAsideHasEvidence == ~Copying /\ temp = "sidePart" => row.evidence

\* Recovery only verifies a copy that it can go on to place, and places it where nothing is.
VerifiedAgain ==
    mode = "recovering" /\ step = "verify" =>
        route # "CrossMove" /\ (route = "Copy" => disk["dst"] = NoFile)

\* A row that is under review is left alone until recovery looks at it again.
ReviewStands ==
    reviewed => /\ Undecidable /\ row.state # "Absent"
                /\ \/ mode \in {"idle", "closed"}
                   \/ mode = "recovering" /\ step \in {"choose", "close"}

FailsAgain == step = "fail" => mode = "recovering"

Calm ==
    /\ Unstarted \/ Ended \/ Scenes
    /\ SetAsideHasEvidence /\ VerifiedAgain /\ FailsAgain /\ ReviewStands
    /\ refused # "journal"

CalmInv == {faults, outside} \subseteq Nat /\ (faults + outside = 0 => Calm)

\* Errors and changes by others are only ever counted up.
LEMMA Counting ==
    ASSUME {faults, outside} \subseteq Nat, [Next]_vars
    PROVE  /\ {faults', outside'} \subseteq Nat
           /\ faults' + outside' = 0 => faults + outside = 0 /\ UNCHANGED <<faults, outside>>
<1> DEFINE Counted == /\ \E n \in {0, 1, 2} : faults' = faults + n
                      /\ \E n \in {0, 1} : outside' = outside + n
<1> SUFFICES Counted
  <2>1. SUFFICES ASSUME Counted
                 PROVE  /\ {faults', outside'} \subseteq Nat
                        /\ faults' + outside' = 0 => /\ faults + outside = 0
                                                    /\ UNCHANGED <<faults, outside>>
    OBVIOUS
  <2>2. PICK n \in {0, 1, 2} : faults' = faults + n
    BY <2>1
  <2>3. PICK m \in {0, 1} : outside' = outside + m
    BY <2>1
  <2>4. faults \in Nat /\ outside \in Nat
    OBVIOUS
  <2>5. n \in Nat /\ m \in Nat
    OBVIOUS
  <2> QED  BY <2>2, <2>3, <2>4, <2>5
<1>1. Charge(0) \/ Charge(1) \/ Charge(2) => Counted
  BY DEF Charge
<1>2. /\ Error(0) \/ Error(1) \/ Compensate(0) \/ Compensate(1) => Counted
      /\ Refuse(0, "io") \/ Refuse(1, "io") \/ Refuse(0, "journal") => Counted
      /\ Unstage(0, "fail", "keepFailed") \/ Unstage(1, "fail", "keepFailed") => Counted
      /\ Unstage(0, "cancel", "keepCancelled") => Counted
  BY DEF Charge, Error, Compensate, Refuse, Unstage
<1>3. CASE UNCHANGED bounds
  BY <1>3 DEF bounds
<1>10. CASE Crash \/ Interfere
  BY <1>10 DEF Crash, Interfere
<1> HIDE DEF Counted
<1>4. CASE StageContent
  BY <1>1, <1>2, <1>3, <1>4 DEF StageContent, Begin, BeginChanged, BeginCancelled, Create,
     CreateChanged, CreateUnbound, Write, WriteFails, WriteCancelled, Stage, Apply, Verify,
     JournalStep, DiskStep
<1>5. CASE FillDestination
  BY <1>1, <1>2, <1>3, <1>5 DEF FillDestination, Clear, ClearChanged, PutBack, GiveUp, Place, PlaceOccupied,
     PlaceFails, PlaceIdentityChanged, DiskStep
<1>6. CASE RemoveSource
  BY <1>1, <1>2, <1>3, <1>6 DEF RemoveSource, Compare, CompareChanged, Aside, AsideChanged,
     AsideUnverified, Discard, JournalStep, DiskStep
<1>7. CASE EndItem
  BY <1>1, <1>2, <1>3, <1>7 DEF EndItem, Metadata, Index, Complete, MarkFailed, MarkCancelled,
     SettleRecoveryRequired, CloseBatch, StepFails, JournalStep
<1>8. CASE Recover
  BY <1>1, <1>2, <1>3, <1>8 DEF Recover, Choose, RecoverFail, Resolve, Restore, RecoverFaults
<1>9. CASE Start \/ Open \/ CloseProject
  BY <1>3, <1>9 DEF Start, Open, CloseProject
<1>11. CASE UNCHANGED vars
  BY <1>3, <1>11 DEF vars
<1> QED  BY <1>4, <1>5, <1>6, <1>7, <1>8, <1>9, <1>10, <1>11 DEF Next, Work

\* What holds of every step in these runs.
Quiet == FullInv /\ Calm /\ {faults, outside} \subseteq Nat /\ UNCHANGED <<faults, outside>>

\* An error that is somebody's fault is not one of them.
LEMMA NoCharge == ASSUME Quiet, NEW n \in Nat \ {0} PROVE ~Charge(n)
BY DEF Quiet, Charge

\* The worker and recovery are only ever at the steps of a scene.
LEMMA AtScene ==
    ASSUME Quiet, mode \in {"executing", "recovering"}, step \notin {"choose", "close"}
    PROVE  /\ Scenes /\ ~reviewed
           /\ step \notin {"resolve", "keepFailed", "keepCancelled", "putBack", "giveUp"}
           /\ step = "fail" => mode = "recovering"
           /\ route = "Copy" \/ route = "CrossMove" \/ route = "Trash" \/ route = "Replace"
<1>1. step # "none"
  BY DEF Quiet, FullInv, TransferInv, WorkInv, WorkerKnows, StepsOf, CopySteps, Ending, DataInv, Prepared
<1>2. row.state # "Absent"
  BY WorkingRow DEF Quiet, FullInv
<1>3. Scenes
  BY <1>1, <1>2 DEF Quiet, Calm, Unstarted, Ended
<1>4. route = "Copy" \/ route = "CrossMove" \/ route = "Trash" \/ route = "Replace"
  BY DEF Quiet, FullInv, TransferInv, DataInv, Prepared
<1>5. step \notin {"resolve", "keepFailed", "keepCancelled", "putBack", "giveUp"}
  BY <1>1, <1>3, <1>4 DEF Scenes, Scene, StagedCopy, PlacedCopy, MovedCopy, SetAside, Exchanged, HasLeft
<1> QED  BY <1>3, <1>4, <1>5 DEF Quiet, Calm, FailsAgain, ReviewStands

\* What is needed after a step that leaves the row outside of a review.
LEMMA NewScene ==
    ASSUME Quiet, Scenes', ~reviewed, UNCHANGED <<reviewed, refused>>,
           step' = "fail" => mode' = "recovering", SetAsideHasEvidence', VerifiedAgain'
    PROVE  Calm'
BY DEF Quiet, Calm, FailsAgain, ReviewStands

\* Only a live row is in a scene.
LEMMA SceneIsLive ==
    ASSUME Prepared, Scenes
    PROVE  row.state \in Journal!LiveStates
<1> USE DEF Scene, Journal!LiveStates
<1>1. ASSUME NEW d, StagedCopy \/ PlacedCopy \/ MovedCopy \/ SetAside \/ Exchanged \/ HasLeft(d)
      PROVE  row.state \in Journal!LiveStates
  BY <1>1 DEF StagedCopy, PlacedCopy, MovedCopy, SetAside, Exchanged, HasLeft
<1>2. \/ StagedCopy \/ PlacedCopy \/ MovedCopy \/ SetAside \/ Exchanged
      \/ HasLeft(NoFile) \/ HasLeft("orig")
  <2>1. route = "Copy" \/ route = "CrossMove" \/ route = "Trash" \/ route = "Replace"
    BY DEF Prepared
  <2> HIDE DEF Scene
  <2> QED  BY <2>1 DEF Scenes
<1> QED  BY <1>1, <1>2

\* Where each step finds the row and the files.
LEMMA StepScenes ==
    ASSUME Quiet, mode \in {"executing", "recovering"}
    PROVE  /\ step \in {"begin", "cancel"} =>
                 row.state = "Prepared" /\ At("orig", Before, NoFile, NoFile)
           /\ step = "begin" => temp = NoFile
           /\ step \in {"create", "write"} => row.state = "Prepared" /\ temp = "copyPart" /\ Copying
           /\ step = "create" => At("orig", Before, NoFile, NoFile)
           /\ step = "write" => At("orig", Before, "partial", NoFile)
           /\ step = "stage" => row.state = "Prepared"
           /\ step = "apply" => row.state = "Staged"
           /\ step = "verify" => row.state = "FsApplied"
           /\ step \in {"stage", "apply", "verify"} /\ Copying =>
                 temp = "copyPart" /\ At("orig", Before, "copy", NoFile)
           /\ step \in {"clear", "place"} /\ Copying => row.state = "Verified" /\ temp = "copyPart"
           /\ step = "clear" /\ Copying => At("orig", Before, "copy", NoFile)
           /\ step = "place" /\ Copying => At("orig", NoFile, "copy", NoFile)
           /\ step = "compare" => /\ row.state = "Verified" /\ temp = "copyPart"
                                  /\ route = "CrossMove" /\ At("orig", "copy", NoFile, NoFile)
           /\ step \in {"aside", "discard"} => ~(route = "Copy") /\ temp = "sidePart"
           /\ step \in {"aside", "discard"} /\ Copying => row.state = "Verified"
           /\ step = "aside" /\ Copying => At("orig", "copy", NoFile, NoFile)
           /\ step = "discard" /\ Copying => At(NoFile, "copy", NoFile, "orig")
           /\ step = "aside" /\ ~Copying => row.state = "Prepared" /\ At("orig", Before, NoFile, NoFile)
           /\ step \in {"stage", "restore", "discard", "clear"} /\ ~Copying =>
                 temp = "sidePart" /\ disk["src"] = NoFile /\ disk["copyPart"] = NoFile
                 /\ disk["sidePart"] = "orig"
           /\ step \in {"stage", "discard", "clear"} /\ ~Copying => disk["dst"] = Before
           /\ step \in {"discard", "clear"} /\ ~Copying => row.state = "Staged"
           /\ step = "restore" =>
                 /\ ~Copying
                 /\ \/ row.state \in Early /\ disk["dst"] = Before
                    \/ row.state = "Staged" /\ disk["dst"] = NoFile /\ route = "Replace"
           /\ step = "place" /\ ~Copying => /\ row.state = "Staged" /\ temp = "sidePart"
                                            /\ route = "Replace" /\ At(NoFile, NoFile, NoFile, "orig")
           /\ step \in {"apply", "verify"} /\ ~Copying =>
                 /\ temp = "sidePart"
                 /\ At(NoFile, IF route = "Replace" THEN "orig" ELSE NoFile, NoFile, NoFile)
           /\ step = "metadata" => row.state = "Verified"
           /\ step = "index" => row.state = "MetaCommitted"
           /\ step = "complete" => row.state = "IndexSynced"
           /\ step \in Ending => /\ disk["copyPart"] = NoFile /\ disk["sidePart"] = NoFile
                                 /\ temp = IF route = "Copy" THEN "copyPart" ELSE "sidePart"
                                 /\ disk["src"] = IF route = "Copy" THEN "orig" ELSE NoFile
                                 /\ disk["dst"] = IF Copying THEN "copy"
                                                  ELSE IF route = "Replace" THEN "orig" ELSE NoFile
           /\ step = "fail" => /\ mode = "recovering" /\ row.state \in Early
           /\ step \notin {"choose", "close"} => ~reviewed /\ row.state \in Journal!LiveStates
<1>1. step \in {"choose", "close"} \/
         /\ Scenes /\ ~reviewed
         /\ step = "fail" => mode = "recovering"
         /\ route = "Copy" \/ route = "CrossMove" \/ route = "Trash" \/ route = "Replace"
         /\ step # "none"
  BY AtScene DEF Quiet, FullInv, TransferInv, WorkInv, WorkerKnows, StepsOf, CopySteps, Ending, DataInv, Prepared
<1> USE DEF Scene, StagedCopy, SetAside, Copying, At, Early, Ending, Journal!LiveStates
<1>6. CASE step \in {"choose", "close"}
  BY <1>6
<1>2. CASE route = "Copy"
  BY <1>1, <1>2 DEF Scenes, PlacedCopy
<1>3. CASE route = "CrossMove"
  BY <1>1, <1>3 DEF Scenes, MovedCopy
<1>4. CASE route \in {"Trash", "Replace"}
  <2>1. step \notin {"choose", "close"} =>
           \/ SetAside
           \/ HasLeft(NoFile) /\ route = "Trash"
           \/ (Exchanged \/ HasLeft("orig")) /\ route = "Replace"
    <3> HIDE DEF SetAside
    <3>1. CASE route = "Trash"
      BY <1>1, <3>1 DEF Scenes
    <3>2. CASE route = "Replace"
      BY <1>1, <3>2 DEF Scenes
    <3> QED  BY <1>4, <3>1, <3>2
  <2>2. CASE SetAside
    BY <1>1, <1>4, <2>2
  <2>3. CASE Exchanged /\ route = "Replace"
    BY <1>1, <1>4, <2>3 DEF Exchanged
  <2>4. CASE HasLeft(NoFile) /\ route = "Trash"
    BY <1>1, <1>4, <2>4 DEF HasLeft
  <2>5. CASE HasLeft("orig") /\ route = "Replace"
    BY <1>1, <1>4, <2>5 DEF HasLeft
  <2> QED  BY <2>1, <2>2, <2>3, <2>4, <2>5, <1>6
<1> QED  BY <1>1, <1>2, <1>3, <1>4, <1>6

\* The steps that only move the row on.
LEMMA OnwardCalm ==
    ASSUME Quiet, Stage \/ Apply \/ Verify \/ Metadata \/ Index
    PROVE  Calm'
<1>1. /\ UNCHANGED <<temp, prepared, files, mode, reviewed, refused>>
      /\ mode \in {"executing", "recovering"} /\ step' = Following
      /\ \/ step = "stage" /\ mode = "executing" /\ Journal!Advance(1, "Prepared", "Staged")
         \/ step = "apply" /\ Journal!RecordFsApplied(1)
         \/ step = "verify" /\ Journal!Advance(1, "FsApplied", "Verified")
         \/ step = "metadata" /\ Journal!Advance(1, "Verified", "MetaCommitted")
         \/ step = "index" /\ Journal!Advance(1, "MetaCommitted", "IndexSynced")
  BY DEF Stage, Apply, Verify, Metadata, Index, Executing, Working, JournalStep, GoTo
<1>2. /\ step \in {"stage", "apply", "verify", "metadata", "index"}
      /\ row'.evidence = row.evidence \/ row'.evidence
      /\ step = "stage" => row'.state = "Staged"
      /\ step = "apply" => row'.state = "FsApplied"
      /\ step = "verify" => row'.state = "Verified"
      /\ step = "metadata" => row'.state = "MetaCommitted"
      /\ step = "index" => row'.state = "IndexSynced"
  BY <1>1, AdvanceWrite, AppliedWrite, RowIsTyped DEF Quiet, FullInv
<1>3. /\ route = "Copy" \/ route = "CrossMove" \/ route = "Trash" \/ route = "Replace"
      /\ ~reviewed /\ route' = route /\ temp' = temp /\ Before' = Before
      /\ disk' = disk
  BY <1>1, <1>2, StepScenes DEF Quiet, FullInv, TransferInv, DataInv, Prepared, prepared, files, Before
<1>4. /\ mode = "recovering" /\ step \in {"stage", "apply"} => ~Copying
      /\ route = "Trash" => policy = "Skip"
  BY <1>1, <1>2 DEF Quiet, FullInv, TransferInv, DataInv, WorkInv, WorkerKnows, Ending, Prepared
<1>5. /\ step = "stage" => step' = IF Copying THEN "apply" ELSE IF route = "Trash" THEN "discard" ELSE "clear"
      /\ step = "apply" => step' = "verify"
      /\ step = "verify" => step' = IF mode = "recovering"
                                    THEN IF route = "Copy" THEN "place" ELSE "metadata"
                                    ELSE IF Copying THEN "clear" ELSE "metadata"
      /\ step = "metadata" => step' = "index"
      /\ step = "index" => step' = "complete"
  <2>1. CASE ~(mode = "recovering" /\ step = "verify")
    BY <1>1, <1>2, <1>3, <2>1, PathOf DEF Copying
  <2>2. CASE mode = "recovering" /\ step = "verify"
    <3>1. route = "Copy" => disk["copyPart"] = "copy"
      BY <1>1, <2>2, StepScenes DEF Copying, At
    <3> QED  BY <1>1, <2>2, <3>1 DEF Following, NoFile
  <2> QED  BY <2>1, <2>2
<1>6. mode = "recovering" /\ step = "verify" => route # "CrossMove" /\ (route = "Copy" => disk["dst"] = NoFile)
  BY DEF Quiet, Calm, VerifiedAgain
<1>7. Scenes'
  <2> USE DEF Scene, At, Copying, Ending
  <2>1. CASE route = "Copy"
    <3>1. StagedCopy' \/ PlacedCopy'
      BY <1>1, <1>2, <1>3, <1>4, <1>5, <1>6, <2>1, StepScenes DEF StagedCopy, PlacedCopy
    <3> QED  BY <1>3, <2>1, <3>1 DEF Scenes
  <2>2. CASE route = "CrossMove"
    <3>1. StagedCopy' \/ MovedCopy'
      BY <1>1, <1>2, <1>3, <1>4, <1>5, <1>6, <2>2, StepScenes DEF StagedCopy, MovedCopy
    <3> QED  BY <1>3, <2>2, <3>1 DEF Scenes
  <2>3. CASE route = "Trash"
    <3>1. SetAside' \/ HasLeft(NoFile)'
      BY <1>1, <1>2, <1>3, <1>4, <1>5, <2>3, StepScenes DEF SetAside, HasLeft
    <3> QED  BY <1>3, <2>3, <3>1 DEF Scenes
  <2>4. CASE route = "Replace"
    <3>1. SetAside' \/ HasLeft("orig")'
      BY <1>1, <1>2, <1>3, <1>4, <1>5, <2>4, StepScenes DEF SetAside, HasLeft
    <3> QED  BY <1>3, <2>4, <3>1 DEF Scenes
  <2> QED  BY <1>3, <2>1, <2>2, <2>3, <2>4
<1>8. SetAsideHasEvidence' /\ VerifiedAgain'
  BY <1>1, <1>2, <1>3, <1>4, <1>5 DEF Quiet, Calm, SetAsideHasEvidence, VerifiedAgain, Copying
<1> QED  BY <1>1, <1>2, <1>3, <1>5, <1>7, <1>8, NewScene

\* The plan is written, the part is registered, the item is cancelled before it has one.
LEMMA OpeningCalm ==
    ASSUME Quiet, Start \/ Begin \/ BeginCancelled \/ Compare
    PROVE  Calm'
<1>1. /\ UNCHANGED <<prepared, files, reviewed, refused>> /\ mode' = "executing"
      /\ \/ mode = "idle" /\ step' = "begin" /\ temp' = temp /\ row.state = "Absent"
            /\ Journal!BeginPlan("batch", {1}, policy, "planned")
         \/ mode = "executing" /\ step = "begin" /\ step' = "cancel" /\ UNCHANGED <<items, temp>>
         \/ mode = "executing" /\ step = "compare" /\ step' = Following /\ temp' = "sidePart"
            /\ Journal!RegisterTemporary(1, "Verified")
         \/ mode = "executing" /\ step = "begin" /\ step' = Following
            /\ IF Copying THEN Journal!RegisterTemporary(1, "Prepared") /\ temp' = "copyPart"
               ELSE Journal!RecordPreparedEvidence(1) /\ temp' = "sidePart"
  BY DEF Start, Begin, BeginCancelled, Compare, Executing, JournalStep, GoTo, Copying, journal
<1>2. /\ route = "Copy" \/ route = "CrossMove" \/ route = "Trash" \/ route = "Replace"
      /\ route' = route /\ Before' = Before /\ disk' = disk /\ RowTyped /\ Prepared
  BY <1>1, RowIsTyped DEF Quiet, FullInv, TransferInv, DataInv, Prepared, prepared, files, Before
<1>3. ~reviewed
  BY <1>1, StepScenes DEF Quiet, Calm, ReviewStands
<1>4. CASE mode = "idle"
  <2>1. row'.state = "Prepared" /\ temp' = NoFile /\ step' = "begin" /\ row.state = "Absent"
    BY <1>1, <1>2, <1>4, PlanWrite DEF Quiet, FullInv, TransferInv, DataInv, PartsAreNamed
  <2>2. At("orig", Before, NoFile, NoFile)
    <3>1. row.state \notin Journal!Terminal \cup Journal!LiveStates
      BY <2>1 DEF Journal!Terminal, Journal!LiveStates
    <3> QED  BY <1>2, <3>1, SceneIsLive DEF Quiet, Calm, Unstarted, Ended
  <2>3. Scenes'
    BY <1>2, <2>1, <2>2 DEF Scenes, StagedCopy, SetAside, Scene, At
  <2> QED  BY <1>1, <1>3, <2>1, <2>3, NewScene DEF SetAsideHasEvidence, VerifiedAgain, NoFile
<1>5. CASE mode = "executing" /\ step = "begin"
  <2>1. row.state = "Prepared" /\ temp = NoFile /\ At("orig", Before, NoFile, NoFile)
    BY <1>5, StepScenes
  <2>2. CASE step' = "cancel" /\ UNCHANGED <<items, temp>>
    <3>1. Scenes'
      BY <1>2, <2>1, <2>2 DEF Scenes, StagedCopy, SetAside, Scene, At, row
    <3> QED  BY <1>1, <1>3, <2>1, <2>2, <3>1, NewScene DEF SetAsideHasEvidence, VerifiedAgain, NoFile
  <2>3. CASE /\ Copying /\ step' = Following /\ temp' = "copyPart"
             /\ Journal!RegisterTemporary(1, "Prepared")
    <3>1. row'.state = "Prepared" /\ step' = "create"
      BY <1>2, <1>5, <2>1, <2>3, RegisterWrite, PathOf
    <3>2. Scenes'
      BY <1>2, <2>1, <2>3, <3>1 DEF Scenes, StagedCopy, Scene, At, Copying
    <3> QED  BY <1>1, <1>3, <2>3, <3>1, <3>2, NewScene DEF SetAsideHasEvidence, VerifiedAgain
  <2>4. CASE /\ ~Copying /\ step' = Following /\ temp' = "sidePart"
             /\ Journal!RecordPreparedEvidence(1)
    <3>1. row'.state = "Prepared" /\ row'.evidence /\ step' = "aside"
      BY <1>2, <1>5, <2>4, EvidenceWrite, PathOf DEF Copying
    <3>2. Scenes'
      BY <1>2, <2>1, <2>4, <3>1 DEF Scenes, SetAside, Scene, At, Copying
    <3> QED  BY <1>1, <1>3, <3>1, <3>2, NewScene DEF SetAsideHasEvidence, VerifiedAgain
  <2> QED  BY <1>1, <1>5, <2>2, <2>3, <2>4
<1>6. CASE mode = "executing" /\ step = "compare"
  <2>1. /\ row.state = "Verified" /\ route = "CrossMove"
        /\ At("orig", "copy", NoFile, NoFile)
    BY <1>6, StepScenes
  <2>2. row'.state = "Verified" /\ step' = "aside" /\ temp' = "sidePart"
    BY <1>1, <1>2, <1>6, <2>1, RegisterWrite, PathOf
  <2>3. Scenes'
    BY <1>2, <2>1, <2>2 DEF Scenes, MovedCopy, Scene, At
  <2> QED  BY <1>1, <1>2, <1>3, <2>1, <2>2, <2>3, NewScene DEF SetAsideHasEvidence, VerifiedAgain, Copying
<1> QED  BY <1>1, <1>4, <1>5, <1>6

\* The part is created, filled, and unlinked when the item is cancelled.
LEMMA PartCalm ==
    ASSUME Quiet, Create \/ Write \/ WriteCancelled
    PROVE  Calm'
<1>1. /\ UNCHANGED <<items, temp, prepared, mode, reviewed, refused>> /\ mode = "executing"
      /\ \/ step = "create" /\ step' = Following /\ disk' = [disk EXCEPT !["copyPart"] = "partial"]
         \/ step = "write" /\ step' = Following /\ disk' = [disk EXCEPT !["copyPart"] = "copy"]
         \/ step = "write" /\ step' = "cancel" /\ disk' = [disk EXCEPT !["copyPart"] = NoFile]
  <2>1. ~Charge(1) /\ ~Charge(0 + 1)
    BY NoCharge
  <2> QED
    BY <2>1 DEF Create, Write, WriteCancelled, Unstage, Vacate, Executing, DiskStep, GoTo, journal
<1>2. /\ row.state = "Prepared" /\ temp = "copyPart" /\ Copying /\ ~reviewed
      /\ disk["src"] = "orig" /\ disk["dst"] = Before /\ disk["sidePart"] = NoFile
  BY <1>1, StepScenes DEF At
<1>3. /\ step = "create" => Following = "write"
      /\ step = "write" => Following = "stage"
  BY <1>1, <1>2, PathOf
<1>4. /\ disk'["src"] = disk["src"] /\ disk'["dst"] = disk["dst"]
      /\ disk'["sidePart"] = disk["sidePart"]
      /\ disk' = [disk EXCEPT !["copyPart"] = "partial"] => disk'["copyPart"] = "partial"
      /\ disk' = [disk EXCEPT !["copyPart"] = "copy"] => disk'["copyPart"] = "copy"
      /\ disk' = [disk EXCEPT !["copyPart"] = NoFile] => disk'["copyPart"] = NoFile
  BY <1>1 DEF Quiet, FullInv, TransferInv, DataInv, FileTypes, Places
<1>5. row'.state = "Prepared" /\ temp' = "copyPart" /\ Before' = Before /\ route' = route
  BY <1>1, <1>2 DEF row, Before, prepared
<1>6. StagedCopy'
  BY <1>1, <1>2, <1>3, <1>4, <1>5 DEF StagedCopy, Scene, At
<1>7. Scenes'
  BY <1>2, <1>5, <1>6 DEF Scenes, Copying
<1>8. step' # "fail" /\ VerifiedAgain' /\ SetAsideHasEvidence'
  BY <1>1, <1>3, <1>5 DEF VerifiedAgain, SetAsideHasEvidence
<1> QED  BY <1>1, <1>2, <1>7, <1>8, NewScene

\* The destination is cleared and filled.
LEMMA FillCalm ==
    ASSUME Quiet, Clear \/ Place
    PROVE  Calm'
<1>1. /\ UNCHANGED <<items, temp, prepared, mode, reviewed, refused>> /\ mode \in {"executing", "recovering"}
      /\ step' = Following
      /\ \/ step = "clear" /\ mode = "executing" /\ policy = "Replace" /\ disk' = [disk EXCEPT !["dst"] = NoFile]
         \/ step = "clear" /\ mode = "executing" /\ route # "Replace" /\ UNCHANGED disk
            /\ (policy = "Skip" \/ disk["dst"] = NoFile)
         \/ step = "place" /\ Move(Staging, "dst")
  BY DEF Clear, Place, Working, Executing, DiskStep, GoTo, journal, Vacate
<1>2. /\ route = "Copy" \/ route = "CrossMove" \/ route = "Replace"
      /\ route = "Replace" => policy = "Replace"
      /\ mode = "recovering" => route = "Copy"
  BY <1>1 DEF Quiet, FullInv, TransferInv, DataInv, WorkInv, WorkerKnows, StepsOf, CopySteps, Ending, Prepared
<1>3. disk \in [Places -> Contents \cup {NoFile}] /\ ~reviewed
  BY <1>1, StepScenes DEF Quiet, FullInv, TransferInv, DataInv, FileTypes
<1>4. UNCHANGED <<row, temp, route>> /\ Before' = Before
  BY <1>1 DEF row, Before, prepared
<1>5. CASE step = "clear"
  <2>1. step' = "place" /\ disk["dst"] = Before
    BY <1>1, <1>2, <1>5, PathOf, StepScenes DEF Copying, At
  <2>2. /\ disk'["src"] = disk["src"] /\ disk'["copyPart"] = disk["copyPart"]
        /\ disk'["sidePart"] = disk["sidePart"] /\ disk'["dst"] = NoFile
    BY <1>1, <1>3, <1>5, <2>1 DEF Places, Before, NoFile
  <2>3. Scenes'
    <3>1. CASE Copying
      <4>1. row.state = "Verified" /\ temp = "copyPart" /\ At("orig", Before, "copy", NoFile)
        BY <1>1, <1>5, <3>1, StepScenes
      <4>2. StagedCopy'
        BY <1>4, <2>1, <2>2, <4>1 DEF StagedCopy, Scene, At
      <4> QED  BY <1>2, <1>4, <3>1, <4>2 DEF Scenes, Copying
    <3>2. CASE ~Copying
      <4>1. row.state = "Staged" /\ temp = "sidePart" /\ At(NoFile, Before, NoFile, "orig")
        BY <1>1, <1>5, <3>2, StepScenes DEF At
      <4>2. Exchanged'
        BY <1>4, <2>1, <2>2, <4>1 DEF Exchanged, Scene, At
      <4> QED  BY <1>2, <1>4, <3>2, <4>2 DEF Scenes, Copying
    <3> QED  BY <3>1, <3>2
  <2> QED  BY <1>1, <1>3, <1>4, <2>1, <2>3, NewScene DEF Quiet, Calm, SetAsideHasEvidence, VerifiedAgain,
              Copying
<1>6. CASE step = "place"
  <2>1. step' = (IF route = "Copy" THEN "metadata" ELSE IF route = "CrossMove" THEN "compare" ELSE "apply")
    BY <1>1, <1>2, <1>6, PathOf
  <2>2. Scenes'
    <3>1. CASE Copying
      <4>1. row.state = "Verified" /\ temp = "copyPart" /\ At("orig", NoFile, "copy", NoFile)
        BY <1>1, <1>6, <3>1, StepScenes
      <4>2. disk' = [disk EXCEPT !["dst"] = disk["copyPart"], !["copyPart"] = NoFile]
        BY <1>1, <1>6, <3>1 DEF Move, Staging, Copying
      <4>3. At("orig", "copy", NoFile, NoFile)'
        BY <1>3, <4>1, <4>2 DEF Places, At
      <4>4. CASE route = "Copy"
        <5>1. PlacedCopy'
          BY <1>4, <2>1, <4>1, <4>3, <4>4 DEF PlacedCopy, Scene
        <5> QED  BY <1>4, <4>4, <5>1 DEF Scenes
      <4>5. CASE route = "CrossMove"
        <5>1. MovedCopy'
          BY <1>4, <2>1, <4>1, <4>3, <4>5 DEF MovedCopy, Scene
        <5> QED  BY <1>4, <4>5, <5>1 DEF Scenes
      <4> QED  BY <3>1, <4>4, <4>5 DEF Copying
    <3>2. CASE ~Copying
      <4>1. /\ row.state = "Staged" /\ temp = "sidePart" /\ route = "Replace"
            /\ At(NoFile, NoFile, NoFile, "orig")
        BY <1>1, <1>6, <3>2, StepScenes
      <4>2. disk' = [disk EXCEPT !["dst"] = disk["sidePart"], !["sidePart"] = NoFile]
        BY <1>1, <1>6, <4>1 DEF Move, Staging
      <4>3. At(NoFile, "orig", NoFile, NoFile)'
        BY <1>3, <4>1, <4>2 DEF Places, At
      <4>4. HasLeft("orig")'
        BY <1>4, <2>1, <4>1, <4>3 DEF HasLeft, Scene
      <4> QED  BY <1>4, <4>1, <4>4 DEF Scenes
    <3> QED  BY <3>1, <3>2
  <2> QED  BY <1>1, <1>3, <1>4, <2>1, <2>2, NewScene DEF Quiet, Calm, SetAsideHasEvidence, VerifiedAgain,
              Copying
<1> QED  BY <1>1, <1>5, <1>6

\* The source is set aside and goes to the Trash, or recovery puts it back.
LEMMA RemoveCalm ==
    ASSUME Quiet, Aside \/ Discard \/ Restore
    PROVE  Calm'
<1>1. /\ mode \in {"executing", "recovering"} /\ step \in {"aside", "discard", "restore"}
      /\ Aside \/ Discard => mode = "executing"
      /\ Restore => mode = "recovering"
      /\ Aside => step = "aside"
      /\ Discard => step = "discard"
      /\ Restore => step = "restore"
  BY DEF Aside, Discard, Restore, Executing, Recovering
<1>2. /\ disk \in [Places -> Contents \cup {NoFile}] /\ ~reviewed /\ temp = "sidePart"
      /\ route = "CrossMove" \/ route = "Trash" \/ route = "Replace"
      /\ Discard => route # "Replace"
  BY <1>1, StepScenes DEF Quiet, FullInv, TransferInv, DataInv, FileTypes, Prepared, WorkInv, WorkerKnows,
     StepsOf, Ending, Copying
<1>3. /\ Aside => disk["src"] = "orig"
      /\ Discard \/ Restore => disk["src"] = NoFile
  BY <1>1, StepScenes DEF At, Copying
<1>4. /\ UNCHANGED <<items, temp, prepared, mode, reviewed, refused>>
      /\ Aside => disk' = [disk EXCEPT !["sidePart"] = disk["src"], !["src"] = NoFile] /\ step' = Following
      /\ Discard => disk' = [disk EXCEPT !["sidePart"] = NoFile] /\ step' = Following
      /\ Restore => disk' = [disk EXCEPT !["src"] = disk["sidePart"], !["sidePart"] = NoFile]
                    /\ step' = "fail"
  BY <1>3 DEF Aside, Discard, Restore, DiskStep, GoTo, journal, Vacate, Move, NoFile
<1>5. UNCHANGED <<row, temp, route, mode>> /\ Before' = Before
  BY <1>4 DEF row, Before, prepared
<1>6. /\ disk'["dst"] = disk["dst"] /\ disk'["copyPart"] = disk["copyPart"]
      /\ Aside => disk'["src"] = NoFile /\ disk'["sidePart"] = disk["src"]
      /\ Discard => disk'["src"] = disk["src"] /\ disk'["sidePart"] = NoFile
      /\ Restore => disk'["src"] = disk["sidePart"] /\ disk'["sidePart"] = NoFile
  BY <1>2, <1>4 DEF Places
<1>7. /\ Aside => step' = IF route = "CrossMove" THEN "discard" ELSE "stage"
      /\ Discard => step' = IF route = "Trash" THEN "apply" ELSE "metadata"
      /\ Restore => step' = "fail"
  BY <1>1, <1>2, <1>4, PathOf
<1>8. Scenes'
  <2>1. CASE route = "CrossMove"
    <3>1. ~Restore /\ Copying
      BY <1>1, <2>1, StepScenes DEF Copying
    <3>2. MovedCopy'
      BY <1>1, <1>2, <1>3, <1>5, <1>6, <1>7, <2>1, <3>1, StepScenes DEF MovedCopy, Scene, At
    <3> QED  BY <1>5, <2>1, <3>2 DEF Scenes
  <2>2. CASE route = "Trash"
    <3>1. Before = NoFile /\ ~Copying
      BY <2>2 DEF Quiet, FullInv, TransferInv, DataInv, Prepared, Before, Copying
    <3>2. SetAside' \/ HasLeft(NoFile)'
      BY <1>1, <1>2, <1>3, <1>5, <1>6, <1>7, <2>2, <3>1, StepScenes DEF SetAside, HasLeft, Scene, At, Early
    <3> QED  BY <1>5, <2>2, <3>2 DEF Scenes
  <2>3. CASE route = "Replace"
    <3>1. ~Copying /\ ~Discard
      BY <1>2, <2>3 DEF Copying
    <3>2. SetAside' \/ Exchanged'
      BY <1>1, <1>2, <1>3, <1>5, <1>6, <1>7, <2>3, <3>1, StepScenes DEF SetAside, Exchanged, Scene, At, Early
    <3> QED  BY <1>5, <2>3, <3>2 DEF Scenes
  <2> QED  BY <1>2, <2>1, <2>2, <2>3
<1>9. step' # "verify" /\ (step' = "fail" => mode' = "recovering")
  BY <1>1, <1>5, <1>7
<1>10. SetAsideHasEvidence' /\ VerifiedAgain'
  BY <1>5, <1>9 DEF Quiet, Calm, SetAsideHasEvidence, VerifiedAgain, Copying
<1> QED  BY <1>2, <1>4, <1>8, <1>9, <1>10, NewScene

\* The row ends and lets its part go.
LEMMA EndingCalm ==
    ASSUME Quiet, Complete \/ MarkCancelled \/ RecoverFail
    PROVE  Calm'
<1>1. mode \in {"executing", "recovering"} /\ step \in {"complete", "cancel", "fail"}
  BY DEF Complete, MarkCancelled, RecoverFail, Executing, Working, Recovering
<1>2. row.state \in Journal!LiveStates /\ ~reviewed
  BY <1>1, StepScenes
<1>3. /\ UNCHANGED <<prepared, files, reviewed, refused, mode>> /\ temp' = NoFile
      /\ \/ Journal!CompleteItem(1, "IndexSynced") /\ step = "complete" /\ step' = Following
         \/ Journal!SkipItem(1, row.state, FALSE) /\ step' = "close"
         \/ Journal!FailItem(1, row.state, FALSE) /\ step' = "close"
  BY <1>2 DEF Complete, MarkCancelled, RecoverFail, Executing, Working, Recovering, GoTo
<1>4. row'.state \in Journal!Terminal
  BY <1>3, EndWrite, RowIsTyped DEF Quiet, FullInv
<1>5. route \in {"Copy", "CrossMove", "Trash", "Replace"}
  BY DEF Quiet, FullInv, TransferInv, DataInv, Prepared
<1>6. step' = "close"
  BY <1>1, <1>3, <1>5, PathOf
<1> QED
  BY <1>2, <1>3, <1>4, <1>6 DEF Quiet, Calm, Ended, SetAsideHasEvidence, VerifiedAgain, FailsAgain,
     ReviewStands, NoFile

\* A worker that stops, or looks at the row again, leaves everything as it is.
LEMMA RestCalm ==
    ASSUME Quiet, UNCHANGED <<items, temp, prepared, files, reviewed>>,
           step' \in {"none", "choose", "close"} \/ UNCHANGED <<mode, step>>, refused' # "journal",
           reviewed => \/ mode' \in {"idle", "closed"}
                       \/ mode' = "recovering" /\ step' \in {"choose", "close"}
    PROVE  Calm'
<1>1. UNCHANGED <<row, temp, route, policy, disk>> /\ Before' = Before
  BY DEF row, prepared, files, Before
<1> USE DEF Quiet, Calm
<1>2. Unstarted => Unstarted'
  BY <1>1 DEF Unstarted, At
<1>3. Ended => Ended'
  BY <1>1 DEF Ended
<1>4. Scenes => Scenes'
  <2> USE DEF Scene, At
  <2>1. /\ StagedCopy => StagedCopy'
        /\ PlacedCopy => PlacedCopy'
        /\ MovedCopy => MovedCopy'
        /\ SetAside => SetAside'
        /\ Exchanged => Exchanged'
    BY <1>1 DEF StagedCopy, PlacedCopy, MovedCopy, SetAside, Exchanged
  <2>2. /\ HasLeft(NoFile) => HasLeft(NoFile)'
        /\ HasLeft("orig") => HasLeft("orig")'
    BY <1>1 DEF HasLeft
  <2>3. route = "Copy" \/ route = "CrossMove" \/ route = "Trash" \/ route = "Replace"
    BY DEF FullInv, TransferInv, DataInv, Prepared
  <2> HIDE DEF Scene, At
  <2> QED  BY <1>1, <2>1, <2>2, <2>3 DEF Scenes
<1>5. ReviewStands'
  BY <1>1 DEF ReviewStands, Undecidable, OnDisk, Places
<1>6. SetAsideHasEvidence' /\ VerifiedAgain' /\ FailsAgain'
  BY <1>1 DEF SetAsideHasEvidence, VerifiedAgain, FailsAgain, Copying
<1> QED  BY <1>2, <1>3, <1>4, <1>5, <1>6

LEMMA StopCalm ==
    ASSUME Quiet, CloseBatch \/ CloseProject \/ Crash \/ Open
    PROVE  Calm'
<1>1. /\ UNCHANGED <<items, temp, prepared, files, reviewed>>
      /\ step' \in {"none", "choose"} /\ refused' \in {refused, "no"}
      /\ \/ mode' \in {"idle", "closed"}
         \/ mode' = "recovering" /\ step' = "choose"
  BY DEF CloseBatch, CloseProject, Crash, Open, Shutdown, journal, Journal!FinishBatch
<1>2. refused' # "journal"
  BY <1>1 DEF Quiet, Calm
<1> QED  BY <1>1, <1>2, RestCalm

-----------------------------------------------------------------------------
(* What recovery decides when nothing but crashes has happened. *)

\* What candidate_status says of the files of a scene.
LEMMA SceneStatus ==
    ASSUME NEW p \in Places
    PROVE  /\ disk[p] = NoFile => Status(p) = "Missing"
           /\ disk[p] \in {"orig", "copy"} => Status(p) = "Match"
           /\ disk[p] \in {"old", "partial"} => Status(p) = "Conflict"
           /\ Status(NoFile) = "Missing"
BY DEF Status, Same, NoFile, Places

\* The decision leads on to the step of the scene, or the scene cannot be decided.
GoesOn == IF Decision = "review" THEN Undecidable
          ELSE Scenes' /\ (step' = "verify" => route # "CrossMove" /\ (route = "Copy" => disk["dst"] = NoFile))

LEMMA CopyGoesOn ==
    ASSUME Quiet, Choose, route = "Copy", StagedCopy \/ PlacedCopy
    PROVE  GoesOn
<1>1. /\ UNCHANGED <<items, temp, prepared, files>> /\ step' = IF Decision = "review" THEN "close" ELSE Decision
      /\ Decision = RecoverCopy
  BY DEF Choose, journal, Decision
<1>2. /\ UNCHANGED <<row, temp, route, disk>> /\ Before' = Before /\ Before \in {"old", NoFile}
      /\ policy \in {"Skip", "Replace"}
  BY <1>1 DEF Before, row, prepared, files, Quiet, FullInv, TransferInv, DataInv, Prepared
<1> USE DEF Scene, At
<1>3. CASE temp = NoFile
  BY <1>1, <1>3 DEF RecoverCopy, Undecidable, GoesOn, NoFile
<1>4. CASE temp = "copyPart" /\ row.state \in Early
  <2>1. CASE disk["copyPart"] # NoFile
    BY <1>1, <1>4, <2>1 DEF RecoverCopy, Undecidable, GoesOn
  <2>2. CASE disk["copyPart"] = NoFile
    <3>1. Decision = "fail" /\ row.state = "Prepared" /\ At("orig", Before, NoFile, NoFile)
      <4>1. row.state = "Prepared" /\ At("orig", Before, NoFile, NoFile)
        BY <1>4, <2>2 DEF StagedCopy, PlacedCopy, NoFile, Early
      <4>2. row.state \notin Journal!Terminal /\ disk["src"] # NoFile
        BY <4>1 DEF Journal!Terminal, NoFile
      <4> QED  BY <1>1, <1>4, <2>2, <4>1, <4>2 DEF RecoverCopy
    <3>2. StagedCopy'
      BY <1>1, <1>2, <1>4, <3>1 DEF StagedCopy
    <3> QED  BY <1>1, <1>2, <3>1, <3>2 DEF GoesOn, Scenes
  <2> QED  BY <2>1, <2>2
<1>5. CASE temp = "copyPart" /\ row.state \notin Early
  <2>1. /\ row.state \in {"FsApplied", "Verified", "MetaCommitted", "IndexSynced"}
        /\ \/ row.state \in {"FsApplied", "Verified"} /\ At("orig", Before, "copy", NoFile)
           \/ row.state = "Verified" /\ At("orig", NoFile, "copy", NoFile)
           \/ row.state # "FsApplied" /\ At("orig", "copy", NoFile, NoFile)
    BY <1>2, <1>5 DEF StagedCopy, PlacedCopy, Early, NoFile
  <2>2. /\ TempStatus = Status("copyPart") /\ DestinationStatus = Status("dst")
        /\ "copyPart" \in Places /\ "dst" \in Places
    BY <1>5 DEF TempStatus, DestinationStatus, Places
  <2>3. /\ row.state \notin Early \cup Journal!Terminal
        /\ FinishFrom = CASE row.state = "FsApplied" -> "verify" [] row.state = "Verified" -> "metadata"
                          [] row.state = "MetaCommitted" -> "index" [] row.state = "IndexSynced" -> "complete"
    BY <2>1 DEF Early, Journal!Terminal, FinishFrom
  <2>4. RecoverCopy = IF {TempStatus, DestinationStatus} # {"Match", "Missing"} THEN "review"
                      ELSE IF TempStatus = "Missing" THEN FinishFrom
                      ELSE CASE row.state = "FsApplied" -> "verify"
                             [] row.state = "Verified" -> "place"
                             [] OTHER -> "review"
    BY <1>5, <2>3 DEF RecoverCopy
  <2>5. CASE disk["dst"] = "old"
    <3>1. TempStatus = "Match" /\ DestinationStatus = "Conflict" /\ policy = "Replace"
      BY <1>2, <2>1, <2>2, <2>5, SceneStatus DEF Before, NoFile
    <3>2. Decision = "review"
      BY <1>1, <2>4, <3>1
    <3> QED  BY <2>5, <3>1, <3>2 DEF GoesOn, Undecidable
  <2>6. CASE disk["dst"] = NoFile
    <3>1. TempStatus = "Match" /\ DestinationStatus = "Missing" /\ row.state \in {"FsApplied", "Verified"}
      BY <2>1, <2>2, <2>6, SceneStatus DEF NoFile
    <3>2. Decision = IF row.state = "FsApplied" THEN "verify" ELSE "place"
      BY <1>1, <2>4, <3>1
    <3>3. StagedCopy'
      BY <1>1, <1>2, <1>5, <2>1, <2>6, <3>1, <3>2 DEF StagedCopy
    <3> QED  BY <1>1, <1>2, <2>6, <3>2, <3>3 DEF GoesOn, Scenes
  <2>7. CASE disk["dst"] = "copy"
    <3>1. /\ TempStatus = "Missing" /\ DestinationStatus = "Match" /\ row.state # "FsApplied"
          /\ At("orig", "copy", NoFile, NoFile)
      BY <1>2, <2>1, <2>2, <2>7, SceneStatus DEF NoFile
    <3>2. Decision = FinishFrom
      BY <1>1, <2>4, <3>1
    <3>3. Decision = CASE row.state = "Verified" -> "metadata"
                       [] row.state = "MetaCommitted" -> "index" [] row.state = "IndexSynced" -> "complete"
      BY <2>1, <2>3, <3>1, <3>2
    <3>4. Decision \notin {"review", "verify"} /\ PlacedCopy'
      BY <1>1, <1>2, <1>5, <2>1, <3>1, <3>3 DEF PlacedCopy
    <3> QED  BY <1>1, <1>2, <3>4 DEF GoesOn, Scenes
  <2> QED  BY <1>2, <2>1, <2>5, <2>6, <2>7
<1> QED  BY <1>3, <1>4, <1>5 DEF StagedCopy, PlacedCopy

LEMMA CrossMoveGoesOn ==
    ASSUME Quiet, Choose, route = "CrossMove", StagedCopy \/ MovedCopy
    PROVE  GoesOn
<1>1. /\ UNCHANGED <<items, temp, prepared, files>> /\ step' = IF Decision = "review" THEN "close" ELSE Decision
      /\ Decision = IF policy = "Replace" THEN RecoverReplace ELSE RecoverCrossVolumeMove
  BY DEF Choose, journal, Decision
<1>2. /\ UNCHANGED <<row, temp, route, disk>> /\ Before' = Before
      /\ policy \in {"Skip", "Replace"}
  BY <1>1 DEF Before, row, prepared, files, Quiet, FullInv, TransferInv, DataInv, Prepared
<1>3. /\ row.state \in Early => ~row.evidence
      /\ row.state \in Journal!AppliedStates => row.evidence
  BY DEF Quiet, FullInv, TransferInv, DataInv, PartsAreNamed, ResultInv, RowFitsFiles
<1> USE DEF Scene, At
<1>4. CASE policy = "Replace"
  BY <1>1, <1>4 DEF RecoverReplace, Undecidable, GoesOn
<1>5. CASE policy = "Skip"
  <2>1. Decision = RecoverCrossVolumeMove /\ Before = NoFile
    BY <1>1, <1>5 DEF Before
  <2>2. CASE temp = NoFile
    BY <2>1, <2>2 DEF RecoverCrossVolumeMove, Undecidable, GoesOn
  <2>3. CASE temp # NoFile /\ row.state \in Early
    <3>1. temp = "copyPart" /\ disk["src"] = "orig" /\ ~row.evidence
      BY <1>3, <2>3 DEF StagedCopy, MovedCopy, Early
    <3>2. Decision = IF disk["copyPart"] = NoFile THEN "fail" ELSE "review"
      BY <2>1, <2>3, <3>1 DEF RecoverCrossVolumeMove, NoFile
    <3>3. CASE disk["copyPart"] = NoFile
      <4>1. row.state = "Prepared" /\ At("orig", Before, NoFile, NoFile)
        BY <2>3, <3>3 DEF StagedCopy, MovedCopy, NoFile, Early
      <4>2. StagedCopy'
        BY <1>1, <1>2, <3>1, <3>2, <3>3, <4>1 DEF StagedCopy
      <4> QED  BY <1>1, <1>2, <3>2, <3>3, <4>2 DEF GoesOn, Scenes
    <3>4. CASE disk["copyPart"] # NoFile
      BY <2>3, <3>2, <3>4 DEF GoesOn, Undecidable
    <3> QED  BY <3>3, <3>4
  <2>4. CASE temp # NoFile /\ row.state \notin Early
    <3>1. row.state \in {"FsApplied", "Verified", "MetaCommitted", "IndexSynced"} /\ row.evidence
      BY <1>3, <2>4 DEF StagedCopy, MovedCopy, Early, Journal!AppliedStates
    <3>2. Decision = CASE /\ SourceStatus = "Match" /\ DestinationStatus = "Missing"
                          /\ TempStatus = "Missing" -> "fail"
                       [] OnlyAt("dst") -> FinishFrom
                       [] OTHER -> "review"
      BY <2>1, <2>4, <3>1 DEF RecoverCrossVolumeMove
    <3>3. CASE At(NoFile, "copy", NoFile, NoFile)
      <4>1. SourceStatus = "Missing" /\ DestinationStatus = "Match" /\ TempStatus = "Missing"
        <5>1. temp \in Places /\ "src" \in Places /\ "dst" \in Places /\ disk[temp] = NoFile
          BY <2>4, <3>3 DEF StagedCopy, MovedCopy, Places
        <5> QED  BY <3>3, <5>1, SceneStatus DEF SourceStatus, DestinationStatus, TempStatus
      <4>2. Decision = FinishFrom
        BY <3>2, <4>1 DEF OnlyAt
      <4>3. row.state # "FsApplied" /\ temp = "sidePart"
        BY <2>1, <3>3 DEF StagedCopy, MovedCopy, NoFile
      <4>4. Decision = CASE row.state = "Verified" -> "metadata"
                         [] row.state = "MetaCommitted" -> "index" [] row.state = "IndexSynced" -> "complete"
        BY <3>1, <4>2, <4>3 DEF FinishFrom, Journal!Terminal
      <4>5. Decision \notin {"review", "verify"} /\ MovedCopy'
        BY <1>1, <1>2, <3>1, <3>3, <4>3, <4>4 DEF MovedCopy
      <4> QED  BY <1>1, <1>2, <4>5 DEF GoesOn, Scenes
    <3>4. CASE ~At(NoFile, "copy", NoFile, NoFile)
      <4>1. \/ temp = "copyPart" /\ disk["src"] = "orig" /\ disk["copyPart"] = "copy"
            \/ temp \in Places /\ disk["src"] = "orig" /\ disk["dst"] = "copy"
            \/ temp = "sidePart" /\ disk["sidePart"] = "orig" /\ disk["dst"] = "copy"
        BY <2>4, <3>1, <3>4 DEF StagedCopy, MovedCopy, Early, Places
      <4>2. {"orig", "copy"} \subseteq OnDisk
        BY <4>1 DEF OnDisk, Places
      <4>3. \/ SourceStatus = "Match" /\ TempStatus = "Match"
            \/ SourceStatus = "Match" /\ DestinationStatus = "Match"
            \/ TempStatus = "Match"
        <5>1. {"src", "dst", "copyPart", "sidePart"} \subseteq Places
          BY DEF Places
        <5> QED  BY <4>1, <5>1, SceneStatus DEF SourceStatus, DestinationStatus, TempStatus
      <4>4. Decision = "review"
        BY <3>2, <4>3 DEF OnlyAt
      <4> QED  BY <1>2, <4>2, <4>4 DEF GoesOn, Undecidable
    <3> QED  BY <3>3, <3>4
  <2> QED  BY <2>2, <2>3, <2>4
<1> QED  BY <1>2, <1>4, <1>5

\* The step that finish_from gives for a row with evidence.
LEMMA FinishingStep ==
    ASSUME row.state \in Journal!AppliedStates
    PROVE  /\ FinishFrom = CASE row.state = "FsApplied" -> "verify" [] row.state = "Verified" -> "metadata"
                             [] row.state = "MetaCommitted" -> "index" [] row.state = "IndexSynced" -> "complete"
           /\ row.state \notin Early \cup Journal!Terminal
BY DEF FinishFrom, Journal!AppliedStates, Journal!Terminal, Early

\* What the files and the part of a row in a scene of the two routes that set aside say.
LEMMA AsideStatus ==
    ASSUME Quiet, temp = "sidePart"
    PROVE  /\ disk["src"] = NoFile => SourceStatus = "Missing"
           /\ disk["src"] = "orig" => SourceStatus = "Match"
           /\ disk["dst"] = NoFile => DestinationStatus = "Missing"
           /\ disk["dst"] = "orig" => DestinationStatus = "Match"
           /\ disk["dst"] = "old" => DestinationStatus = "Conflict"
           /\ disk["sidePart"] = NoFile => TempStatus = "Missing"
           /\ disk["sidePart"] = "orig" => TempStatus = "Match"
<1>1. "src" \in Places /\ "dst" \in Places /\ "sidePart" \in Places
  BY DEF Places
<1> QED  BY <1>1, SceneStatus DEF SourceStatus, DestinationStatus, TempStatus

LEMMA TrashGoesOn ==
    ASSUME Quiet, Choose, route = "Trash", SetAside \/ HasLeft(NoFile)
    PROVE  GoesOn
<1>1. /\ UNCHANGED <<items, temp, prepared, files>> /\ step' = IF Decision = "review" THEN "close" ELSE Decision
      /\ Decision = RecoverTrash
  BY DEF Choose, journal, Decision
<1>2. /\ UNCHANGED <<row, temp, route, disk>> /\ Before' = Before /\ ~Copying
  BY <1>1 DEF Before, row, prepared, files, Copying
<1> USE DEF Scene, At
<1>3. CASE temp = NoFile
  BY <1>1, <1>3 DEF RecoverTrash, Undecidable, GoesOn, NoFile
<1>4. CASE temp = "sidePart"
  <2>1. row.evidence
    BY <1>2, <1>4 DEF Quiet, Calm, SetAsideHasEvidence
  <2>2. RecoverTrash =
          CASE row.state \in Early /\ SourceStatus = "Match" /\ TempStatus = "Missing" -> "fail"
            [] row.state \in Early /\ SourceStatus = "Missing" /\ TempStatus = "Match" -> "restore"
            [] SourceStatus = "Missing" /\ TempStatus = "Missing" ->
                 IF row.state = "Staged" THEN "apply"
                 ELSE IF row.state \in Journal!AppliedStates THEN FinishFrom ELSE "review"
            [] OTHER -> "review"
    BY <1>4, <2>1 DEF RecoverTrash
  <2>3. CASE SetAside
    <3>1. /\ row.state \in Early /\ disk["copyPart"] = NoFile
          /\ disk["dst"] = Before
          /\ \/ disk["src"] = "orig" /\ disk["sidePart"] = NoFile
             \/ disk["src"] = NoFile /\ disk["sidePart"] = "orig"
      BY <1>4, <2>3 DEF SetAside, Early, NoFile
    <3>2. Decision = IF disk["src"] = "orig" THEN "fail" ELSE "restore"
      BY <1>1, <1>4, <2>2, <3>1, AsideStatus DEF NoFile
    <3>3. SetAside'
      BY <1>1, <1>2, <1>4, <3>1, <3>2 DEF SetAside, Early, NoFile
    <3> QED  BY <1>1, <1>2, <3>2, <3>3 DEF GoesOn, Scenes
  <2>4. CASE HasLeft(NoFile)
    <3>1. /\ disk["src"] = NoFile /\ disk["sidePart"] = NoFile
          /\ row.state \in {"Staged", "FsApplied", "Verified", "MetaCommitted", "IndexSynced"}
      BY <2>4 DEF HasLeft
    <3>2. Decision = IF row.state = "Staged" THEN "apply" ELSE FinishFrom
      BY <1>1, <1>4, <2>2, <3>1, AsideStatus DEF Journal!AppliedStates
    <3>3. Decision = CASE row.state = "Staged" -> "apply"
                       [] row.state = "FsApplied" -> "verify" [] row.state = "Verified" -> "metadata"
                       [] row.state = "MetaCommitted" -> "index" [] row.state = "IndexSynced" -> "complete"
      BY <3>1, <3>2, FinishingStep DEF Journal!AppliedStates
    <3>4. Decision # "review" /\ HasLeft(NoFile)'
      BY <1>1, <1>2, <2>4, <3>3 DEF HasLeft
    <3> QED  BY <1>1, <1>2, <3>4 DEF GoesOn, Scenes
  <2> QED  BY <2>3, <2>4
<1> QED  BY <1>3, <1>4 DEF SetAside, HasLeft

LEMMA ReplaceGoesOn ==
    ASSUME Quiet, Choose, route = "Replace", SetAside \/ Exchanged \/ HasLeft("orig")
    PROVE  GoesOn
<1>1. /\ UNCHANGED <<items, temp, prepared, files>> /\ step' = IF Decision = "review" THEN "close" ELSE Decision
      /\ Decision = RecoverReplace /\ Before = "old"
  BY DEF Choose, journal, Decision, Before, Quiet, FullInv, TransferInv, DataInv, Prepared
<1>2. /\ UNCHANGED <<row, temp, route, disk>> /\ Before' = Before /\ ~Copying
  BY <1>1 DEF Before, row, prepared, files, Copying
<1> USE DEF Scene, At
<1>3. CASE temp = NoFile
  BY <1>1, <1>3 DEF RecoverReplace, Undecidable, GoesOn, NoFile
<1>4. CASE temp = "sidePart"
  <2>1. row.evidence
    BY <1>2, <1>4 DEF Quiet, Calm, SetAsideHasEvidence
  <2>2. ~(DestinationStatus = "Match" /\ "Match" \in {SourceStatus, TempStatus}) =>
          RecoverReplace =
          CASE row.state = "Prepared" /\ SourceStatus = "Match" /\ TempStatus = "Missing" -> "fail"
            [] row.state \in Early /\ SourceStatus = "Missing" /\ TempStatus = "Match" -> "restore"
            [] OnlyAt("dst") -> IF row.state = "Staged" THEN "apply"
                                ELSE IF row.state \in Journal!AppliedStates THEN FinishFrom
                                ELSE "review"
            [] OTHER -> "review"
    BY <1>4, <2>1 DEF RecoverReplace
  <2>3. CASE SetAside \/ Exchanged
    <3>1. /\ row.state \in Early /\ disk["copyPart"] = NoFile
          /\ disk["dst"] = "old" \/ (disk["dst"] = NoFile /\ row.state = "Staged")
          /\ \/ disk["src"] = "orig" /\ disk["sidePart"] = NoFile
             \/ disk["src"] = NoFile /\ disk["sidePart"] = "orig"
      BY <1>1, <1>4, <2>3 DEF SetAside, Exchanged, Early, NoFile
    <3>2. DestinationStatus \in {"Missing", "Conflict"}
      BY <1>4, <3>1, AsideStatus
    <3>3. CASE disk["src"] = "orig" /\ row.state = "Staged"
      <4>1. SourceStatus = "Match" /\ Decision = "review"
        BY <1>1, <1>4, <2>2, <3>2, <3>3, AsideStatus DEF OnlyAt
      <4> QED  BY <1>2, <3>3, <4>1 DEF GoesOn, Undecidable
    <3>4. CASE disk["src"] = "orig" /\ row.state = "Prepared"
      <4>1. Decision = "fail"
        BY <1>1, <1>4, <2>2, <3>1, <3>2, <3>4, AsideStatus DEF NoFile, OnlyAt
      <4>2. SetAside'
        BY <1>1, <1>2, <1>4, <3>1, <3>4, <4>1 DEF SetAside, NoFile
      <4> QED  BY <1>1, <1>2, <4>1, <4>2 DEF GoesOn, Scenes
    <3>5. CASE disk["src"] = NoFile
      <4>1. SourceStatus = "Missing" /\ TempStatus = "Match"
        BY <1>4, <3>1, <3>5, AsideStatus DEF NoFile
      <4>2. Decision = "restore"
        BY <1>1, <2>2, <3>1, <3>2, <4>1 DEF OnlyAt
      <4>3. SetAside' \/ Exchanged'
        BY <1>1, <1>2, <1>4, <3>1, <3>5, <4>2 DEF SetAside, Exchanged, Early, NoFile
      <4> QED  BY <1>1, <1>2, <4>2, <4>3 DEF GoesOn, Scenes
    <3> QED  BY <3>1, <3>3, <3>4, <3>5 DEF Early
  <2>4. CASE HasLeft("orig")
    <3>1. /\ disk["src"] = NoFile /\ disk["sidePart"] = NoFile /\ disk["dst"] = "orig"
          /\ row.state \in {"Staged", "FsApplied", "Verified", "MetaCommitted", "IndexSynced"}
      BY <2>4 DEF HasLeft
    <3>2. SourceStatus = "Missing" /\ TempStatus = "Missing" /\ DestinationStatus = "Match"
      BY <1>4, <3>1, AsideStatus
    <3>3. Decision = IF row.state = "Staged" THEN "apply" ELSE FinishFrom
      BY <1>1, <2>2, <3>1, <3>2 DEF OnlyAt, Journal!AppliedStates
    <3>4. Decision = CASE row.state = "Staged" -> "apply"
                       [] row.state = "FsApplied" -> "verify" [] row.state = "Verified" -> "metadata"
                       [] row.state = "MetaCommitted" -> "index" [] row.state = "IndexSynced" -> "complete"
      BY <3>1, <3>3, FinishingStep DEF Journal!AppliedStates
    <3>5. Decision # "review" /\ HasLeft("orig")'
      BY <1>1, <1>2, <2>4, <3>4 DEF HasLeft
    <3> QED  BY <1>1, <1>2, <3>5 DEF GoesOn, Scenes
  <2> QED  BY <2>3, <2>4
<1> QED  BY <1>3, <1>4 DEF SetAside, Exchanged, HasLeft

LEMMA ChooseCalm == ASSUME Quiet, Choose PROVE Calm'
<1>1. /\ UNCHANGED <<items, temp, prepared, files, refused, mode>> /\ mode = "recovering" /\ step = "choose"
      /\ step' = IF Decision = "review" THEN "close" ELSE Decision
      /\ reviewed' = (Decision = "review")
  BY DEF Choose, Recovering, journal
<1>2. row.state # "Absent" /\ Prepared
  BY <1>1, WorkingRow DEF Quiet, FullInv, TransferInv, DataInv
<1>3. CASE Scenes
  <2>1. GoesOn
    <3>1. route = "Copy" \/ route = "CrossMove" \/ route = "Trash" \/ route = "Replace"
      BY <1>2 DEF Prepared
    <3> QED  BY <1>3, <3>1, CopyGoesOn, CrossMoveGoesOn, TrashGoesOn, ReplaceGoesOn DEF Scenes
  <2>2. UNCHANGED <<row, temp, route, policy, disk>> /\ Before' = Before
    BY <1>1 DEF row, prepared, files, Before
  <2>3. CASE Decision = "review"
    <3>1. Scenes'
      <4> USE DEF Scene, At
      <4>1. /\ StagedCopy => StagedCopy'
            /\ PlacedCopy => PlacedCopy'
            /\ MovedCopy => MovedCopy'
            /\ SetAside => SetAside'
            /\ Exchanged => Exchanged'
        BY <1>1, <2>2, <2>3 DEF StagedCopy, PlacedCopy, MovedCopy, SetAside, Exchanged
      <4>2. /\ HasLeft(NoFile) => HasLeft(NoFile)'
            /\ HasLeft("orig") => HasLeft("orig")'
        BY <1>1, <2>2, <2>3 DEF HasLeft
      <4>3. route = "Copy" \/ route = "CrossMove" \/ route = "Trash" \/ route = "Replace"
        BY <1>2 DEF Prepared
      <4> HIDE DEF Scene, At
      <4> QED  BY <1>3, <2>2, <4>1, <4>2, <4>3 DEF Scenes
    <3>2. Undecidable'
      BY <2>1, <2>2, <2>3 DEF GoesOn, Undecidable, OnDisk, Places
    <3> QED  BY <1>1, <1>2, <2>2, <2>3, <3>1, <3>2 DEF Quiet, Calm, SetAsideHasEvidence, VerifiedAgain,
                FailsAgain, ReviewStands, Copying
  <2>4. CASE Decision # "review"
    <3>1. Scenes' /\ VerifiedAgain'
      BY <1>1, <2>1, <2>2, <2>4 DEF GoesOn, VerifiedAgain
    <3> QED  BY <1>1, <1>2, <2>2, <2>4, <3>1 DEF Quiet, Calm, SetAsideHasEvidence, FailsAgain, ReviewStands,
                Copying
  <2> QED  BY <2>3, <2>4
<1>4. CASE Ended
  <2>1. temp = NoFile /\ row.state \in Journal!Terminal
    BY <1>4 DEF Ended
  <2>2. Decision = "review"
    <3>1. temp # "copyPart" /\ temp # "sidePart"
      BY <2>1 DEF NoFile
    <3>2. /\ RecoverCopy = "review" /\ RecoverTrash = "review"
          /\ RecoverReplace = "review" /\ RecoverCrossVolumeMove = "review"
      BY <2>1, <3>1 DEF RecoverCopy, RecoverTrash, RecoverReplace, RecoverCrossVolumeMove
    <3> QED  BY <3>2 DEF Decision
  <2>3. UNCHANGED <<row, temp>> /\ step' = "close"
    BY <1>1, <2>2 DEF row
  <2> QED  BY <1>1, <1>2, <2>1, <2>3 DEF Quiet, Calm, Ended, SetAsideHasEvidence, VerifiedAgain, FailsAgain,
              ReviewStands, Undecidable, NoFile
<1> QED  BY <1>2, <1>3, <1>4 DEF Quiet, Calm, Unstarted

-----------------------------------------------------------------------------
(* The steps that need an error or another application. *)

LEMMA NothingFails ==
    ASSUME Quiet
    PROVE  /\ ~(BeginChanged \/ CreateChanged \/ CreateUnbound \/ WriteFails)
           /\ ~(ClearChanged \/ PutBack \/ GiveUp \/ PlaceOccupied \/ PlaceFails \/ PlaceIdentityChanged)
           /\ ~(CompareChanged \/ AsideChanged \/ AsideUnverified)
           /\ ~(StepFails \/ MarkFailed \/ SettleRecoveryRequired \/ Resolve \/ RecoverFaults \/ Interfere)
<1>1. ~Charge(1) /\ ~Charge(1 + 1) /\ ~Charge(1 + 0)
  BY NoCharge
<1>2. ~Error(1) /\ ~Compensate(1) /\ ~Refuse(1, "io") /\ ~Unstage(1, "fail", "keepFailed")
  BY <1>1 DEF Error, Compensate, Refuse, Unstage
<1>3. ~CreateUnbound /\ ~PlaceFails /\ ~PlaceIdentityChanged /\ ~AsideUnverified /\ ~StepFails /\ ~RecoverFaults
  BY <1>1, <1>2 DEF CreateUnbound, PlaceFails, PlaceIdentityChanged, AsideUnverified, StepFails, RecoverFaults
<1>4. ~Interfere
  BY DEF Interfere, Quiet
<1>5. ~PutBack /\ ~GiveUp /\ ~SettleRecoveryRequired /\ ~Resolve /\ ~MarkFailed
  BY AtScene DEF PutBack, GiveUp, SettleRecoveryRequired, Resolve, MarkFailed, Executing, Recovering
<1>6. ~BeginChanged
  <2>1. Executing("begin") => StillAsPrepared
    BY StepScenes DEF Executing, StillAsPrepared, At, Before
  <2> QED  BY <2>1 DEF BeginChanged
<1>7. ~CreateChanged /\ ~WriteFails
  BY <1>2, StepScenes DEF CreateChanged, WriteFails, Executing, At
<1>8. ~ClearChanged /\ ~PlaceOccupied
  <2>1. Executing("clear") => disk["dst"] = Before
    BY StepScenes DEF Executing, At
  <2>2. Working("place") => disk["dst"] = NoFile
    BY StepScenes DEF Working, At
  <2> QED  BY <2>1, <2>2 DEF ClearChanged, PlaceOccupied, Executing, Recovering, Working, Before
<1>9. ~CompareChanged /\ ~AsideChanged
  BY StepScenes DEF CompareChanged, AsideChanged, Executing, At
<1> QED  BY <1>3, <1>4, <1>5, <1>6, <1>7, <1>8, <1>9

LEMMA CalmStep == ASSUME Quiet, [Next]_vars PROVE Calm'
<1>1. CASE UNCHANGED vars
  <2>1. UNCHANGED <<items, temp, prepared, files, reviewed, refused, mode, step>>
    BY <1>1 DEF vars, journal, control
  <2> QED  BY <2>1, RestCalm DEF Quiet, Calm, ReviewStands
<1>2. CASE Next
  BY <1>2, NothingFails, OnwardCalm, OpeningCalm, PartCalm, FillCalm, RemoveCalm, EndingCalm, StopCalm, ChooseCalm
     DEF Next, Work, StageContent, FillDestination, RemoveSource, EndItem, Recover
<1> QED  BY <1>1, <1>2

LEMMA CalmInit == Init => CalmInv
<1> SUFFICES ASSUME Init PROVE CalmInv
  OBVIOUS
<1>1. /\ temp = NoFile /\ reviewed = FALSE /\ refused = "no" /\ step = "none" /\ mode = "idle"
      /\ faults = 0 /\ outside = 0
      /\ disk = [p \in Places |-> IF p = "src" THEN "orig"
                                  ELSE IF p = "dst" /\ policy = "Replace" THEN "old" ELSE NoFile]
  BY DEF Init
<1>2. At("orig", Before, NoFile, NoFile)
  BY <1>1 DEF At, Before, Places
<1>3. row.state = "Absent"
  <2>1. FullInv
    BY TransferInit, ResultInit DEF FullInv
  <2>2. items = [o \in {1} |-> [Journal!NewItem(CHOOSE p \in {"Skip", "Replace"} : TRUE,
                                              CHOOSE d \in {"planned"} : TRUE) EXCEPT !.state = "Absent"]]
    BY DEF Init, Journal!Init
  <2>3. items[1].state = "Absent"
    BY <2>2 DEF Journal!NewItem
  <2> QED  BY <2>3 DEF row
<1> QED
  BY <1>1, <1>2, <1>3 DEF CalmInv, Calm, Unstarted, SetAsideHasEvidence, VerifiedAgain, FailsAgain, ReviewStands,
     NoFile

\* While nothing but crashes happens, row, part and files are always one of a few scenes,
\* and recovery always knows which, so it asks for a review only where the disk cannot say
\* what to do, and never makes a call that the journal refuses (recover_copy,
\* recover_trash, recover_replace, recover_cross_volume_move).
THEOREM CrashAloneIsAlwaysResolved == Spec => []CrashAloneIsResolved
<1>1. Init => CalmInv
  BY CalmInit
<1>2. FullInv /\ CalmInv /\ [Next]_vars => CalmInv'
  <2> SUFFICES ASSUME FullInv, CalmInv, [Next]_vars PROVE CalmInv'
    OBVIOUS
  <2>1. {faults, outside} \subseteq Nat
    BY DEF CalmInv
  <2>2. /\ {faults', outside'} \subseteq Nat
        /\ faults' + outside' = 0 => faults + outside = 0 /\ UNCHANGED <<faults, outside>>
    BY <2>1, Counting
  <2>3. faults' + outside' = 0 => Quiet
    BY <2>1, <2>2 DEF CalmInv, Quiet
  <2>4. faults' + outside' = 0 => Calm'
    BY <2>3, CalmStep
  <2> QED  BY <2>2, <2>4 DEF CalmInv
<1>3. CalmInv => CrashAloneIsResolved
  BY DEF CalmInv, Calm, ReviewStands, CrashAloneIsResolved
<1> QED  BY <1>1, <1>2, <1>3, ResultsInvariance, PTL DEF Spec
=============================================================================
