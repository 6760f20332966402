------------------------- MODULE OperationJournal_proofs -------------------------
(***************************************************************************)
(* Proofs that the invariants of the operation journal hold for every set  *)
(* of batches and every finite set of operations.                          *)
(*                                                                         *)
(* The inductive invariant is the conjunction of the invariants and of     *)
(* AbsentBatchIsZero.  The proof sorts the actions into four shapes: a     *)
(* batch is opened, a live row is written (EditShape), a row gets its      *)
(* result (FinishShape), an obligation of a finished row is resolved.      *)
(***************************************************************************)
EXTENDS OperationJournal, FiniteSetTheorems, TLAPS

\* A batch id that is not in use announces and counts nothing.
AbsentBatchIsZero ==
    \A b \in Batches : batches[b].state = "Absent" =>
        batches[b].requested = 0 /\ \A c \in Counters : batches[b][c] = 0

IInv ==
    /\ TypeOK
    /\ AbsentBatchIsZero
    /\ CountersMatchItems
    /\ ResultIffTerminal
    /\ ReplayHasEvidence
    /\ BatchIsNotOverfull
    /\ FinishedBatchIsSettled

-----------------------------------------------------------------------------
(* The shapes of the actions. *)

\* Opening a batch touches a batch id that was not in use.
OpenShape(b) ==
    /\ batches[b].state = "Absent"
    /\ \E n \in Nat : batches' = [batches EXCEPT ![b] = NewBatch(n)]

\* A write to a live row, or the insertion of one, leaves it live.
EditShape(o) ==
    /\ UNCHANGED batches
    /\ items' \in [Ops -> ItemRow]
    /\ \A q \in Ops : q # o => items'[q] = items[q]
    /\ items[o].state \in {"Absent"} \cup LiveStates
    /\ items'[o].state \in LiveStates
    /\ items'[o].result = "none"
    /\ items'[o].state \in AppliedStates => items'[o].evidence
    /\ items[o].state = "Absent" =>
          /\ batches[BatchOf[o]].state = "Running"
          /\ Cardinality(ItemsOf(BatchOf[o])) < batches[BatchOf[o]].requested

\* finish_item ends the row and counts it.
FinishShape(o, counter) ==
    LET b == BatchOf[o] IN
    /\ items' \in [Ops -> ItemRow]
    /\ \A q \in Ops : q # o => items'[q] = items[q]
    /\ items[o].state \in LiveStates /\ items[o].result = "none"
    /\ items'[o].state \in Terminal /\ items'[o].result = counter
    /\ batches[b].state = "Running"
    /\ batches' = [batches EXCEPT ![b][counter] = @ + 1]

\* Resolving an obligation changes nothing but the evidence of an ended row.
ResolveShape(o) ==
    /\ UNCHANGED batches
    /\ items' \in [Ops -> ItemRow]
    /\ \A q \in Ops : q # o => items'[q] = items[q]
    /\ items[o].state \in Terminal
    /\ items'[o].state = items[o].state /\ items'[o].result = items[o].result

\* The journal only mints operation ids for batches (the batch_id foreign key).
LEMMA BatchOfType == \A o \in Ops : BatchOf[o] \in Batches
BY JournalAssumption

\* Every edit has the edit shape.
LEMMA EditHasShape ==
    ASSUME TypeOK, ResultIffTerminal, ReplayHasEvidence, NEW o \in Ops, Edit(o)
    PROVE  EditShape(o)
<1> USE DEF TypeOK, EditShape, ItemRow, LiveStates, Terminal, AppliedStates
<1>1. ASSUME NEW p \in Policies, NEW d \in Destinations, RecordItem(o, p, d)
      PROVE  EditShape(o)
  BY <1>1 DEF RecordItem, NewItem
<1>2. ASSUME NEW p \in Policies, SetConflictPolicy(o, p)
      PROVE  EditShape(o)
  BY <1>2 DEF SetConflictPolicy, ResultIffTerminal, Counters
<1>3. ASSUME NEW d \in Destinations, SetDestination(o, d)
      PROVE  EditShape(o)
  BY <1>3 DEF SetDestination, ResultIffTerminal, Counters
<1>4. ASSUME NEW expected \in {"Prepared", "Verified"}, RegisterTemporary(o, expected)
      PROVE  EditShape(o)
  <2>1. items \in [Ops -> ItemRow] /\ items[o] \in ItemRow
    OBVIOUS
  <2> DEFINE new == [items[o] EXCEPT !.temporary = TRUE]
  <2>2. /\ UNCHANGED batches /\ items' = [items EXCEPT ![o] = new]
        /\ items[o].state \in LiveStates
    BY <1>4 DEF RegisterTemporary
  <2>3. /\ new \in ItemRow /\ new.state \in LiveStates /\ new.result = "none"
        /\ new.state \in AppliedStates => new.evidence
    BY <1>4, <2>1, <2>2 DEF RegisterTemporary, ResultIffTerminal, ReplayHasEvidence, Counters
  <2> HIDE DEF new, ItemRow
  <2> QED  BY <2>1, <2>2, <2>3
<1>5. CASE RecordPreparedEvidence(o)
  <2>1. items \in [Ops -> ItemRow] /\ items[o] \in ItemRow
    OBVIOUS
  <2> DEFINE new == [items[o] EXCEPT !.temporary = TRUE, !.evidence = TRUE]
  <2>2. /\ UNCHANGED batches /\ items' = [items EXCEPT ![o] = new]
        /\ items[o].state \in LiveStates
    BY <1>5 DEF RecordPreparedEvidence
  <2>3. /\ new \in ItemRow /\ new.state \in LiveStates /\ new.result = "none"
        /\ new.state \in AppliedStates => new.evidence
    BY <1>5, <2>1, <2>2 DEF RecordPreparedEvidence, ResultIffTerminal, ReplayHasEvidence, Counters
  <2> HIDE DEF new, ItemRow
  <2> QED  BY <2>1, <2>2, <2>3
<1>6. CASE RecordFsApplied(o)
  <2>1. items \in [Ops -> ItemRow] /\ items[o] \in ItemRow
    OBVIOUS
  <2> DEFINE new == [items[o] EXCEPT !.state = "FsApplied", !.evidence = TRUE]
  <2>2. /\ UNCHANGED batches /\ items' = [items EXCEPT ![o] = new]
        /\ items[o].state \in LiveStates
    BY <1>6 DEF RecordFsApplied, CanTransition
  <2>3. /\ new \in ItemRow /\ new.state \in LiveStates /\ new.result = "none"
        /\ new.state \in AppliedStates => new.evidence
    BY <1>6, <2>1, <2>2 DEF RecordFsApplied, CanTransition, ResultIffTerminal, ReplayHasEvidence, Counters
  <2> HIDE DEF new, ItemRow
  <2> QED  BY <2>1, <2>2, <2>3
<1>7. ASSUME NEW next \in {"Staged", "Verified", "MetaCommitted", "IndexSynced"},
             Advance(o, items[o].state, next)
      PROVE  EditShape(o)
  BY <1>7 DEF Advance, CanTransition, ResultIffTerminal, ReplayHasEvidence, Counters
<1> QED
  BY <1>1, <1>2, <1>3, <1>4, <1>5, <1>6, <1>7 DEF Edit

\* Every call that ends a row has the finish shape.
LEMMA FinishHasShape ==
    ASSUME TypeOK, NEW o \in Ops, NEW terminal \in Terminal, NEW counter \in Counters,
           NEW retain \in BOOLEAN, items[o].state \in LiveStates,
           FinishItem(o, items[o].state, terminal, counter, retain)
    PROVE  FinishShape(o, counter)
<1>1. items[o] \in ItemRow
  BY DEF TypeOK
<1>2. items' \in [Ops -> ItemRow]
  BY <1>1 DEF TypeOK, FinishItem, ItemRow, Terminal, Counters
<1>3. items'[o].state = terminal /\ items'[o].result = counter
  BY <1>1 DEF TypeOK, FinishItem, ItemRow
<1> QED
  BY <1>2, <1>3 DEF TypeOK, FinishItem, FinishShape

\* Every call on the way out either ends the row or resolves the obligation of an ended one.
LEMMA SettleHasShape ==
    ASSUME TypeOK, NEW o \in Ops, Settle(o)
    PROVE  (\E counter \in Counters : FinishShape(o, counter)) \/ ResolveShape(o)
<1>1. CASE CompleteItem(o, items[o].state)
  <2>1. items[o].state \in LiveStates
    BY <1>1 DEF CompleteItem, CanTransition, LiveStates
  <2> QED
    BY <1>1, <2>1, FinishHasShape DEF CompleteItem, Terminal, Counters
<1>2. ASSUME NEW retain \in BOOLEAN, FailItem(o, items[o].state, retain)
      PROVE  \E counter \in Counters : FinishShape(o, counter)
  <2>1. items[o].state \in LiveStates
    BY <1>2 DEF FailItem, CanTransition, LiveStates
  <2> QED
    BY <1>2, <2>1, FinishHasShape DEF FailItem, Terminal, Counters
<1>3. ASSUME NEW retain \in BOOLEAN, SkipItem(o, items[o].state, retain)
      PROVE  \E counter \in Counters : FinishShape(o, counter)
  BY <1>3, FinishHasShape DEF SkipItem, Terminal, Counters
<1>4. CASE ResolveRecoveryObligation(o, items[o].state)
  BY <1>4 DEF ResolveRecoveryObligation, ResolveShape, TypeOK, ItemRow
<1> QED
  BY <1>1, <1>2, <1>3, <1>4 DEF Settle

-----------------------------------------------------------------------------
(* Types. *)

\* Every call keeps the types of the rows and counters.
LEMMA TypeStep == TypeOK /\ ResultIffTerminal /\ ReplayHasEvidence /\ [Next]_journalVars => TypeOK'
<1> SUFFICES ASSUME TypeOK, ResultIffTerminal, ReplayHasEvidence, [Next]_journalVars
             PROVE  TypeOK'
  OBVIOUS
<1>1. ASSUME NEW b \in Batches, NEW n \in 1..MaxRequested, BeginBatch(b, n)
      PROVE  TypeOK'
  BY <1>1, JournalAssumption DEF TypeOK, BeginBatch, NewBatch, BatchRow
<1>2. ASSUME NEW b \in Batches, NEW plan \in SUBSET Ops, NEW p \in Policies, NEW d \in Destinations,
             BeginPlan(b, plan, p, d)
      PROVE  TypeOK'
  <2>1. Cardinality(plan) \in Nat
    BY FS_Subset, FS_CardinalityType, JournalAssumption
  <2>2. batches' \in [Batches -> BatchRow]
    BY <1>2, <2>1 DEF TypeOK, BeginPlan, NewBatch, BatchRow
  <2>3. items' \in [Ops -> ItemRow]
    BY <1>2 DEF TypeOK, BeginPlan, NewItem, ItemRow, LiveStates
  <2> QED
    BY <2>2, <2>3 DEF TypeOK
<1>3. ASSUME NEW b \in Batches, FinishBatch(b)
      PROVE  TypeOK'
  BY <1>3 DEF TypeOK, FinishBatch, BatchRow
<1>4. ASSUME NEW o \in Ops, Edit(o)
      PROVE  TypeOK'
  BY <1>4, EditHasShape DEF EditShape, TypeOK
<1>5. ASSUME NEW o \in Ops, NEW counter \in Counters, FinishShape(o, counter)
      PROVE  TypeOK'
  <2>1. batches[BatchOf[o]] \in BatchRow
    BY BatchOfType DEF TypeOK
  <2>2. [batches[BatchOf[o]] EXCEPT ![counter] = @ + 1] \in BatchRow
    BY <2>1 DEF BatchRow, Counters
  <2>3. batches' \in [Batches -> BatchRow]
    BY <1>5, <2>2, BatchOfType DEF TypeOK, FinishShape
  <2> QED
    BY <1>5, <2>3 DEF TypeOK, FinishShape
<1>6. ASSUME NEW o \in Ops, ResolveShape(o)
      PROVE  TypeOK'
  BY <1>6 DEF ResolveShape, TypeOK
<1>7. CASE UNCHANGED journalVars
  BY <1>7 DEF journalVars, TypeOK
<1> QED
  BY <1>1, <1>2, <1>3, <1>4, <1>5, <1>6, <1>7, SettleHasShape DEF Next, Open

-----------------------------------------------------------------------------
(* Facts about the rows of a batch. *)

\* The rows of a batch form a finite set, and so does every part of it.
LEMMA RowsAreFinite ==
    ASSUME NEW S \in SUBSET Ops
    PROVE  IsFiniteSet(S) /\ Cardinality(S) \in Nat
BY FS_Subset, FS_CardinalityType, JournalAssumption

\* Sizes of disjoint finite sets add up.
LEMMA DisjointUnion ==
    ASSUME NEW S, NEW T, IsFiniteSet(S), IsFiniteSet(T), S \cap T = {}
    PROVE  IsFiniteSet(S \cup T) /\ Cardinality(S \cup T) = Cardinality(S) + Cardinality(T)
BY FS_Union, FS_EmptySet, FS_CardinalityType

\* The rows of batch b that have a result.
SettledOf(b) == {o \in Ops : BatchOf[o] = b /\ items[o].result # "none"}

\* The three counters together count the rows that have a result.
LEMMA AccountedIsSettled ==
    ASSUME TypeOK, CountersMatchItems, NEW b \in Batches
    PROVE  Accounted(b) = Cardinality(SettledOf(b))
<1> DEFINE C == WithResult(b, "completed")
           F == WithResult(b, "failed")
           S == WithResult(b, "skipped")
<1>1. /\ IsFiniteSet(C) /\ IsFiniteSet(F) /\ IsFiniteSet(S)
      /\ Cardinality(C) \in Nat /\ Cardinality(F) \in Nat /\ Cardinality(S) \in Nat
  BY RowsAreFinite DEF WithResult
<1>2. C \cap F = {} /\ (C \cup F) \cap S = {}
  BY DEF WithResult
<1>3. SettledOf(b) = (C \cup F) \cup S
  BY DEF SettledOf, WithResult, TypeOK, ItemRow, Counters
<1>4. IsFiniteSet(C \cup F) /\ Cardinality(C \cup F) = Cardinality(C) + Cardinality(F)
  BY <1>1, <1>2, DisjointUnion
<1>5. Cardinality((C \cup F) \cup S) = Cardinality(C \cup F) + Cardinality(S)
  BY <1>1, <1>2, <1>4, DisjointUnion
<1>6. /\ batches[b].completed = Cardinality(C)
      /\ batches[b].failed = Cardinality(F)
      /\ batches[b].skipped = Cardinality(S)
  BY DEF CountersMatchItems, Counters
<1> QED
  BY <1>3, <1>4, <1>5, <1>6 DEF Accounted

-----------------------------------------------------------------------------
(* The counters. *)

\* Nothing is counted when no result changes.
LEMMA SameCounts ==
    ASSUME CountersMatchItems,
           \A o \in Ops : items'[o].result = items[o].result,
           \A b \in Batches, c \in Counters : batches'[b][c] = batches[b][c]
    PROVE  CountersMatchItems'
<1>1. \A b \in Batches, c \in Counters : WithResult(b, c)' = WithResult(b, c)
  BY DEF WithResult
<1> QED
  BY <1>1 DEF CountersMatchItems

\* One result is counted when one row gets it.
LEMMA OneMoreCount ==
    ASSUME TypeOK, CountersMatchItems, NEW o \in Ops, NEW counter \in Counters,
           FinishShape(o, counter)
    PROVE  CountersMatchItems'
<1> SUFFICES ASSUME NEW b \in Batches, NEW c \in Counters
             PROVE  batches'[b][c] = Cardinality(WithResult(b, c)')
  BY DEF CountersMatchItems, WithResult
<1>1. batches[b] \in BatchRow /\ batches[b][c] = Cardinality(WithResult(b, c))
  BY DEF TypeOK, CountersMatchItems
<1>2. counter # "none" /\ c # "none"
  BY DEF Counters
<1>3. CASE b = BatchOf[o] /\ c = counter
  <2>1. WithResult(b, c)' = WithResult(b, c) \cup {o} /\ o \notin WithResult(b, c)
    BY <1>2, <1>3 DEF FinishShape, WithResult
  <2>2. Cardinality(WithResult(b, c)') = Cardinality(WithResult(b, c)) + 1
    BY <2>1, FS_AddElement, RowsAreFinite DEF WithResult
  <2>3. batches'[b][c] = batches[b][c] + 1
    BY <1>1, <1>3 DEF FinishShape, BatchRow, Counters, TypeOK
  <2> QED
    BY <1>1, <2>2, <2>3
<1>4. CASE b # BatchOf[o] \/ c # counter
  <2>1. WithResult(b, c)' = WithResult(b, c)
    BY <1>2, <1>4 DEF FinishShape, WithResult
  <2>2. batches'[b][c] = batches[b][c]
    BY <1>1, <1>4, BatchOfType DEF FinishShape, BatchRow, Counters, TypeOK
  <2> QED
    BY <1>1, <2>1, <2>2
<1> QED
  BY <1>3, <1>4

\* Every call keeps the counters equal to the rows they count.
LEMMA CountersStep == IInv /\ [Next]_journalVars => CountersMatchItems'
<1> SUFFICES ASSUME IInv, [Next]_journalVars
             PROVE  CountersMatchItems'
  OBVIOUS
<1> USE DEF IInv
<1>1. ASSUME NEW b \in Batches, NEW n \in 1..MaxRequested, BeginBatch(b, n)
      PROVE  CountersMatchItems'
  <2>1. \A x \in Batches, c \in Counters : batches'[x][c] = batches[x][c]
    BY <1>1 DEF BeginBatch, NewBatch, AbsentBatchIsZero, Counters, TypeOK
  <2> QED
    BY <1>1, <2>1, SameCounts DEF BeginBatch
<1>2. ASSUME NEW b \in Batches, NEW plan \in SUBSET Ops, NEW p \in Policies, NEW d \in Destinations,
             BeginPlan(b, plan, p, d)
      PROVE  CountersMatchItems'
  <2>1. \A x \in Batches, c \in Counters : batches'[x][c] = batches[x][c]
    BY <1>2 DEF BeginPlan, NewBatch, AbsentBatchIsZero, Counters, TypeOK
  <2>2. \A o \in Ops : items'[o].result = items[o].result
    BY <1>2 DEF BeginPlan, NewItem, ResultIffTerminal, Terminal
  <2> QED
    BY <2>1, <2>2, SameCounts
<1>3. ASSUME NEW b \in Batches, FinishBatch(b)
      PROVE  CountersMatchItems'
  <2>1. \A x \in Batches, c \in Counters : batches'[x][c] = batches[x][c]
    BY <1>3 DEF FinishBatch, Counters, TypeOK, BatchRow
  <2> QED
    BY <1>3, <2>1, SameCounts DEF FinishBatch
<1>4. ASSUME NEW o \in Ops, Edit(o)
      PROVE  CountersMatchItems'
  <2>1. EditShape(o)
    BY <1>4, EditHasShape
  <2>2. \A q \in Ops : items'[q].result = items[q].result
    BY <2>1 DEF EditShape, ResultIffTerminal, Terminal, LiveStates
  <2> QED
    BY <2>1, <2>2, SameCounts DEF EditShape
<1>5. ASSUME NEW o \in Ops, Settle(o)
      PROVE  CountersMatchItems'
  <2>1. CASE \E counter \in Counters : FinishShape(o, counter)
    BY <2>1, OneMoreCount
  <2>2. CASE ResolveShape(o)
    <3>1. \A q \in Ops : items'[q].result = items[q].result
      BY <2>2 DEF ResolveShape
    <3> QED
      BY <2>2, <3>1, SameCounts DEF ResolveShape
  <2> QED
    BY <1>5, <2>1, <2>2, SettleHasShape
<1>6. CASE UNCHANGED journalVars
  BY <1>6, SameCounts DEF journalVars
<1> QED
  BY <1>1, <1>2, <1>3, <1>4, <1>5, <1>6 DEF Next, Open

-----------------------------------------------------------------------------
(* Rows, results and evidence. *)

\* Every call keeps results and evidence in step with the state of the row.
LEMMA RowStep == IInv /\ [Next]_journalVars => ResultIffTerminal' /\ ReplayHasEvidence'
<1> SUFFICES ASSUME IInv, [Next]_journalVars
             PROVE  ResultIffTerminal' /\ ReplayHasEvidence'
  OBVIOUS
<1> USE DEF IInv, ResultIffTerminal, ReplayHasEvidence, Terminal, AppliedStates
<1>1. ASSUME NEW b \in Batches, NEW n \in 1..MaxRequested, BeginBatch(b, n)
      PROVE  ResultIffTerminal' /\ ReplayHasEvidence'
  BY <1>1 DEF BeginBatch
<1>2. ASSUME NEW b \in Batches, NEW plan \in SUBSET Ops, NEW p \in Policies, NEW d \in Destinations,
             BeginPlan(b, plan, p, d)
      PROVE  ResultIffTerminal' /\ ReplayHasEvidence'
  BY <1>2 DEF BeginPlan, NewItem
<1>3. ASSUME NEW b \in Batches, FinishBatch(b)
      PROVE  ResultIffTerminal' /\ ReplayHasEvidence'
  BY <1>3 DEF FinishBatch
<1>4. ASSUME NEW o \in Ops, Edit(o)
      PROVE  ResultIffTerminal' /\ ReplayHasEvidence'
  BY <1>4, EditHasShape DEF EditShape, LiveStates
<1>5. ASSUME NEW o \in Ops, NEW counter \in Counters, FinishShape(o, counter)
      PROVE  ResultIffTerminal' /\ ReplayHasEvidence'
  BY <1>5 DEF FinishShape, Counters
<1>6. ASSUME NEW o \in Ops, ResolveShape(o)
      PROVE  ResultIffTerminal' /\ ReplayHasEvidence'
  BY <1>6 DEF ResolveShape
<1>7. CASE UNCHANGED journalVars
  BY <1>7 DEF journalVars
<1> QED
  BY <1>1, <1>2, <1>3, <1>4, <1>5, <1>6, <1>7, SettleHasShape DEF Next, Open

-----------------------------------------------------------------------------
(* Batches and their rows. *)

\* The rows and the announced number of a batch that a step leaves alone.
LEMMA SameRows ==
    ASSUME NEW b \in Batches,
           \A o \in Ops : BatchOf[o] = b =>
               (items'[o].state = "Absent" <=> items[o].state = "Absent")
    PROVE  ItemsOf(b)' = ItemsOf(b)
BY DEF ItemsOf

\* A batch id that is not in use has no rows.
LEMMA AbsentBatchHasNoRows ==
    ASSUME AbsentBatchIsZero, BatchIsNotOverfull,
           NEW b \in Batches, batches[b].state = "Absent"
    PROVE  ItemsOf(b) = {}
<1>1. Cardinality(ItemsOf(b)) <= 0
  BY DEF AbsentBatchIsZero, BatchIsNotOverfull
<1>2. IsFiniteSet(ItemsOf(b)) /\ Cardinality(ItemsOf(b)) \in Nat
  BY RowsAreFinite DEF ItemsOf
<1> QED
  BY <1>1, <1>2, FS_EmptySet

\* What a step does to one batch: it keeps its rows, its number and its state; or opens
\* it; or adds a row to it; or finishes it with every row accounted for.
LEMMA BatchStep ==
    ASSUME IInv, [Next]_journalVars, NEW b \in Batches
    PROVE  \/ /\ ItemsOf(b)' = ItemsOf(b)
              /\ batches'[b].requested = batches[b].requested
              /\ batches'[b].state = batches[b].state
              /\ \A c \in Counters : batches[b].state # "Running" => batches'[b][c] = batches[b][c]
           \/ /\ batches[b].state = "Absent" /\ batches'[b].state = "Running"
              /\ Cardinality(ItemsOf(b)') <= batches'[b].requested
           \/ /\ batches[b].state = "Running" /\ UNCHANGED batches
              /\ Cardinality(ItemsOf(b)') <= batches[b].requested
           \/ /\ UNCHANGED items
              /\ batches[b].state = "Running" /\ Accounted(b) = batches[b].requested
              /\ batches' = [batches EXCEPT ![b].state = "Completed"]
<1> DEFINE Same == /\ ItemsOf(b)' = ItemsOf(b)
                   /\ batches'[b].requested = batches[b].requested
                   /\ batches'[b].state = batches[b].state
                   /\ \A c \in Counters : batches[b].state # "Running" => batches'[b][c] = batches[b][c]
           Opened == /\ batches[b].state = "Absent" /\ batches'[b].state = "Running"
                     /\ Cardinality(ItemsOf(b)') <= batches'[b].requested
           Extended == /\ batches[b].state = "Running" /\ UNCHANGED batches
                       /\ Cardinality(ItemsOf(b)') <= batches[b].requested
           Finished == /\ UNCHANGED items
                       /\ batches[b].state = "Running" /\ Accounted(b) = batches[b].requested
                       /\ batches' = [batches EXCEPT ![b].state = "Completed"]
<1> SUFFICES Same \/ Opened \/ Extended \/ Finished
  OBVIOUS
<1>0. batches[b] \in BatchRow
  BY DEF IInv, TypeOK
<1>1. ASSUME NEW x \in Batches, NEW n \in 1..MaxRequested, BeginBatch(x, n)
      PROVE  Same \/ Opened
  <2>1. CASE x = b
    <3>1. ItemsOf(b)' = {}
      BY <1>1, <2>1, AbsentBatchHasNoRows DEF IInv, BeginBatch, ItemsOf
    <3> QED
      BY <1>1, <2>1, <3>1, FS_EmptySet, JournalAssumption DEF BeginBatch, NewBatch, IInv, TypeOK
  <2>2. CASE x # b
    BY <1>1, <2>2 DEF BeginBatch, ItemsOf, IInv, TypeOK
  <2> QED
    BY <2>1, <2>2
<1>2. ASSUME NEW x \in Batches, NEW plan \in SUBSET Ops, NEW p \in Policies, NEW d \in Destinations,
             BeginPlan(x, plan, p, d)
      PROVE  Same \/ Opened
  <2>1. CASE x = b
    <3>1. ItemsOf(b) = {}
      BY <1>2, <2>1, AbsentBatchHasNoRows DEF IInv, BeginPlan
    <3>2. ItemsOf(b)' = plan
      BY <1>2, <2>1, <3>1 DEF BeginPlan, ItemsOf, NewItem
    <3>3. Cardinality(plan) \in Nat
      BY RowsAreFinite
    <3> QED
      BY <1>2, <2>1, <3>2, <3>3 DEF BeginPlan, NewBatch, IInv, TypeOK
  <2>2. CASE x # b
    <3>1. ItemsOf(b)' = ItemsOf(b)
      BY <1>2, <2>2, SameRows DEF BeginPlan
    <3> QED
      BY <1>2, <2>2, <3>1 DEF BeginPlan, IInv, TypeOK
  <2> QED
    BY <2>1, <2>2
<1>3. ASSUME NEW x \in Batches, FinishBatch(x)
      PROVE  Same \/ Finished
  <2>1. CASE x = b
    BY <1>3, <2>1 DEF FinishBatch
  <2>2. CASE x # b
    BY <1>3, <2>2 DEF FinishBatch, ItemsOf, IInv, TypeOK
  <2> QED
    BY <2>1, <2>2
<1>4. ASSUME NEW o \in Ops, Edit(o)
      PROVE  Same \/ Extended
  <2>1. EditShape(o)
    BY <1>4, EditHasShape DEF IInv
  <2>2. CASE BatchOf[o] = b /\ items[o].state = "Absent"
    <3>1. ItemsOf(b)' = ItemsOf(b) \cup {o} /\ o \notin ItemsOf(b)
      BY <2>1, <2>2 DEF EditShape, ItemsOf, LiveStates
    <3>2. Cardinality(ItemsOf(b)') = Cardinality(ItemsOf(b)) + 1
      BY <3>1, FS_AddElement, RowsAreFinite DEF ItemsOf
    <3>3. Cardinality(ItemsOf(b)) \in Nat /\ batches[b].requested \in Nat
      BY <1>0, RowsAreFinite DEF ItemsOf, BatchRow
    <3> QED
      BY <2>1, <2>2, <3>2, <3>3 DEF EditShape
  <2>3. CASE ~(BatchOf[o] = b /\ items[o].state = "Absent")
    <3>1. ItemsOf(b)' = ItemsOf(b)
      BY <2>1, <2>3, SameRows DEF EditShape, LiveStates
    <3> QED
      BY <2>1, <3>1 DEF EditShape
  <2> QED
    BY <2>2, <2>3
<1>5. ASSUME NEW o \in Ops, NEW counter \in Counters, FinishShape(o, counter)
      PROVE  Same
  <2>1. ItemsOf(b)' = ItemsOf(b)
    BY <1>5, SameRows DEF FinishShape, LiveStates, Terminal
  <2>2. /\ batches'[b].requested = batches[b].requested
        /\ batches'[b].state = batches[b].state
    BY <1>0, <1>5, BatchOfType DEF FinishShape, BatchRow, Counters, IInv, TypeOK
  <2>3. \A c \in Counters : batches[b].state # "Running" => batches'[b][c] = batches[b][c]
    BY <1>5, BatchOfType DEF FinishShape, IInv, TypeOK
  <2> QED
    BY <2>1, <2>2, <2>3
<1>6. ASSUME NEW o \in Ops, ResolveShape(o)
      PROVE  Same
  BY <1>6, SameRows DEF ResolveShape
<1>7. CASE UNCHANGED journalVars
  BY <1>7 DEF journalVars, ItemsOf
<1> QED
  BY <1>1, <1>2, <1>3, <1>4, <1>5, <1>6, <1>7, SettleHasShape DEF Next, Open, IInv

\* When as many results are counted as rows were announced, every row has one.
LEMMA FullBatchIsSettled ==
    ASSUME IInv, NEW b \in Batches, batches[b].state = "Running",
           Accounted(b) = batches[b].requested
    PROVE  /\ Cardinality(ItemsOf(b)) = batches[b].requested
           /\ \A o \in ItemsOf(b) : items[o].state \in Terminal
<1>1. SettledOf(b) \subseteq ItemsOf(b)
  BY DEF SettledOf, ItemsOf, IInv, ResultIffTerminal, Terminal
<1>2. Cardinality(SettledOf(b)) = batches[b].requested
  BY AccountedIsSettled DEF IInv
<1>3. Cardinality(ItemsOf(b)) <= batches[b].requested
  BY DEF IInv, BatchIsNotOverfull
<1>4. /\ IsFiniteSet(ItemsOf(b)) /\ Cardinality(ItemsOf(b)) \in Nat
      /\ Cardinality(SettledOf(b)) \in Nat
  BY RowsAreFinite DEF ItemsOf, SettledOf
<1>5. Cardinality(SettledOf(b)) <= Cardinality(ItemsOf(b))
  BY <1>1, <1>4, FS_Subset
<1>6. SettledOf(b) = ItemsOf(b)
  BY <1>1, <1>2, <1>3, <1>4, <1>5, FS_Subset
<1> QED
  BY <1>2, <1>6 DEF SettledOf, IInv, ResultIffTerminal

\* The rows of a finished batch keep their state: none of them is live.
LEMMA FinishedRowsStay ==
    ASSUME IInv, [Next]_journalVars, NEW b \in Batches, batches[b].state = "Completed",
           NEW o \in Ops, BatchOf[o] = b
    PROVE  items'[o].state = items[o].state
<1>1. items[o].state \in {"Absent"} \cup Terminal
  BY DEF IInv, FinishedBatchIsSettled, ItemsOf
<1>2. ASSUME NEW x \in Batches, NEW plan \in SUBSET Ops, NEW p \in Policies, NEW d \in Destinations,
             BeginPlan(x, plan, p, d)
      PROVE  items'[o].state = items[o].state
  BY <1>2 DEF BeginPlan
<1>3. ASSUME NEW q \in Ops, Edit(q)
      PROVE  items'[o].state = items[o].state
  BY <1>1, <1>3, EditHasShape DEF EditShape, LiveStates, Terminal, IInv
<1>4. ASSUME NEW q \in Ops, Settle(q)
      PROVE  items'[o].state = items[o].state
  BY <1>1, <1>4, SettleHasShape DEF FinishShape, ResolveShape, LiveStates, Terminal, IInv
<1>5. ASSUME NEW x \in Batches, \/ \E n \in 1..MaxRequested : BeginBatch(x, n)
                               \/ FinishBatch(x)
      PROVE  items'[o].state = items[o].state
  BY <1>5 DEF BeginBatch, FinishBatch
<1>6. CASE UNCHANGED journalVars
  BY <1>6 DEF journalVars
<1> QED
  BY <1>2, <1>3, <1>4, <1>5, <1>6 DEF Next, Open

\* Every call keeps batches within their announced size and finished batches settled.
LEMMA BatchesStep ==
    ASSUME IInv, [Next]_journalVars
    PROVE  AbsentBatchIsZero' /\ BatchIsNotOverfull' /\ FinishedBatchIsSettled'
<1>1. TypeOK /\ TypeOK'
  BY TypeStep DEF IInv
<1>2. ASSUME NEW b \in Batches
      PROVE  Cardinality(ItemsOf(b)') <= batches'[b].requested
  <2>1. batches[b] \in BatchRow
    BY <1>1 DEF TypeOK
  <2> QED
    BY <1>1, <2>1, BatchStep DEF IInv, BatchIsNotOverfull, ItemsOf, BatchRow, TypeOK
<1>3. ASSUME NEW b \in Batches, batches'[b].state = "Absent"
      PROVE  batches'[b].requested = 0 /\ \A c \in Counters : batches'[b][c] = 0
  <2>1. batches[b] \in BatchRow
    BY <1>1 DEF TypeOK
  <2>2. batches[b].state = "Absent" /\ batches'[b].requested = batches[b].requested
    BY <1>1, <1>3, <2>1, BatchStep DEF TypeOK, BatchRow
  <2>3. \A c \in Counters : batches'[b][c] = batches[b][c]
    BY <1>1, <1>3, <2>2, BatchStep
  <2> QED
    BY <2>2, <2>3 DEF IInv, AbsentBatchIsZero
<1>4. ASSUME NEW b \in Batches, batches'[b].state = "Completed"
      PROVE  /\ Cardinality(ItemsOf(b)') = batches'[b].requested
             /\ \A o \in ItemsOf(b)' : items'[o].state \in Terminal
  <2>1. CASE batches[b].state = "Completed"
    <3>1. ItemsOf(b)' = ItemsOf(b) /\ batches'[b].requested = batches[b].requested
      BY <2>1, BatchStep
    <3> QED
      BY <2>1, <3>1, FinishedRowsStay DEF IInv, FinishedBatchIsSettled, ItemsOf
  <2>2. CASE batches[b].state # "Completed"
    <3>1. /\ UNCHANGED items
          /\ batches[b].state = "Running" /\ Accounted(b) = batches[b].requested
          /\ batches' = [batches EXCEPT ![b].state = "Completed"]
      BY <1>4, <2>2, BatchStep
    <3>2. batches'[b].requested = batches[b].requested /\ ItemsOf(b)' = ItemsOf(b)
      BY <1>1, <3>1 DEF ItemsOf, TypeOK, BatchRow
    <3> QED
      BY <3>1, <3>2, FullBatchIsSettled DEF ItemsOf
  <2> QED
    BY <2>1, <2>2
<1> QED
  BY <1>2, <1>3, <1>4 DEF AbsentBatchIsZero, BatchIsNotOverfull, FinishedBatchIsSettled

-----------------------------------------------------------------------------
(* The theorems. *)

\* The empty journal satisfies the inductive invariant.
LEMMA InitIInv == Init => IInv
<1> SUFFICES ASSUME Init
             PROVE  IInv
  OBVIOUS
<1> USE DEF Init, NewBatch, NewItem
<1>1. TypeOK
  BY JournalAssumption DEF TypeOK, BatchRow, ItemRow
<1>2. \A o \in Ops : items[o].state = "Absent" /\ items[o].result = "none"
  OBVIOUS
<1>3. \A b \in Batches : ItemsOf(b) = {} /\ \A c \in Counters : WithResult(b, c) = {}
  BY <1>2 DEF ItemsOf, WithResult, Counters
<1>4. AbsentBatchIsZero /\ ResultIffTerminal /\ ReplayHasEvidence /\ FinishedBatchIsSettled
  BY <1>2 DEF AbsentBatchIsZero, ResultIffTerminal, ReplayHasEvidence, FinishedBatchIsSettled,
              Counters, Terminal, AppliedStates
<1>5. \A b \in Batches : batches[b].requested = 0 /\ \A c \in Counters : batches[b][c] = 0
  BY DEF Counters
<1>6. \A b \in Batches : /\ Cardinality(ItemsOf(b)) = 0
                         /\ \A c \in Counters : Cardinality(WithResult(b, c)) = 0
  BY <1>3, FS_EmptySet
<1>7. CountersMatchItems
  BY <1>5, <1>6 DEF CountersMatchItems
<1>8. BatchIsNotOverfull
  BY <1>5, <1>6 DEF BatchIsNotOverfull
<1> QED
  BY <1>1, <1>4, <1>7, <1>8 DEF IInv

\* Every call keeps the inductive invariant.
LEMMA StepIInv == IInv /\ [Next]_journalVars => IInv'
BY TypeStep, CountersStep, RowStep, BatchesStep DEF IInv

\* The inductive invariant holds after any sequence of calls of journal.rs.
THEOREM Invariance == Spec => []IInv
<1>1. Init => IInv
  BY InitIInv
<1>2. IInv /\ [Next]_journalVars => IInv'
  BY StepIInv
<1> QED
  BY <1>1, <1>2, PTL DEF Spec

\* Rows and batches keep their shape under every sequence of calls (journal.rs, schema).
THEOREM TypeCorrect == Spec => []TypeOK
<1>1. IInv => TypeOK
  BY DEF IInv
<1> QED
  BY <1>1, Invariance, PTL

\* Every counter is the number of rows with that result (finish_item).
THEOREM CountersCorrect == Spec => []CountersMatchItems
<1>1. IInv => CountersMatchItems
  BY DEF IInv
<1> QED
  BY <1>1, Invariance, PTL

\* A finished batch holds all its announced rows, each of them ended (finish_batch).
THEOREM FinishedCorrect == Spec => []FinishedBatchIsSettled
<1>1. IInv => FinishedBatchIsSettled
  BY DEF IInv
<1> QED
  BY <1>1, Invariance, PTL

\* A row that recovery replays forward has its evidence (record_fs_applied).
THEOREM ReplayCorrect == Spec => []ReplayHasEvidence
<1>1. IInv => ReplayHasEvidence
  BY DEF IInv
<1> QED
  BY <1>1, Invariance, PTL

\* A row has a result exactly when it has ended, as long as advance is never asked for
\* a terminal state (complete_item, fail_item, skip_item).
THEOREM ResultCorrect == Spec => []ResultIffTerminal
<1>1. IInv => ResultIffTerminal
  BY DEF IInv
<1> QED
  BY <1>1, Invariance, PTL

\* No call changes a result or the state of an ended row (finish_item's compare-and-set).
LEMMA FinalStep ==
    ASSUME IInv, [Next]_journalVars, NEW o \in Ops, items[o].result # "none"
    PROVE  /\ items'[o].result = items[o].result
           /\ items'[o].state = items[o].state
           /\ items'[o].temporary => items[o].temporary
<1>1. items[o].state \in Terminal
  BY DEF IInv, ResultIffTerminal
<1>2. ASSUME NEW b \in Batches, Open(b)
      PROVE  items'[o] = items[o]
  BY <1>1, <1>2 DEF Open, BeginBatch, BeginPlan, FinishBatch, Terminal
<1>3. ASSUME NEW q \in Ops, Edit(q)
      PROVE  items'[o] = items[o]
  BY <1>1, <1>3, EditHasShape DEF EditShape, LiveStates, Terminal, IInv
<1>4. ASSUME NEW q \in Ops, Settle(q)
      PROVE  /\ items'[o].result = items[o].result
             /\ items'[o].state = items[o].state
             /\ items'[o].temporary => items[o].temporary
  <2>1. CASE \E counter \in Counters : FinishShape(q, counter)
    BY <1>1, <2>1 DEF FinishShape, LiveStates, Terminal
  <2>2. CASE ResolveRecoveryObligation(q, items[q].state)
    BY <2>2 DEF ResolveRecoveryObligation, IInv, TypeOK, ItemRow
  <2>3. CASE q = o
    <3>1. ~\E expected \in LiveStates : items[o].state = expected
      BY <1>1 DEF LiveStates, Terminal
    <3> QED
      BY <1>4, <2>2, <2>3, <3>1
         DEF Settle, CompleteItem, FailItem, SkipItem, CanTransition, LiveStates
  <2>4. CASE q # o
    BY <1>4, <2>1, <2>4, SettleHasShape DEF ResolveShape, IInv
  <2> QED
    BY <2>3, <2>4
<1>5. CASE UNCHANGED journalVars
  BY <1>5 DEF journalVars
<1> QED
  BY <1>2, <1>3, <1>4, <1>5 DEF Next

\* Once an item has its result, no later call changes what was reported.
THEOREM ResultStays == Spec => ResultIsFinal
<1>1. IInv /\ [Next]_journalVars =>
        [\A o \in Ops : items[o].result # "none" =>
            /\ items'[o].result = items[o].result
            /\ items'[o].state = items[o].state
            /\ items'[o].temporary => items[o].temporary]_journalVars
  BY FinalStep
<1> QED
  BY <1>1, Invariance, PTL DEF Spec, ResultIsFinal

\* No batch holds more rows than it announced (record_item, begin_plan).
THEOREM SizesCorrect == Spec => []BatchIsNotOverfull
<1>1. IInv => BatchIsNotOverfull
  BY DEF IInv
<1> QED
  BY <1>1, Invariance, PTL

\* A row that was never inserted has no temporary.
AbsentRowIsEmpty == \A o \in Ops : items[o].state = "Absent" => ~items[o].temporary

\* One step changes the temporary of a row only as TemporaryIsNeverForgotten allows, and
\* rows that were never inserted stay empty.
LEMMA TemporaryStep ==
    ASSUME IInv, AbsentRowIsEmpty, [Next]_journalVars, NEW o \in Ops
    PROVE  /\ items'[o].state = "Absent" => ~items'[o].temporary
           /\ items[o].temporary /\ ~items'[o].temporary => items'[o].state \in Terminal
<1> DEFINE Goal == /\ items'[o].state = "Absent" => ~items'[o].temporary
                   /\ items[o].temporary /\ ~items'[o].temporary => items'[o].state \in Terminal
<1>0. items[o] \in ItemRow
  BY DEF IInv, TypeOK
<1>1. CASE items'[o] = items[o]
  BY <1>1 DEF AbsentRowIsEmpty
<1>2. ASSUME NEW b \in Batches, Open(b) PROVE Goal
  <2>1. UNCHANGED items => Goal
    BY <1>1
  <2>2. ASSUME NEW plan \in SUBSET Ops, NEW p \in Policies, NEW d \in Destinations,
               BeginPlan(b, plan, p, d)
        PROVE  Goal
    <3>1. CASE o \in plan
      BY <2>2, <3>1 DEF BeginPlan, NewItem, AbsentRowIsEmpty
    <3>2. CASE o \notin plan
      BY <1>1, <2>2, <3>2 DEF BeginPlan
    <3> QED  BY <3>1, <3>2
  <2> QED  BY <1>2, <2>1, <2>2 DEF Open, BeginBatch, FinishBatch
<1>3. ASSUME NEW q \in Ops, Edit(q) PROVE Goal
  <2>1. CASE q # o
    BY <1>1, <1>3, <2>1, EditHasShape DEF EditShape, IInv
  <2>2. CASE q = o
    <3>1. items'[o].state \in LiveStates
      BY <1>3, <2>2, EditHasShape DEF EditShape, IInv
    <3>2. items[o].temporary => items'[o].temporary
      BY <1>0, <1>3, <2>2
         DEF Edit, RecordItem, NewItem, SetConflictPolicy, SetDestination, RegisterTemporary,
             RecordPreparedEvidence, RecordFsApplied, Advance, AbsentRowIsEmpty,
             IInv, TypeOK, ItemRow
    <3> QED  BY <3>1, <3>2 DEF LiveStates
  <2> QED  BY <2>1, <2>2
<1>4. ASSUME NEW q \in Ops, Settle(q) PROVE Goal
  <2>1. CASE q # o
    BY <1>1, <1>4, <2>1, SettleHasShape DEF FinishShape, ResolveShape, IInv
  <2>2. CASE q = o
    BY <1>4, <2>2, SettleHasShape DEF FinishShape, ResolveShape, IInv, Terminal
  <2> QED  BY <2>1, <2>2
<1>5. CASE UNCHANGED journalVars
  BY <1>1, <1>5 DEF journalVars
<1> QED  BY <1>2, <1>3, <1>4, <1>5 DEF Next

\* A registered temporary is dropped only from a row that has ended or ends with it
\* (finish_item, resolve_recovery_obligation): a crash finds every live one.
THEOREM TemporariesStay == Spec => TemporaryIsNeverForgotten
<1>1. Init => AbsentRowIsEmpty
  BY DEF Init, NewItem, AbsentRowIsEmpty
<1>2. IInv /\ AbsentRowIsEmpty /\ [Next]_journalVars => AbsentRowIsEmpty'
  BY TemporaryStep DEF AbsentRowIsEmpty
<1>3. IInv /\ AbsentRowIsEmpty /\ [Next]_journalVars =>
        [\A o \in Ops : items[o].temporary /\ ~items'[o].temporary =>
            items'[o].state \in Terminal]_journalVars
  BY TemporaryStep
<1> QED
  BY <1>1, <1>2, <1>3, Invariance, PTL DEF Spec, TemporaryIsNeverForgotten
=============================================================================
