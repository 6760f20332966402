---------------------------- MODULE OperationJournal ----------------------------
(***************************************************************************)
(* The durable operation journal of crates/viewer-infrastructure           *)
(* (operation/journal.rs): two SQLite tables, operation_batches and        *)
(* operation_items, behind one mutex.  Every public method is one SQLite   *)
(* transaction (or one UPDATE guarded by the expected state), so every     *)
(* method is one action here.  A call whose compare-and-set misses returns *)
(* an error and changes nothing: it is a stuttering step.                  *)
(*                                                                         *)
(* Abstracted: timestamps, result-code texts (the counter a result was     *)
(* accounted to is kept), sizes and hashes (an item either has content     *)
(* evidence or has none).                                                  *)
(***************************************************************************)
EXTENDS Naturals, FiniteSets

CONSTANTS
    Batches,        \* batch ids
    Ops,            \* operation ids
    BatchOf,        \* the batch an operation id was minted for
    Policies,       \* conflict policies a caller may choose
    Destinations,   \* destination paths a caller may choose
    MaxRequested    \* 10_000 in the code

ASSUME JournalAssumption ==
    /\ IsFiniteSet(Ops)
    /\ BatchOf \in [Ops -> Batches]
    /\ MaxRequested \in Nat \ {0}
    /\ Policies # {} /\ Destinations # {}

VARIABLES
    batches,        \* operation_batches, by id
    items           \* operation_items, by id

journalVars == <<batches, items>>

LiveStates == {"Prepared", "Staged", "FsApplied", "Verified", "MetaCommitted", "IndexSynced"}
Terminal == {"Completed", "Failed"}
AppliedStates == {"FsApplied", "Verified", "MetaCommitted", "IndexSynced"}
Counters == {"completed", "failed", "skipped"}

\* OperationState::transition_to.
CanTransition(from, to) ==
    \/ <<from, to>> \in {<<"Prepared", "Staged">>, <<"Staged", "FsApplied">>,
                         <<"FsApplied", "Verified">>, <<"Verified", "MetaCommitted">>,
                         <<"MetaCommitted", "IndexSynced">>, <<"IndexSynced", "Completed">>}
    \/ to = "Failed" /\ from \in LiveStates

ItemRow == [state : {"Absent"} \cup LiveStates \cup Terminal,
            policy : Policies, destination : Destinations,
            temporary : BOOLEAN, evidence : BOOLEAN,
            result : {"none"} \cup Counters]

BatchRow == [state : {"Absent", "Running", "Completed"}, requested : Nat,
             completed : Nat, failed : Nat, skipped : Nat]

ItemsOf(b) == {o \in Ops : BatchOf[o] = b /\ items[o].state # "Absent"}
Accounted(b) == batches[b].completed + batches[b].failed + batches[b].skipped

NewBatch(n) ==
    [state |-> "Running", requested |-> n, completed |-> 0, failed |-> 0, skipped |-> 0]

\* A row as begin_plan and record_item insert it: the policy and destination come
\* from the prepared plan.
NewItem(p, d) ==
    [state |-> "Prepared", policy |-> p, destination |-> d,
     temporary |-> FALSE, evidence |-> FALSE, result |-> "none"]

Init ==
    /\ batches = [b \in Batches |-> [NewBatch(0) EXCEPT !.state = "Absent"]]
    /\ items = [o \in Ops |-> [NewItem(CHOOSE p \in Policies : TRUE, CHOOSE d \in Destinations : TRUE)
                                EXCEPT !.state = "Absent"]]


-----------------------------------------------------------------------------
(* Opening a batch. *)

BeginBatch(b, n) ==
    /\ n \in 1..MaxRequested
    /\ batches[b].state = "Absent"
    /\ batches' = [batches EXCEPT ![b] = NewBatch(n)]
    /\ UNCHANGED items

\* The batch and all its items in one transaction.
BeginPlan(b, plan, p, d) ==
    /\ plan # {} /\ Cardinality(plan) <= MaxRequested
    /\ \A o \in plan : BatchOf[o] = b /\ items[o].state = "Absent"
    /\ batches[b].state = "Absent"
    /\ batches' = [batches EXCEPT ![b] = NewBatch(Cardinality(plan))]
    /\ items' = [o \in Ops |-> IF o \in plan THEN NewItem(p, d) ELSE items[o]]

RecordItem(o, p, d) ==
    /\ items[o].state = "Absent"
    /\ batches[BatchOf[o]].state = "Running"
    /\ Cardinality(ItemsOf(BatchOf[o])) < batches[BatchOf[o]].requested
    /\ items' = [items EXCEPT ![o] = NewItem(p, d)]
    /\ UNCHANGED batches

-----------------------------------------------------------------------------
(* Steps of a live item.  Each is an UPDATE ... WHERE state = expected. *)

SetConflictPolicy(o, p) ==
    /\ items[o].state = "Prepared"
    /\ items' = [items EXCEPT ![o].policy = p]
    /\ UNCHANGED batches

SetDestination(o, d) ==
    /\ items[o].state = "Prepared"
    /\ items' = [items EXCEPT ![o].destination = d]
    /\ UNCHANGED batches

RegisterTemporary(o, expected) ==
    /\ items[o].state = expected
    /\ items' = [items EXCEPT ![o].temporary = TRUE]
    /\ UNCHANGED batches

\* With a temporary, as every caller has it: the planner stages each rename.
RecordPreparedEvidence(o) ==
    /\ items[o].state = "Prepared"
    /\ items' = [items EXCEPT ![o].temporary = TRUE, ![o].evidence = TRUE]
    /\ UNCHANGED batches

RecordFsApplied(o) ==
    /\ CanTransition(items[o].state, "FsApplied")
    /\ items' = [items EXCEPT ![o].state = "FsApplied", ![o].evidence = TRUE]
    /\ UNCHANGED batches

\* advance refuses only Completed; every caller passes a forward state other than
\* FsApplied, which has its own method.
Advance(o, expected, next) ==
    /\ next # "Completed"
    /\ CanTransition(expected, next)
    /\ items[o].state = expected
    /\ items' = [items EXCEPT ![o].state = next]
    /\ UNCHANGED batches

-----------------------------------------------------------------------------
(* Ending an item: the row and the batch counter in one transaction, which *)
(* rolls back when the batch cannot take one more result.                  *)

\* Mutant: the row is ended and the batch counted, but no result_code is stored.
FinishItem_NoResult(o, expected, terminal, counter, retain) ==
    LET b == BatchOf[o] IN
    /\ items[o].state = expected /\ (retain => items[o].temporary)
    /\ batches[b].state = "Running" /\ Accounted(b) < batches[b].requested
    /\ items' = [items EXCEPT ![o].state = terminal]
    /\ batches' = [batches EXCEPT ![b][counter] = @ + 1]

FinishItem(o, expected, terminal, counter, retain) ==
    LET b == BatchOf[o] IN
    /\ items[o].state = expected
    /\ items[o].result = "none"
    /\ retain => items[o].temporary
    /\ batches[b].state = "Running"
    /\ Accounted(b) < batches[b].requested
    /\ items' = [items EXCEPT ![o].state = terminal, ![o].result = counter,
                              ![o].temporary = retain /\ @,
                              ![o].evidence = retain /\ @]
    /\ batches' = [batches EXCEPT ![b][counter] = @ + 1]

CompleteItem(o, expected) ==
    /\ CanTransition(expected, "Completed")
    /\ FinishItem(o, expected, "Completed", "completed", FALSE)

\* fail_item, fail, and with retain the *_recovery_required form.
FailItem(o, expected, retain) ==
    /\ CanTransition(expected, "Failed")
    /\ FinishItem(o, expected, "Failed", "failed", retain)

SkipItem(o, expected, retain) ==
    /\ expected \in LiveStates
    /\ FinishItem(o, expected, "Completed", "skipped", retain)

\* Mutant: an obligation is resolved whatever the state of the item.
ResolveRecoveryObligation_AnyState(o, expected) ==
    /\ items[o].temporary
    /\ items' = [items EXCEPT ![o].temporary = FALSE, ![o].evidence = FALSE]
    /\ UNCHANGED batches

ResolveRecoveryObligation(o, expected) ==
    /\ expected \in Terminal
    /\ items[o].state = expected
    /\ items[o].temporary
    /\ items' = [items EXCEPT ![o].temporary = FALSE, ![o].evidence = FALSE]
    /\ UNCHANGED batches

\* Mutant: the batch is closed without comparing requested and accounted.
FinishBatch_Unchecked(b) ==
    /\ batches[b].state = "Running"
    /\ batches' = [batches EXCEPT ![b].state = "Completed"]
    /\ UNCHANGED items

FinishBatch(b) ==
    /\ batches[b].state = "Running"
    /\ Accounted(b) = batches[b].requested
    /\ batches' = [batches EXCEPT ![b].state = "Completed"]
    /\ UNCHANGED items

\* What incomplete_items returns: the work list of the next project open.
IncompleteItems ==
    {o \in Ops : items[o].state # "Absent"
                 /\ (items[o].state \notin Terminal \/ items[o].temporary)}

-----------------------------------------------------------------------------
Open(b) ==
    \/ \E n \in 1..MaxRequested : BeginBatch(b, n)
    \/ \E plan \in SUBSET Ops, p \in Policies, d \in Destinations : BeginPlan(b, plan, p, d)
    \/ FinishBatch(b)

Edit(o) ==
    \/ \E p \in Policies, d \in Destinations : RecordItem(o, p, d)
    \/ \E p \in Policies : SetConflictPolicy(o, p)
    \/ \E d \in Destinations : SetDestination(o, d)
    \/ \E expected \in {"Prepared", "Verified"} : RegisterTemporary(o, expected)
    \/ RecordPreparedEvidence(o)
    \/ RecordFsApplied(o)
    \/ \E next \in {"Staged", "Verified", "MetaCommitted", "IndexSynced"} :
          Advance(o, items[o].state, next)

Settle(o) ==
    \/ CompleteItem(o, items[o].state)
    \/ \E retain \in BOOLEAN : FailItem(o, items[o].state, retain)
    \/ \E retain \in BOOLEAN : SkipItem(o, items[o].state, retain)
    \/ ResolveRecoveryObligation(o, items[o].state)

Next ==
    \/ \E b \in Batches : Open(b)
    \/ \E o \in Ops : Edit(o) \/ Settle(o)

Spec == Init /\ [][Next]_journalVars

-----------------------------------------------------------------------------
(* What the journal promises its callers. *)

TypeOK ==
    /\ batches \in [Batches -> BatchRow]
    /\ items \in [Ops -> ItemRow]

WithResult(b, counter) == {o \in Ops : BatchOf[o] = b /\ items[o].result = counter}

\* Every counter of a batch is the number of its items that carry that result: no
\* retry, late failure or recovery pass accounts an item twice or not at all
\* (finish_item's row update and counter update are one transaction).
CountersMatchItems ==
    \A b \in Batches, c \in Counters : batches[b][c] = Cardinality(WithResult(b, c))

\* No batch ever holds more items than it announced, which is why equal counts mean
\* that every item is accounted for (record_item, begin_plan and finish_batch together).
BatchIsNotOverfull ==
    \A b \in Batches : Cardinality(ItemsOf(b)) <= batches[b].requested

\* A batch is marked completed only when each item it announced is present and
\* terminal, so no live item is ever hidden in a finished batch (finish_batch).
FinishedBatchIsSettled ==
    \A b \in Batches : batches[b].state = "Completed" =>
        /\ Cardinality(ItemsOf(b)) = batches[b].requested
        /\ \A o \in ItemsOf(b) : items[o].state \in Terminal

\* An item recovery would replay forward always has the size and hash recovery
\* compares candidates with (record_fs_applied, and nothing clears it early).
ReplayHasEvidence ==
    \A o \in Ops : items[o].state \in AppliedStates => items[o].evidence

\* A terminal row without a result would be live for nobody and counted by nobody.
ResultIffTerminal ==
    \A o \in Ops : items[o].result # "none" <=> items[o].state \in Terminal

\* Once an item has its result, no later call moves it, re-labels it or registers a
\* new temporary for it; its obligation can only be resolved.
ResultIsFinal ==
    [][\A o \in Ops : items[o].result # "none" =>
          /\ items'[o].result = items[o].result
          /\ items'[o].state = items[o].state
          /\ items'[o].temporary => items[o].temporary]_journalVars

\* A registered temporary is dropped from the journal only together with a result,
\* or by resolving the obligation of an item that already had one: a crash can not
\* find a live item whose temporary has been forgotten.
TemporaryIsNeverForgotten ==
    [][\A o \in Ops : items[o].temporary /\ ~items'[o].temporary =>
          items'[o].state \in Terminal]_journalVars
=============================================================================
