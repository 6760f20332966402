---------------------------- MODULE ReviewPublication ----------------------------
(***************************************************************************)
(* One review stream from a saved command to the public review history:     *)
(*   viewer-infrastructure/src/review/authoring/store.rs                    *)
(*       the control plane: revisions, heads and the materialization jobs   *)
(*   viewer-application/src/review_workspace/materialization.rs             *)
(*       run_one, the consumer of one job, and what it publishes            *)
(*   viewer-application/src/review_workspace/authoring_service.rs,          *)
(*   barrier.rs      the foreground command and the flush before a barrier  *)
(*   viewer-infrastructure/src/review/continuous/commit.rs                  *)
(*       the commit of one state to the public history                      *)
(*   viewer-infrastructure/src/review/continuous/reader                     *)
(*       the current reader of an agent                                     *)
(*   src-tauri/src/state/review_workspace/  the session and its worker loop *)
(*                                                                         *)
(* A revision is its sequence number.  The worker "loop" runs in the         *)
(* background; "flush" is the consumer a barrier command makes for itself.  *)
(***************************************************************************)
EXTENDS Naturals, Sequences, FiniteSets, FiniteSetsExt, Functions

CONSTANTS
    MaxAttempts,    \* RETRY_DELAYS_MS.len()
    MaxCommands,
    Events,         \* what may happen to the workers: see Event
    MaxEvents       \* how often, all kinds together

ASSUME PublicationAssumption ==
    /\ {MaxAttempts, MaxCommands, MaxEvents} \subseteq Nat
    /\ Events \subseteq {"crash", "close", "fault", "slow", "read"}

VARIABLES
    revs,           \* the authoring revisions: command and barrier of each
    published,      \* the published head the control plane records
    jobs,           \* materialization jobs by target revision
    history,        \* the public history: the states the index has named
    states,         \* installed state records: revision -> parent in their bytes
    lease,          \* who holds the writer lease of the public repository
    mode,           \* "open", "closing" or "closed"
    pc, claim, error,   \* what each worker does, for which claim, after which error
    wake,           \* the loop's notification permit
    fg, sent, answer,   \* the command in the gate, the envelopes, what the user was told
    reader,         \* one read of the current review by an agent
    events          \* how many crashes, closes, faults, late workers and reads there were

control == <<revs, published, jobs>>
public == <<history, states, lease>>
workers == <<pc, claim, error>>
front == <<fg, sent, answer>>
vars == <<control, public, mode, workers, wake, front, reader, events>>

Workers == {"loop", "flush"}
Commands == 1..MaxCommands
Barriers == {"none", "archive"}
NoRead == [step |-> "idle", authoring |-> 0, published |-> 0, answer |-> "none", got |-> 0]
NoClaim == [target |-> 0, parent |-> 0, epoch |-> 0, attempts |-> 0]

Latest == Len(revs)
Current == IF history = <<>> THEN 0 ELSE history[Len(history)]
Event(kind) == kind \in Events /\ events < MaxEvents /\ events' = events + 1
Fault == Event("fault")
NoFault == UNCHANGED events

Init ==
    /\ revs = <<>> /\ published = 0 /\ jobs = <<>>
    /\ history = <<>> /\ states = <<>> /\ lease = "free"
    /\ mode = "open"
    /\ pc = [w \in Workers |-> IF w = "loop" THEN "idle" ELSE "stopped"]
    /\ claim = [w \in Workers |-> NoClaim] /\ error = [w \in Workers |-> "none"]
    /\ wake = FALSE
    /\ fg = 0
    /\ sent = [c \in Commands |-> [barrier |-> "none", expected |-> 0]]
    /\ answer = [c \in Commands |-> "unsent"]
    /\ reader = NoRead
    /\ events = 0

-----------------------------------------------------------------------------
(* The foreground command. *)

\* Mutant: a saved command does not wake the loop.
Answer_NoWake(a) ==
    answer' = [answer EXCEPT ![fg] = a] /\ fg' = 0 /\ UNCHANGED <<wake, sent>>

\* The answer of the command in the gate; a success wakes the loop.
Answer(a) ==
    /\ answer' = [answer EXCEPT ![fg] = a]
    /\ fg' = 0
    /\ wake' = (wake \/ a = "saved")
    /\ UNCHANGED sent

Submit(c, b) ==
    /\ mode = "open" /\ fg = 0
    /\ answer[c] = "unsent" /\ (c > 1 => answer[c - 1] # "unsent")
    /\ b # "none" => Latest > 0
    /\ fg' = c
    /\ sent' = [sent EXCEPT ![c] = [barrier |-> b, expected |-> Latest]]
    /\ answer' = [answer EXCEPT ![c] = "pending"]
    /\ UNCHANGED <<control, public, mode, workers, wake, reader, events>>

\* The same envelope again, after its answer was lost.
Resubmit(c) ==
    /\ mode = "open" /\ fg = 0 /\ answer[c] = "unanswered"
    /\ fg' = c /\ answer' = [answer EXCEPT ![c] = "pending"]
    /\ UNCHANGED <<control, public, mode, workers, wake, sent, reader, events>>

Gated == fg # 0 /\ pc["flush"] = "stopped"
IsSaved(c) == \E n \in DOMAIN revs : revs[n].cmd = c

HasReceipt(c) == IsSaved(c)

FindCommand ==
    /\ Gated /\ HasReceipt(fg)
    /\ Answer("saved") /\ NoFault
    /\ UNCHANGED <<control, public, mode, workers, reader>>

Refuse ==
    /\ Gated /\ ~HasReceipt(fg)
    /\ mode = "closing" \/ sent[fg].expected # Latest
    /\ Answer("refused") /\ NoFault
    /\ UNCHANGED <<control, public, mode, workers, reader>>

Insert ==
    /\ revs' = Append(revs, [cmd |-> fg, barrier |-> sent[fg].barrier])
    /\ jobs' = [n \in DOMAIN jobs \cup {Latest + 1} |->
                   IF n \in DOMAIN jobs THEN jobs[n]
                   ELSE [status |-> "queued", attempts |-> 0, epoch |-> 0, due |-> TRUE]]
    /\ UNCHANGED published

NeedsFlush == sent[fg].barrier # "none" /\ published < Latest

\* A barrier command whose basis the control plane calls public still reads the
\* public state and compares it with the basis.
BasisIsPublic == sent[fg].barrier = "none" \/ Current = Latest

\* The reply may fail after the commit, when the status cannot be read: no wake then.
Commit ==
    /\ Gated /\ mode = "open" /\ ~HasReceipt(fg) /\ sent[fg].expected = Latest
    /\ ~NeedsFlush
    /\ IF BasisIsPublic
       THEN /\ Insert
            /\ \/ Answer("saved") /\ NoFault
               \/ Answer("unanswered") /\ Fault
       ELSE Answer("refused") /\ NoFault /\ UNCHANGED control
    /\ UNCHANGED <<public, mode, workers, reader>>

Flush ==
    /\ Gated /\ mode = "open" /\ ~HasReceipt(fg) /\ sent[fg].expected = Latest
    /\ NeedsFlush
    /\ pc' = [pc EXCEPT !["flush"] = "idle"]
    /\ UNCHANGED <<control, public, mode, claim, error, wake, front, reader, events>>

-----------------------------------------------------------------------------
(* run_one.  Enter(w, s) is the next step of the worker, Outcome(w, o) the result     *)
(* it returns to the loop or to flush_through.                                        *)

Enter(w, s) == pc' = [pc EXCEPT ![w] = s] /\ UNCHANGED <<wake, front>>

After(o) == CASE o = "published" -> "idle"
              [] o = "retrying" -> "waiting"
              [] o \in {"idle", "blocked"} -> "asleep"
              [] o = "failed" -> "resting"

\* flush_through goes on after a publication and fails the command after anything else.
Outcome(w, o) ==
    /\ pc' = [pc EXCEPT ![w] = IF w = "loop" THEN After(o) ELSE "stopped"]
    /\ IF w = "loop" \/ o = "published" THEN UNCHANGED <<wake, front>>
       ELSE Answer("refused")

Fail(w, e) == error' = [error EXCEPT ![w] = e] /\ Enter(w, "fail") /\ UNCHANGED claim
Cancelled == mode = "closing"

\* requeue_expired
Requeued == [n \in DOMAIN jobs |->
                IF jobs[n].status = "running" /\ jobs[n].due
                THEN [jobs[n] EXCEPT !.status = "queued"] ELSE jobs[n]]

\* Mutant: a batch of ordinary revisions runs on over a barrier.
Batch_OverBarrier(j) ==
    {n \in DOMAIN j : \A m \in (published + 1)..n :
        m \in DOMAIN j /\ j[m].status \in {"queued", "retryable"} /\ j[m].due}

\* The revisions one claim takes: the first one, and after it the ordinary ones that
\* are ready too, unless the first is a barrier.
Batch(j) ==
    {n \in DOMAIN j : \A m \in (published + 1)..n :
        /\ m \in DOMAIN j /\ j[m].status \in {"queued", "retryable"} /\ j[m].due
        /\ n > published + 1 => revs[m].barrier = "none"}

Claim(w) ==
    /\ pc[w] = "idle" /\ NoFault
    /\ w = "loop" => ~Cancelled
    /\ LET j == Requeued
           batch == Batch(j)
           target == Max(batch)
           epoch == j[target].epoch + 1
       IN IF batch = {}
          THEN jobs' = j /\ Outcome(w, "idle") /\ UNCHANGED <<claim, error>>
          ELSE /\ jobs' = [n \in DOMAIN j |->
                    IF n \in batch
                    THEN [status |-> "running", attempts |-> j[n].attempts + 1,
                          epoch |-> epoch, due |-> FALSE]
                    ELSE j[n]]
               /\ claim' = [claim EXCEPT ![w] = [target |-> target, parent |-> published,
                    epoch |-> epoch, attempts |-> j[target].attempts + 1]]
               /\ error' = [error EXCEPT ![w] = "none"]
               /\ Enter(w, "verify")
    /\ UNCHANGED <<revs, published, public, mode, reader>>

IsCurrent(w) == Current = claim[w].target

SameState(w) == states[Current] = claim[w].parent

Verify(w) ==
    /\ pc[w] = "verify" /\ NoFault
    /\ IF lease # "free" THEN Fail(w, "transient")
       ELSE IF IsCurrent(w) THEN
           IF SameState(w) THEN Enter(w, "mark") /\ UNCHANGED <<claim, error>>
           ELSE Fail(w, "permanent")
       ELSE IF Cancelled THEN Fail(w, "transient")
       ELSE Enter(w, "render") /\ UNCHANGED <<claim, error>>
    /\ UNCHANGED <<control, public, mode, reader>>

Render(w) ==
    /\ pc[w] = "render"
    /\ \/ NoFault
          /\ IF Cancelled THEN Fail(w, "transient")
             ELSE IF Current # claim[w].parent THEN Fail(w, "permanent")
             ELSE Enter(w, "install") /\ UNCHANGED <<claim, error>>
       \/ Fault /\ \E e \in {"transient", "permanent"} : Fail(w, e)
    /\ UNCHANGED <<control, public, mode, reader>>

Recheck(w, e) == error' = [error EXCEPT ![w] = e] /\ Enter(w, "recheck") /\ UNCHANGED claim

\* Mutant: the commit does not compare the index with the expected reference.
ExpectedIsCurrent_Ignored(w) == TRUE
ExpectedIsCurrent(w) == Current = claim[w].parent

\* The commit up to its create-once records; the index is replaced in the next step.
Install(w) ==
    /\ pc[w] = "install"
    /\ LET target == claim[w].target
           found == target \in Range(history)
           foreign == target \in DOMAIN states /\ states[target] # claim[w].parent
       IN \/ /\ NoFault /\ lease = "free" /\ ~found /\ ExpectedIsCurrent(w) /\ ~foreign
             /\ states' = [n \in DOMAIN states \cup {target} |->
                              IF n = target THEN claim[w].parent ELSE states[n]]
             /\ lease' = w
             /\ Enter(w, "index") /\ UNCHANGED <<claim, error>>
          \/ /\ UNCHANGED <<states, lease>>
             /\ \/ NoFault /\ lease # "free" /\ Recheck(w, "transient")
                \/ NoFault /\ lease = "free" /\ found /\ Recheck(w, "none")
                \/ /\ NoFault /\ lease = "free" /\ ~found
                   /\ ~ExpectedIsCurrent(w) \/ foreign
                   /\ Recheck(w, "permanent")
                \/ Fault /\ lease = "free" /\ Recheck(w, "transient")
    /\ UNCHANGED <<control, history, mode, reader>>

\* The index may be in place although its replacement reports an error.
ReplaceIndex(w) ==
    /\ pc[w] = "index" /\ lease = w
    /\ lease' = "free"
    /\ \/ NoFault /\ history' = Append(history, claim[w].target) /\ Recheck(w, "none")
       \/ /\ Fault /\ Recheck(w, "transient")
          /\ history' \in {history, Append(history, claim[w].target)}
    /\ UNCHANGED <<control, states, mode, reader>>

Reverify(w) ==
    /\ pc[w] = "recheck" /\ NoFault
    /\ LET kept == IF error[w] = "permanent" THEN "permanent" ELSE "transient"
       IN IF lease # "free" THEN Fail(w, kept)
          ELSE IF ~IsCurrent(w) THEN Fail(w, kept)
          ELSE IF SameState(w) THEN Enter(w, "mark") /\ UNCHANGED <<claim, error>>
          ELSE Fail(w, "permanent")
    /\ UNCHANGED <<control, public, mode, reader>>

\* require_claim and the count of the claimed rows
HoldsClaim(w) ==
    /\ claim[w].target > published
    /\ \A n \in (published + 1)..claim[w].target :
          n \in DOMAIN jobs /\ jobs[n].status = "running" /\ jobs[n].epoch = claim[w].epoch

\* Mutant: the jobs of the whole stream are deleted with the published ones.
Remaining_None(w) == {}
Remaining(w) == {n \in DOMAIN jobs : n > claim[w].target}

MarkPublished(w) ==
    /\ pc[w] = "mark"
    /\ \/ /\ NoFault /\ HoldsClaim(w)
          /\ published' = claim[w].target
          /\ jobs' = [n \in Remaining(w) |-> jobs[n]]
          /\ Outcome(w, "published")
       \/ /\ (NoFault /\ ~HoldsClaim(w)) \/ Fault
          /\ UNCHANGED <<published, jobs>>
          /\ Outcome(w, "failed")
    /\ UNCHANGED <<revs, public, mode, claim, error, reader>>

GivesUp(w) == error[w] = "permanent" \/ claim[w].attempts > MaxAttempts

FinishFailed(w) ==
    /\ pc[w] = "fail" /\ NoFault
    /\ LET target == claim[w].target
           batch == (published + 1)..target
       IN \/ /\ HoldsClaim(w) /\ GivesUp(w)
             /\ jobs' = [n \in DOMAIN jobs |->
                   IF n \notin batch THEN jobs[n]
                   ELSE [jobs[n] EXCEPT !.status = IF n = target THEN "blocked" ELSE "queued",
                                        !.due = TRUE]]
             /\ Outcome(w, "blocked")
          \/ /\ HoldsClaim(w) /\ ~GivesUp(w)
             /\ jobs' = [n \in DOMAIN jobs |->
                   IF n \in batch THEN [jobs[n] EXCEPT !.status = "retryable"] ELSE jobs[n]]
             /\ Outcome(w, "retrying")
          \/ ~HoldsClaim(w) /\ UNCHANGED jobs /\ Outcome(w, "failed")
    /\ UNCHANGED <<revs, published, public, mode, claim, error, reader>>

Run(w) == \/ Claim(w) \/ Verify(w) \/ Render(w) \/ Install(w) \/ ReplaceIndex(w)
          \/ Reverify(w) \/ MarkPublished(w) \/ FinishFailed(w)

-----------------------------------------------------------------------------
(* The worker loop, the session, time and the process. *)

Loop(s) == pc' = [pc EXCEPT !["loop"] = s]

\* A permit ends the sleep; during a timed wait it is used up without effect.
Notified ==
    /\ wake /\ wake' = FALSE
    /\ \/ pc["loop"] = "asleep" /\ Loop("idle")
       \/ pc["loop"] \in {"waiting", "resting"} /\ UNCHANGED pc
    /\ UNCHANGED <<control, public, mode, claim, error, front, reader, events>>

\* The wait after a retry lasts as long as the job's delay.
BackingOff ==
    LET t == claim["loop"].target
    IN t \in DOMAIN jobs /\ jobs[t].status = "retryable" /\ ~jobs[t].due
       /\ jobs[t].epoch = claim["loop"].epoch

WaitEnds ==
    /\ \/ pc["loop"] = "waiting" /\ ~BackingOff
       \/ pc["loop"] = "resting"
    /\ Loop("idle")
    /\ UNCHANGED <<control, public, mode, claim, error, wake, front, reader, events>>

LoopExits ==
    /\ Cancelled /\ pc["loop"] \in {"idle", "asleep", "waiting", "resting"}
    /\ Loop("stopped")
    /\ UNCHANGED <<control, public, mode, claim, error, wake, front, reader, events>>

Holder(e) == {w \in Workers : pc[w] \in {"verify", "render", "install", "index", "recheck",
                                         "mark", "fail"} /\ claim[w].epoch = e}

\* A retry delay passes, or the thirty seconds of a running claim; the latter within
\* the life of its worker is an event.
Elapse(s, e) ==
    LET rows == {n \in DOMAIN jobs : jobs[n].status = s /\ jobs[n].epoch = e /\ ~jobs[n].due}
    IN /\ rows # {}
       /\ IF s = "running" /\ Holder(e) # {} THEN Event("slow") ELSE UNCHANGED events
       /\ jobs' = [n \in DOMAIN jobs |-> IF n \in rows THEN [jobs[n] EXCEPT !.due = TRUE]
                                         ELSE jobs[n]]
       /\ UNCHANGED <<revs, published, public, mode, workers, wake, front, reader>>

\* Revoke: no new command, and every running one is cancelled.
Close ==
    /\ mode = "open" /\ Event("close")
    /\ mode' = "closing"
    /\ UNCHANGED <<control, public, workers, wake, front, reader>>

Closed ==
    /\ mode = "closing" /\ fg = 0 /\ \A w \in Workers : pc[w] = "stopped"
    /\ mode' = "closed"
    /\ UNCHANGED <<control, public, workers, wake, front, reader, events>>

Crash ==
    /\ mode # "closed" /\ Event("crash")
    /\ mode' = "closed" /\ lease' = "free"
    /\ pc' = [w \in Workers |-> "stopped"]
    /\ claim' = [w \in Workers |-> NoClaim] /\ error' = [w \in Workers |-> "none"]
    /\ fg' = 0
    /\ answer' = [c \in Commands |-> IF c = fg THEN "unanswered" ELSE answer[c]]
    /\ UNCHANGED <<control, history, states, wake, sent, reader>>

\* initialize, and the start of the loop with the first operation
Open ==
    /\ mode = "closed" /\ mode' = "open"
    /\ jobs' = Requeued
    /\ wake' = FALSE
    /\ Loop("idle")
    /\ UNCHANGED <<revs, published, public, claim, error, front, reader, events>>

-----------------------------------------------------------------------------
(* The reader of an agent: it pins the heads first and the index after them. *)

PinHeads ==
    /\ reader.step = "idle" /\ Event("read")
    /\ reader' = [NoRead EXCEPT !.step = "pinned", !.authoring = Latest, !.published = published]
    /\ UNCHANGED <<control, public, mode, workers, wake, front>>

\* Mutant: a published head is returned although newer revisions are saved.
Gate_PublishedOnly(r) ==
    IF r.authoring = 0 \/ r.published = Current THEN "current" ELSE "integrity"

\* gate_stream; a stream the control plane does not know yet is read as it is.
Gate(r) ==
    IF r.authoring # r.published THEN "pending"
    ELSE IF r.authoring = 0 \/ r.published = Current THEN "current"
    ELSE "integrity"

ReadIndex ==
    /\ reader.step = "pinned"
    /\ reader' = IF Gate(reader) = "pending" THEN NoRead
                 ELSE [reader EXCEPT !.step = "idle", !.answer = Gate(reader), !.got = Current]
    /\ UNCHANGED <<control, public, mode, workers, wake, front, events>>

-----------------------------------------------------------------------------
User == (\E c \in Commands, b \in Barriers : Submit(c, b)) \/ \E c \in Commands : Resubmit(c)
Apply == FindCommand \/ Refuse \/ Commit \/ Flush
TimePasses == \E n \in DOMAIN jobs :
    jobs[n].status \in {"running", "retryable"} /\ Elapse(jobs[n].status, jobs[n].epoch)

Next ==
    \/ User \/ Apply
    \/ \E w \in Workers : Run(w)
    \/ Notified \/ WaitEnds \/ LoopExits \/ TimePasses
    \/ Close \/ Closed \/ Crash \/ Open
    \/ PinHeads \/ ReadIndex

\* A running task goes on, a timer fires and a closing session closes.  Nothing makes
\* the user act, the process stop or a lease outlive its worker.
Fairness ==
    /\ WF_vars(Apply) /\ \A w \in Workers : WF_vars(Run(w))
    /\ WF_vars(Notified /\ pc["loop"] = "asleep") /\ WF_vars(WaitEnds) /\ WF_vars(LoopExits)
    /\ WF_vars(TimePasses) /\ WF_vars(Closed)

Spec == Init /\ [][Next]_vars /\ Fairness
-----------------------------------------------------------------------------
(* Properties *)

\* The public history only ever grows by states that were made on top of its last one,
\* however many workers, stale claims and restarts publish into it: every state names
\* its predecessor as its parent, and revisions never go back.  The recorded head is a
\* state of that history, which is never ahead of it by more than the one publication
\* that is still to be recorded.
HistoryIsAChain ==
    /\ \A i \in DOMAIN history :
          /\ states[history[i]] = (IF i = 1 THEN 0 ELSE history[i - 1])
          /\ i > 1 => history[i - 1] < history[i]
    /\ published # 0 => published \in Range(history)
    /\ Cardinality({n \in Range(history) : n > published}) <= 1

\* Every saved revision that is not published has its job, and no published one has:
\* a revision whose job is gone would stay private for ever.
JobsCoverTheGap == DOMAIN jobs = (published + 1)..Latest

\* An archive is made on a public basis and is never folded into a batch: the state
\* before it is the public one it archives, and it becomes a public state of its own.
ArchiveBasisIsPublic ==
    \A n \in DOMAIN revs : revs[n].barrier # "none" =>
        /\ n - 1 \in Range(history)
        /\ n <= published => n \in Range(history)
        /\ \A i \in DOMAIN history :
              history[i] = n => i > 1 /\ history[i - 1] = n - 1

\* What an agent is given as the current review is the newest review that was saved
\* when the read began, never an older published one.
AgentSeesTheLatest ==
    reader.answer = "current" => reader.got >= reader.authoring

\* A saved revision becomes public, unless a revision is blocked, the program is closed,
\* the last answer was lost, or the loop sleeps over a job that somebody has tried.  And
\* a command that was accepted is answered, or the program closes: a flush never goes
\* round for ever on a job it cannot get.
SavedBecomesPublic ==
    /\ []<>(\/ published = Latest
            \/ \E n \in DOMAIN jobs : jobs[n].status = "blocked"
            \/ mode # "open"
            \/ \E c \in Commands : answer[c] = "unanswered"
            \/ pc["loop"] = "asleep" /\ jobs[published + 1].attempts > 0)
    /\ fg # 0 ~> fg = 0

=============================================================================
