------------------------ MODULE ReviewPublication_proofs ------------------------
(***************************************************************************)
(* Theorems about ReviewPublication, for any number of commands, crashes,   *)
(* closes, faults, late workers and reads: the public history is one chain, *)
(* every unpublished revision keeps its job, an archive closes a public     *)
(* state, and a reader is never given an older review for the current one.  *)
(***************************************************************************)
EXTENDS ReviewPublication, FiniteSetTheorems, SequenceTheorems, WellFoundedInduction, TLAPS

PCs == {"stopped", "idle", "waiting", "asleep", "resting", "verify", "render", "install",
        "index", "recheck", "mark", "fail"}
Claiming == {"verify", "render", "install", "index", "recheck", "mark", "fail"}

\* The shape of the state, as far as the proofs look at it.
Types ==
    /\ revs \in Seq([cmd : 0..MaxCommands, barrier : Barriers])
    /\ published \in Nat /\ published <= Latest
    /\ JobsCoverTheGap
    /\ history \in Seq(1..Latest)
    /\ DOMAIN states \subseteq 1..Latest
    /\ pc \in [Workers -> PCs]
    /\ DOMAIN claim = Workers
    /\ \A w \in Workers : claim[w].target \in Nat /\ claim[w].parent \in Nat
    /\ fg \in 0..MaxCommands
    /\ sent \in [Commands -> [barrier : Barriers, expected : Nat]]
    /\ \A c \in Commands : sent[c].barrier # "none" => sent[c].expected > 0

\* What a claim has been given and stays true of it, however old it is: its revisions
\* follow on a head that was published, and a barrier among them is alone.
ClaimsAreSound ==
    \A w \in Workers : pc[w] \in Claiming =>
        /\ claim[w].parent < claim[w].target /\ claim[w].target <= Latest
        /\ claim[w].parent <= published
        /\ \A n \in (claim[w].parent + 1)..claim[w].target :
              revs[n].barrier # "none" => n = claim[w].target /\ n = claim[w].parent + 1

\* The holder of the writer lease is the only one between its record and the index,
\* and the record names the current state as its parent.
WriterIsAlone ==
    \A w \in Workers : pc[w] = "index" =>
        /\ lease = w
        /\ claim[w].target \in DOMAIN states /\ states[claim[w].target] = claim[w].parent
        /\ Current = claim[w].parent
        /\ claim[w].target \notin Range(history)

\* Only a state that is in the public history is recorded as published.
MarksArePublic == \A w \in Workers : pc[w] = "mark" => claim[w].target \in Range(history)

\* Every public state was installed on top of its predecessor, and all but the last one
\* are recorded as published.
Chain ==
    /\ \A i \in DOMAIN history :
          /\ history[i] \in DOMAIN states
          /\ states[history[i]] = (IF i = 1 THEN 0 ELSE history[i - 1])
          /\ i > 1 => history[i - 1] < history[i]
          /\ i < Len(history) => history[i] <= published
    /\ published # 0 => published \in Range(history)

IInv == /\ Types /\ ClaimsAreSound /\ WriterIsAlone /\ MarksArePublic /\ Chain
        /\ ArchiveBasisIsPublic

\* The history is a sequence of saved revisions.
LEMMA HistoryShape ==
    Types => /\ Latest \in Nat /\ Len(history) \in Nat /\ DOMAIN history = 1..Len(history)
             /\ \A i \in 1..Len(history) : history[i] \in Nat /\ history[i] > 0 /\ history[i] <= Latest
             /\ \A x : x \in Range(history) <=> \E i \in 1..Len(history) : history[i] = x
<1> SUFFICES ASSUME Types
             PROVE  /\ Latest \in Nat /\ Len(history) \in Nat /\ DOMAIN history = 1..Len(history)
                    /\ \A i \in 1..Len(history) :
                          history[i] \in Nat /\ history[i] > 0 /\ history[i] <= Latest
                    /\ \A x : x \in Range(history) <=> \E i \in 1..Len(history) : history[i] = x
  OBVIOUS
<1>1. Latest \in Nat
  BY DEF Types, Latest
<1>2. history \in Seq(1..Latest)
  BY DEF Types
<1>3. Len(history) \in Nat /\ DOMAIN history = 1..Len(history)
  BY <1>2
<1>4. \A i \in 1..Len(history) : history[i] \in 1..Latest
  BY <1>2, ElementOfSeq
<1>5. \A x : x \in Range(history) <=> \E i \in 1..Len(history) : history[i] = x
  BY <1>3, Zenon DEF Range
<1> QED  BY <1>1, <1>3, <1>4, <1>5

-----------------------------------------------------------------------------
(* Steps that save, install and publish nothing. *)

\* The control plane's heads and the public files stay, no claim is made, nobody comes
\* to the index, and who comes to record a publication has found it public.
Quiet ==
    /\ UNCHANGED <<revs, published, history, states>> /\ DOMAIN jobs' = DOMAIN jobs
    /\ lease' = lease \/ \A w \in Workers : pc'[w] # "index"
    /\ pc' \in [Workers -> PCs]
    /\ DOMAIN claim' = Workers
    /\ \A w \in Workers : claim'[w].target \in Nat /\ claim'[w].parent \in Nat
    /\ fg' \in 0..MaxCommands
    /\ sent' \in [Commands -> [barrier : Barriers, expected : Nat]]
    /\ \A c \in Commands : sent'[c].barrier # "none" => sent'[c].expected > 0
    /\ \A w \in Workers :
          /\ pc'[w] \in Claiming => pc[w] \in Claiming /\ claim'[w] = claim[w]
          /\ pc'[w] = "index" => pc[w] = "index"
          /\ pc'[w] = "mark" => pc[w] = "mark" \/ claim[w].target \in Range(history)

\* Such a step keeps the invariant.
LEMMA QuietKeeps == IInv /\ Quiet => IInv'
<1> SUFFICES ASSUME IInv, Quiet PROVE IInv'
  OBVIOUS
<1> USE DEF IInv, Quiet
<1>0. Latest' = Latest /\ Current' = Current /\ Range(history)' = Range(history)
  BY DEF Latest, Current
<1>1. Types'
  BY <1>0 DEF Types, JobsCoverTheGap, Latest
<1>2. ClaimsAreSound'
  BY <1>0 DEF ClaimsAreSound
<1>3. WriterIsAlone'
  BY <1>0 DEF WriterIsAlone, Claiming
<1>4. MarksArePublic'
  BY <1>0 DEF MarksArePublic, Claiming
<1>5. Chain' /\ ArchiveBasisIsPublic'
  BY <1>0 DEF Chain, ArchiveBasisIsPublic
<1> QED  BY <1>1, <1>2, <1>3, <1>4, <1>5

\* What the other parts of a step may do to the two variables of the front end.
FrontKept == UNCHANGED <<fg, sent>> \/ (fg' = 0 /\ UNCHANGED sent)

\* A step of one worker that ends its claim or goes on with it.
LEMMA WorkerQuiet ==
    ASSUME IInv, NEW w \in Workers, NEW s \in PCs,
           pc' = [pc EXCEPT ![w] = s],
           UNCHANGED <<revs, published, history, states, claim>>, DOMAIN jobs' = DOMAIN jobs,
           lease' = lease \/ (lease = w /\ s # "index"),
           FrontKept,
           s \in Claiming => pc[w] \in Claiming,
           s = "index" => pc[w] = "index",
           s = "mark" => claim[w].target \in Range(history)
    PROVE  Quiet
<1> USE DEF IInv, Types
<1>1. \A v \in Workers : pc'[v] = IF v = w THEN s ELSE pc[v]
  OBVIOUS
<1>2. pc' \in [Workers -> PCs]
  OBVIOUS
<1>3. lease' = lease \/ \A v \in Workers : pc'[v] # "index"
  BY <1>1 DEF WriterIsAlone
<1>4. fg' \in 0..MaxCommands /\ sent' = sent
  BY PublicationAssumption DEF FrontKept
<1> QED  BY <1>1, <1>2, <1>3, <1>4 DEF Quiet

\* What run_one hands back ends the claim of its worker.
LEMMA OutcomeShape ==
    ASSUME NEW w \in Workers,
           NEW o \in {"published", "retrying", "idle", "blocked", "failed"}, Outcome(w, o)
    PROVE  /\ FrontKept
           /\ \E s \in PCs \ Claiming : pc' = [pc EXCEPT ![w] = s]
<1>1. FrontKept
  BY DEF Outcome, FrontKept, Answer, front
<1>2. After(o) \in PCs \ Claiming /\ "stopped" \in PCs \ Claiming
  BY DEF After, PCs, Claiming
<1> QED  BY <1>1, <1>2 DEF Outcome

\* A worker that goes on or fails leaves the front end alone.
LEMMA EnterShape ==
    ASSUME NEW w, NEW s
    PROVE  /\ Enter(w, s) => pc' = [pc EXCEPT ![w] = s] /\ FrontKept
           /\ \A e : Fail(w, e) => /\ pc' = [pc EXCEPT ![w] = "fail"]
                                   /\ UNCHANGED claim /\ FrontKept
           /\ \A e : Recheck(w, e) => /\ pc' = [pc EXCEPT ![w] = "recheck"]
                                      /\ UNCHANGED claim /\ FrontKept
BY DEF Enter, Fail, Recheck, FrontKept, front

\* An expired job is offered again, and no job appears or goes.
LEMMA RequeuedDomain == DOMAIN Requeued = DOMAIN jobs
BY DEF Requeued

\* run_one where it finds no work, verifies, renders, or fails.
LEMMA ResultlessIsQuiet ==
    ASSUME IInv, NEW w \in Workers,
           \/ Verify(w) \/ Render(w) \/ Reverify(w) \/ FinishFailed(w)
           \/ Claim(w) /\ Batch(Requeued) = {}
    PROVE  Quiet
<1> USE DEF PCs, Claiming
<1>1. CASE Verify(w)
  <2>1. UNCHANGED <<revs, published, history, states, lease, jobs, claim>> /\ pc[w] = "verify"
    BY <1>1, EnterShape DEF Verify, control, public
  <2>2. IsCurrent(w) => claim[w].target \in Range(history)
    BY <2>1 DEF IsCurrent, Current, IInv, Types, ClaimsAreSound, Range
  <2>3. PICK s \in {"fail", "mark", "render"} :
            /\ pc' = [pc EXCEPT ![w] = s] /\ FrontKept
            /\ s = "mark" => IsCurrent(w)
    BY <1>1, EnterShape DEF Verify
  <2> QED  BY <2>1, <2>2, <2>3, WorkerQuiet
<1>2. CASE Render(w)
  <2>1. UNCHANGED <<revs, published, history, states, lease, jobs, claim>> /\ pc[w] = "render"
    BY <1>2, EnterShape DEF Render, control, public
  <2>2. PICK s \in {"fail", "install"} : pc' = [pc EXCEPT ![w] = s] /\ FrontKept
    BY <1>2, EnterShape DEF Render
  <2> QED  BY <2>1, <2>2, WorkerQuiet
<1>3. CASE Reverify(w)
  <2>1. UNCHANGED <<revs, published, history, states, lease, jobs, claim>> /\ pc[w] = "recheck"
    BY <1>3, EnterShape DEF Reverify, control, public
  <2>2. IsCurrent(w) => claim[w].target \in Range(history)
    BY <2>1 DEF IsCurrent, Current, IInv, Types, ClaimsAreSound, Range
  <2>3. PICK s \in {"fail", "mark"} :
            /\ pc' = [pc EXCEPT ![w] = s] /\ FrontKept
            /\ s = "mark" => IsCurrent(w)
    BY <1>3, EnterShape DEF Reverify
  <2> QED  BY <2>1, <2>2, <2>3, WorkerQuiet
<1>4. CASE FinishFailed(w)
  <2>1. /\ UNCHANGED <<revs, published, history, states, lease, claim>>
        /\ DOMAIN jobs' = DOMAIN jobs
    BY <1>4 DEF FinishFailed, public
  <2>2. PICK o \in {"blocked", "retrying", "failed"} : Outcome(w, o)
    BY <1>4 DEF FinishFailed
  <2>3. FrontKept /\ \E s \in PCs \ Claiming : pc' = [pc EXCEPT ![w] = s]
    BY <2>2, OutcomeShape
  <2> QED  BY <2>1, <2>3, WorkerQuiet
<1>5. CASE Claim(w) /\ Batch(Requeued) = {}
  <2>1. /\ UNCHANGED <<revs, published, history, states, lease, claim>>
        /\ DOMAIN jobs' = DOMAIN jobs
        /\ Outcome(w, "idle")
    BY <1>5, RequeuedDomain DEF Claim, public
  <2>3. FrontKept /\ \E s \in PCs \ Claiming : pc' = [pc EXCEPT ![w] = s]
    BY <2>1, OutcomeShape
  <2> QED  BY <2>1, <2>3, WorkerQuiet
<1> QED  BY <1>1, <1>2, <1>3, <1>4, <1>5

\* A commit that is refused, a replacement that did not happen, and a publication that
\* is not recorded.
LEMMA RefusedIsQuiet ==
    ASSUME IInv, NEW w \in Workers,
           \/ Install(w) /\ UNCHANGED <<states, lease>>
           \/ ReplaceIndex(w) /\ UNCHANGED history
           \/ MarkPublished(w) /\ UNCHANGED <<published, jobs>>
    PROVE  Quiet
<1> USE DEF PCs, Claiming
<1>1. CASE Install(w) /\ UNCHANGED <<states, lease>>
  <2>1. /\ UNCHANGED <<revs, published, history, jobs, claim>> /\ pc[w] = "install"
    BY <1>1, EnterShape DEF Install, control
  <2>2. pc' = [pc EXCEPT ![w] = "recheck"] /\ FrontKept
    BY <1>1, EnterShape DEF Install, Workers
  <2> QED  BY <1>1, <2>1, <2>2, WorkerQuiet
<1>2. CASE ReplaceIndex(w) /\ UNCHANGED history
  <2>1. /\ UNCHANGED <<revs, published, states, jobs, claim>> /\ pc[w] = "index"
        /\ lease = w
    BY <1>2, EnterShape DEF ReplaceIndex, control
  <2>2. pc' = [pc EXCEPT ![w] = "recheck"] /\ FrontKept
    BY <1>2, EnterShape DEF ReplaceIndex
  <2> QED  BY <1>2, <2>1, <2>2, WorkerQuiet
<1>3. CASE MarkPublished(w) /\ UNCHANGED <<published, jobs>>
  <2>1. UNCHANGED <<revs, history, states, lease, claim>>
    BY <1>3 DEF MarkPublished, public
  <2>2. PICK o \in {"published", "failed"} : Outcome(w, o)
    BY <1>3 DEF MarkPublished
  <2>3. FrontKept /\ \E s \in PCs \ Claiming : pc' = [pc EXCEPT ![w] = s]
    BY <2>2, OutcomeShape
  <2> QED  BY <1>3, <2>1, <2>3, WorkerQuiet
<1> QED  BY <1>1, <1>2, <1>3

\* The front end, the loop's sleep, the session, the reader and time.
LEMMA SurroundingsAreQuiet ==
    ASSUME IInv,
           \/ \E c \in Commands, b \in Barriers : Submit(c, b)
           \/ \E c \in Commands : Resubmit(c)
           \/ FindCommand \/ Refuse \/ Flush \/ (Commit /\ UNCHANGED control)
           \/ Notified \/ WaitEnds \/ LoopExits \/ TimePasses
           \/ Close \/ Closed \/ Crash \/ Open \/ PinHeads \/ ReadIndex \/ UNCHANGED vars
    PROVE  Quiet
<1> USE DEF IInv, Types, Quiet
<1>0. Commands \subseteq 0..MaxCommands /\ 0 \in 0..MaxCommands /\ Latest \in Nat
  BY PublicationAssumption DEF Commands, Latest
<1>1. ASSUME NEW c \in Commands, NEW b \in Barriers, Submit(c, b)
      PROVE  Quiet
  BY <1>0, <1>1 DEF Submit, control, public, workers
<1>2. ASSUME NEW c \in Commands, Resubmit(c)
      PROVE  Quiet
  BY <1>0, <1>2 DEF Resubmit, control, public, workers
<1>3. CASE FindCommand \/ Refuse
  BY <1>0, <1>3 DEF FindCommand, Refuse, Answer, control, public, workers
<1>4. CASE Commit /\ UNCHANGED control
  BY <1>0, <1>4 DEF Commit, Answer, control, public, workers
<1>5. CASE Flush
  BY <1>0, <1>5 DEF Flush, control, public, front, Workers, PCs, Claiming
<1>6. CASE Notified \/ WaitEnds \/ LoopExits
  BY <1>0, <1>6 DEF Notified, WaitEnds, LoopExits, Loop, control, public, front, Workers,
                    PCs, Claiming
<1>7. CASE TimePasses
  <2>1. PICK n \in DOMAIN jobs : Elapse(jobs[n].status, jobs[n].epoch)
    BY <1>7 DEF TimePasses
  <2>2. UNCHANGED <<revs, published, public, workers, front>> /\ DOMAIN jobs' = DOMAIN jobs
    BY <2>1 DEF Elapse
  <2> QED  BY <1>0, <2>2 DEF public, workers, front
<1>8. CASE Close \/ Closed \/ PinHeads \/ ReadIndex \/ UNCHANGED vars
  BY <1>0, <1>8 DEF Close, Closed, PinHeads, ReadIndex, vars, control, public, workers, front
<1>9. CASE Crash
  BY <1>0, <1>9 DEF Crash, control, public, Workers, PCs, Claiming, NoClaim
<1>10. CASE Open
  <2>1. /\ UNCHANGED <<revs, published, public, claim, front>> /\ DOMAIN jobs' = DOMAIN jobs
        /\ pc' = [pc EXCEPT !["loop"] = "idle"]
    BY <1>10, RequeuedDomain DEF Open, Loop
  <2> QED  BY <1>0, <2>1 DEF public, front, Workers, PCs, Claiming
<1> QED  BY <1>1, <1>2, <1>3, <1>4, <1>5, <1>6, <1>7, <1>8, <1>9, <1>10

-----------------------------------------------------------------------------
(* The five steps that matter. *)

\* A non-empty set of numbers up to a bound has a greatest one.
LEMMA GreatestNumber ==
    ASSUME NEW n \in Nat, NEW T \in SUBSET (0..n), T # {}
    PROVE  Max(T) \in T /\ \A y \in T : Max(T) >= y
<1> DEFINE gaps == {n - x : x \in T}
<1>1. gaps \subseteq Nat /\ gaps # {}
  <2>1. \A x \in T : n - x \in Nat
    OBVIOUS
  <2>2. PICK x \in T : TRUE
    OBVIOUS
  <2> QED  BY <2>1, <2>2
<1>2. PICK g \in gaps : \A h \in gaps : ~(<<h, g>> \in OpToRel(<, Nat))
  BY <1>1, WFMin, NatLessThanWellFounded
<1>3. PICK x \in T : g = n - x
  OBVIOUS
<1>4. \A y \in T : x >= y
  <2> SUFFICES ASSUME NEW y \in T PROVE x >= y
    OBVIOUS
  <2>1. ~(n - y < g)
    BY <1>1, <1>2 DEF OpToRel
  <2> QED  BY <1>3, <2>1
<1> QED  BY <1>3, <1>4 DEF Max

\* A saved command gets the next revision and its job; an archive is only saved on top of
\* the public state.
LEMMA SavedKeeps == IInv /\ Commit /\ ~UNCHANGED control => IInv'
<1> SUFFICES ASSUME IInv, Commit, ~UNCHANGED control PROVE IInv'
  OBVIOUS
<1> USE DEF IInv
<1> DEFINE new == Latest + 1
           row == [cmd |-> fg, barrier |-> sent[fg].barrier]
<1>1. /\ UNCHANGED <<published, history, states, lease, pc, claim>> /\ fg \in Commands
      /\ revs' = Append(revs, row) /\ DOMAIN jobs' = DOMAIN jobs \cup {new}
      /\ fg' = 0 /\ UNCHANGED sent
      /\ BasisIsPublic /\ sent[fg].expected = Latest
  BY DEF Commit, Gated, Insert, Answer, control, public, workers, Types, Commands
<1>2. /\ Latest \in Nat /\ Latest' = new /\ row \in [cmd : 0..MaxCommands, barrier : Barriers]
      /\ \A n \in 1..Latest : revs'[n] = revs[n]
      /\ revs'[new] = row /\ DOMAIN revs = 1..Latest /\ DOMAIN revs' = 1..new
      /\ revs' \in Seq([cmd : 0..MaxCommands, barrier : Barriers])
  BY <1>1 DEF Latest, Types
<1>3. Current' = Current /\ Range(history)' = Range(history)
  BY <1>1 DEF Current
<1>4. Types'
  <2>1. JobsCoverTheGap'
    BY <1>1, <1>2 DEF Types, JobsCoverTheGap
  <2>2. history' \in Seq(1..new)
    BY <1>1, <1>2 DEF Types
  <2>3. published' \in Nat /\ published' <= Latest' /\ DOMAIN states' \subseteq 1..Latest'
    BY <1>1, <1>2 DEF Types
  <2>4. fg' \in 0..MaxCommands
    BY <1>1, PublicationAssumption
  <2>5. history' \in Seq(1..Latest')
    BY <1>2, <2>2
  <2> QED  BY <1>1, <1>2, <2>1, <2>3, <2>4, <2>5 DEF Types
<1>5. ClaimsAreSound'
  BY <1>1, <1>2 DEF ClaimsAreSound, Types
<1>6. WriterIsAlone' /\ MarksArePublic' /\ Chain'
  BY <1>1, <1>3 DEF WriterIsAlone, MarksArePublic, Chain
<1>7. ArchiveBasisIsPublic'
  <2> SUFFICES ASSUME NEW n \in 1..new, revs'[n].barrier # "none"
               PROVE  /\ n - 1 \in Range(history)
                      /\ n <= published => n \in Range(history)
                      /\ \A i \in DOMAIN history :
                            history[i] = n => i > 1 /\ history[i - 1] = n - 1
    BY <1>1, <1>2 DEF ArchiveBasisIsPublic, Range
  <2>1. CASE n \in 1..Latest
    BY <1>2, <2>1 DEF ArchiveBasisIsPublic
  <2>2. CASE n = new
    <3>1. Current = Latest /\ Latest > 0
      BY <1>1, <1>2, <2>2 DEF BasisIsPublic, Types
    <3>2. Latest \in Range(history)
      BY <3>1 DEF Current, Range, Types
    <3>3. \A i \in DOMAIN history : history[i] \in 1..Latest
      BY HistoryShape
    <3>4. Latest \in Nat /\ published \in Nat /\ published <= Latest
      BY <1>2 DEF Types
    <3> HIDE DEF IInv
    <3> QED  BY <2>2, <3>2, <3>3, <3>4
  <2> QED  BY <1>2, <2>1, <2>2
<1> QED  BY <1>4, <1>5, <1>6, <1>7

\* A claim takes the first unpublished revisions, and a barrier only by itself.
LEMMA ClaimKeeps ==
    ASSUME IInv, NEW w \in Workers, Claim(w), Batch(Requeued) # {}
    PROVE  IInv'
<1> USE DEF IInv
<1> DEFINE batch == Batch(Requeued)
           target == Max(batch)
<1>1. /\ UNCHANGED <<revs, published, history, states, lease, fg, sent>>
      /\ DOMAIN jobs' = DOMAIN jobs
      /\ DOMAIN claim' = Workers
      /\ \A v \in Workers : IF v = w THEN claim'[v].target = target /\ claim'[v].parent = published
                            ELSE claim'[v] = claim[v]
      /\ pc' = [pc EXCEPT ![w] = "verify"]
  BY RequeuedDomain DEF Claim, Enter, public, front, Types
<1>2. Latest \in Nat /\ batch \subseteq (published + 1)..Latest
  BY RequeuedDomain DEF Batch, Types, JobsCoverTheGap, Latest
<1>3. target \in batch
  <2>1. batch \in SUBSET (0..Latest) /\ batch # {}
    BY <1>2 DEF Types
  <2> HIDE DEF batch
  <2> QED  BY <1>2, <2>1, GreatestNumber
<1>4. \A n \in (published + 1)..target : revs[n].barrier # "none" => n = target /\ n = published + 1
  <2>1. target \in Nat /\ published \in Nat /\ published + 1 <= target
    BY <1>2, <1>3 DEF Types
  <2>2. \A m \in (published + 1)..target : target > published + 1 => revs[m].barrier = "none"
    BY <1>3 DEF Batch
  <2> HIDE DEF target
  <2> QED  BY <2>1, <2>2
<1>5. Latest' = Latest /\ Current' = Current /\ Range(history)' = Range(history)
  BY <1>1 DEF Latest, Current
<1> HIDE DEF target, batch
<1>6. Types'
  <2>1. JobsCoverTheGap'
    BY <1>1, <1>5 DEF Types, JobsCoverTheGap
  <2>2. pc' \in [Workers -> PCs]
    BY <1>1 DEF Types, PCs
  <2>3. target \in Nat /\ published \in Nat
    BY <1>2, <1>3 DEF Types
  <2>4. \A v \in Workers : claim'[v].target \in Nat /\ claim'[v].parent \in Nat
    BY <1>1, <2>3 DEF Types
  <2> QED  BY <1>1, <1>5, <2>1, <2>2, <2>4 DEF Types
<1>7. ClaimsAreSound'
  BY <1>1, <1>2, <1>3, <1>4, <1>5 DEF ClaimsAreSound, Types
<1>8. WriterIsAlone' /\ MarksArePublic'
  BY <1>1, <1>5 DEF WriterIsAlone, MarksArePublic, Types
<1>9. Chain' /\ ArchiveBasisIsPublic'
  BY <1>1, <1>5 DEF Chain, ArchiveBasisIsPublic
<1> QED  BY <1>6, <1>7, <1>8, <1>9

\* The create-once records are written under the lease, on top of the current state.
LEMMA InstallKeeps ==
    ASSUME IInv, NEW w \in Workers, Install(w), ~UNCHANGED <<states, lease>>
    PROVE  IInv'
<1> USE DEF IInv
<1> DEFINE target == claim[w].target
           parent == claim[w].parent
<1>1. /\ UNCHANGED <<revs, published, jobs, history, claim, fg, sent>>
      /\ lease = "free" /\ lease' = w /\ target \notin Range(history) /\ Current = parent
      /\ states' = [n \in DOMAIN states \cup {target} |-> IF n = target THEN parent ELSE states[n]]
      /\ pc[w] = "install" /\ pc' = [pc EXCEPT ![w] = "index"]
  BY DEF Install, Enter, ExpectedIsCurrent, control, front
<1>2. target \in Nat /\ parent \in Nat /\ parent < target /\ target <= Latest
  BY <1>1 DEF ClaimsAreSound, Claiming, Types
<1>3. Latest' = Latest /\ Current' = Current /\ Range(history)' = Range(history)
  BY <1>1 DEF Latest, Current
<1>4. /\ DOMAIN states' = DOMAIN states \cup {target} /\ states'[target] = parent
      /\ \A n \in DOMAIN states \ {target} : states'[n] = states[n]
  BY <1>1
<1>5. \A v \in Workers : pc'[v] = IF v = w THEN "index" ELSE pc[v]
  BY <1>1 DEF Types
<1> HIDE DEF target, parent
<1>6. Types'
  <2>1. DOMAIN states' \subseteq 1..Latest
    BY <1>2, <1>4, HistoryShape DEF Types
  <2>2. pc' \in [Workers -> PCs]
    BY <1>1 DEF Types, PCs
  <2> QED  BY <1>1, <1>3, <2>1, <2>2 DEF Types, JobsCoverTheGap
<1>7. ClaimsAreSound'
  BY <1>1, <1>3, <1>5 DEF ClaimsAreSound, Claiming
<1>8. WriterIsAlone'
  <2> SUFFICES ASSUME NEW v \in Workers, pc'[v] = "index"
               PROVE  /\ v = w
                      /\ target \in DOMAIN states' /\ states'[target] = parent
                      /\ Current = parent /\ target \notin Range(history)
    BY <1>1, <1>3 DEF WriterIsAlone, target, parent
  <2>1. v = w
    BY <1>1, <1>5 DEF WriterIsAlone, Workers
  <2> QED  BY <1>1, <1>4, <2>1
<1>9. MarksArePublic'
  BY <1>1, <1>3, <1>5 DEF MarksArePublic
<1>10. Chain'
  <2>1. \A i \in DOMAIN history : history[i] # target
    BY <1>1 DEF Range
  <2> QED  BY <1>1, <1>3, <1>4, <2>1 DEF Chain
<1>11. ArchiveBasisIsPublic'
  BY <1>1, <1>3 DEF ArchiveBasisIsPublic
<1> QED  BY <1>6, <1>7, <1>8, <1>9, <1>10, <1>11

\* The index is replaced by a state made on top of the one it named.
LEMMA ReplaceKeeps ==
    ASSUME IInv, NEW w \in Workers, ReplaceIndex(w), ~UNCHANGED history
    PROVE  IInv'
<1> USE DEF IInv
<1> DEFINE target == claim[w].target
           parent == claim[w].parent
           len == Len(history)
<1>1. /\ UNCHANGED <<revs, published, jobs, states, claim, fg, sent>>
      /\ pc[w] = "index" /\ lease = w /\ history' = Append(history, target)
      /\ pc' = [pc EXCEPT ![w] = "recheck"]
  BY DEF ReplaceIndex, Recheck, Enter, control, front
<1>2. /\ target \in Nat /\ parent \in Nat /\ parent < target /\ target <= Latest
      /\ parent <= published
      /\ \A n \in (parent + 1)..target :
            revs[n].barrier # "none" => n = target /\ n = parent + 1
  BY <1>1 DEF ClaimsAreSound, Claiming, Types
<1>3. /\ target \in DOMAIN states /\ states[target] = parent /\ Current = parent
      /\ target \notin Range(history)
  BY <1>1 DEF WriterIsAlone
<1>4. /\ Latest' = Latest /\ Latest \in Nat /\ len \in Nat /\ published \in Nat
      /\ DOMAIN history = 1..len
      /\ \A i \in 1..len : history[i] \in Nat /\ history[i] > 0 /\ history[i] <= Latest
  BY <1>1, HistoryShape DEF Latest, Types
<1>5. \A v \in Workers : pc'[v] = IF v = w THEN "recheck" ELSE pc[v]
  BY <1>1 DEF Types
<1>6. /\ history' \in Seq(1..Latest) /\ DOMAIN history' = 1..(len + 1) /\ Len(history') = len + 1
      /\ \A i \in 1..len : history'[i] = history[i]
      /\ history'[len + 1] = target
  <2>1. target \in 1..Latest /\ history \in Seq(1..Latest)
    BY <1>2, <1>4 DEF Types
  <2> HIDE DEF target
  <2> QED  BY <1>1, <2>1, AppendProperties, LenProperties
<1>7. /\ len = 0 => parent = 0
      /\ len > 0 => history[len] = parent
  BY <1>3, <1>4 DEF Current, Types
<1>8. Range(history) \subseteq Range(history')
  BY <1>4, <1>6 DEF Range
<1> HIDE DEF target, parent, len
<1>9. Types'
  <2>1. pc' \in [Workers -> PCs]
    BY <1>1 DEF Types, PCs
  <2> QED  BY <1>1, <1>4, <1>6, <2>1 DEF Types, JobsCoverTheGap
<1>10. ClaimsAreSound'
  BY <1>1, <1>4, <1>5 DEF ClaimsAreSound, Claiming
<1>11. WriterIsAlone'
  BY <1>1, <1>5 DEF WriterIsAlone
<1>12. MarksArePublic'
  BY <1>1, <1>5, <1>8 DEF MarksArePublic
<1>13. Chain'
  <2>1. ASSUME NEW i \in 1..(len + 1)
        PROVE  /\ history'[i] \in DOMAIN states
               /\ states[history'[i]] = (IF i = 1 THEN 0 ELSE history'[i - 1])
               /\ i > 1 => history'[i - 1] < history'[i]
               /\ i < len + 1 => history'[i] <= published
    <3>1. CASE i \in 1..len
      <4>1. history'[i] = history[i] /\ (i > 1 => history'[i - 1] = history[i - 1])
        BY <1>4, <1>6, <3>1
      <4>2. i < len => history[i] <= published
        BY <1>4, <3>1 DEF Chain, len
      <4>3. i = len => history[i] <= published
        BY <1>2, <1>4, <1>7, <3>1
      <4> QED  BY <1>4, <3>1, <4>1, <4>2, <4>3 DEF Chain
    <3>2. CASE i = len + 1
      BY <1>2, <1>3, <1>4, <1>6, <1>7, <3>2
    <3> QED  BY <1>4, <3>1, <3>2
  <2>2. published # 0 => published \in Range(history')
    BY <1>8 DEF Chain
  <2> QED  BY <1>1, <1>6, <2>1, <2>2 DEF Chain
<1>14. ArchiveBasisIsPublic'
  <2> SUFFICES ASSUME NEW n \in DOMAIN revs, revs[n].barrier # "none"
               PROVE  /\ n - 1 \in Range(history')
                      /\ n <= published => n \in Range(history')
                      /\ \A i \in 1..(len + 1) :
                            history'[i] = n => i > 1 /\ history'[i - 1] = n - 1
    BY <1>1, <1>6 DEF ArchiveBasisIsPublic
  <2>1. n - 1 \in Range(history) /\ (n <= published => n \in Range(history))
    BY DEF ArchiveBasisIsPublic
  <2>2. ASSUME NEW i \in 1..len, history'[i] = n
        PROVE  i > 1 /\ history'[i - 1] = n - 1
    <3>1. history[i] = n /\ i \in DOMAIN history
      BY <1>4, <1>6, <2>2
    <3>2. i > 1 /\ history[i - 1] = n - 1
      BY <3>1 DEF ArchiveBasisIsPublic
    <3> QED  BY <1>4, <1>6, <3>2
  <2>3. ASSUME target = n
        PROVE  len > 0 /\ history[len] = n - 1
    <3>1. n = parent + 1
      BY <1>2, <2>3
    <3>2. len > 0
      BY <1>4, <2>1 DEF Range
    <3> QED  BY <1>2, <1>7, <3>1, <3>2
  <2> QED  BY <1>4, <1>6, <1>8, <2>1, <2>2, <2>3
<1> QED  BY <1>9, <1>10, <1>11, <1>12, <1>13, <1>14

\* What is recorded as published is public, and only its own jobs go.
LEMMA MarkKeeps ==
    ASSUME IInv, NEW w \in Workers, MarkPublished(w), ~UNCHANGED <<published, jobs>>
    PROVE  IInv'
<1> USE DEF IInv
<1> DEFINE target == claim[w].target
           parent == claim[w].parent
<1>1. /\ UNCHANGED <<revs, history, states, lease, claim>> /\ pc[w] = "mark"
      /\ target > published /\ published' = target
      /\ jobs' = [n \in Remaining(w) |-> jobs[n]]
      /\ Outcome(w, "published")
  BY DEF MarkPublished, HoldsClaim, public
<1>2. FrontKept /\ \E s \in PCs \ Claiming : pc' = [pc EXCEPT ![w] = s]
  BY <1>1, OutcomeShape
<1>3. /\ target \in Nat /\ parent \in Nat /\ parent < target /\ target <= Latest
      /\ parent <= published /\ published \in Nat /\ Latest \in Nat
      /\ \A n \in (parent + 1)..target :
            revs[n].barrier # "none" => n = target /\ n = parent + 1
  BY <1>1, HistoryShape DEF ClaimsAreSound, Claiming, Types
<1>4. target \in Range(history)
  BY <1>1 DEF MarksArePublic
<1>5. Latest' = Latest /\ Current' = Current /\ Range(history)' = Range(history)
  BY <1>1 DEF Latest, Current
<1>6. DOMAIN jobs' = (target + 1)..Latest
  <2>1. DOMAIN jobs' = {n \in (published + 1)..Latest : n > target}
    BY <1>1 DEF Remaining, Types, JobsCoverTheGap
  <2>2. \A n : n \in (published + 1)..Latest /\ n > target <=> n \in (target + 1)..Latest
    BY <1>1, <1>3
  <2> QED  BY <2>1, <2>2, Zenon
<1>7. /\ pc' \in [Workers -> PCs]
      /\ \A v \in Workers : IF v = w THEN pc'[v] \notin Claiming ELSE pc'[v] = pc[v]
  BY <1>2 DEF Types
<1> HIDE DEF target, parent
<1>8. Types'
  <2>1. fg' \in 0..MaxCommands /\ sent' = sent
    BY <1>2, PublicationAssumption DEF FrontKept, Types
  <2> QED  BY <1>1, <1>3, <1>5, <1>6, <1>7, <2>1 DEF Types, JobsCoverTheGap
<1>9. ClaimsAreSound'
  <2> SUFFICES ASSUME NEW v \in Workers, pc'[v] \in Claiming
               PROVE  /\ claim[v].parent < claim[v].target /\ claim[v].target <= Latest
                      /\ claim[v].parent <= target
                      /\ \A n \in (claim[v].parent + 1)..claim[v].target :
                            revs[n].barrier # "none" =>
                                n = claim[v].target /\ n = claim[v].parent + 1
    BY <1>1, <1>5 DEF ClaimsAreSound
  <2> QED  BY <1>1, <1>3, <1>7 DEF ClaimsAreSound, Types
<1>10. WriterIsAlone' /\ MarksArePublic'
  BY <1>1, <1>5, <1>7 DEF WriterIsAlone, MarksArePublic, Claiming
<1>11. Chain'
  <2>1. \A i \in DOMAIN history : i < Len(history) => history[i] <= target
    BY <1>1, <1>3, HistoryShape DEF Chain
  <2> QED  BY <1>1, <1>4, <1>5, <2>1 DEF Chain
<1>12. ArchiveBasisIsPublic'
  <2> SUFFICES ASSUME NEW n \in DOMAIN revs, revs[n].barrier # "none", n <= target
               PROVE  n \in Range(history)
    BY <1>1, <1>5 DEF ArchiveBasisIsPublic
  <2>1. n \in Nat
    BY DEF Types
  <2>2. CASE n <= published
    BY <2>2 DEF ArchiveBasisIsPublic
  <2>3. CASE n > published
    BY <1>3, <1>4, <2>1, <2>3
  <2> QED  BY <1>3, <2>1, <2>2, <2>3
<1> QED  BY <1>8, <1>9, <1>10, <1>11, <1>12

-----------------------------------------------------------------------------
(* Theorems *)

\* An empty store satisfies the invariant.
LEMMA InitIInv == Init => IInv
<1> SUFFICES ASSUME Init PROVE IInv
  OBVIOUS
<1> USE DEF Init
<1>1. Latest = 0 /\ Len(history) = 0 /\ DOMAIN history = {} /\ DOMAIN revs = {}
  BY DEF Latest
<1>2. Types
  <2>1. JobsCoverTheGap
    BY <1>1 DEF JobsCoverTheGap
  <2>2. pc \in [Workers -> PCs]
    BY DEF PCs
  <2>3. fg \in 0..MaxCommands
    BY PublicationAssumption
  <2>4. DOMAIN states \subseteq 1..Latest
    OBVIOUS
  <2> QED  BY <1>1, <2>1, <2>2, <2>3, <2>4 DEF Types, NoClaim, Barriers
<1>3. \A w \in Workers : pc[w] \notin Claiming
  BY DEF Claiming
<1> QED  BY <1>1, <1>2, <1>3 DEF IInv, ClaimsAreSound, WriterIsAlone, MarksArePublic, Chain,
                            ArchiveBasisIsPublic, Claiming

\* Every step is one of the five that matter, or saves, installs and publishes nothing.
LEMMA StepCases ==
    ASSUME IInv, [Next]_vars
    PROVE  \/ Quiet
           \/ Commit /\ ~UNCHANGED control
           \/ \E w \in Workers :
                \/ Claim(w) /\ Batch(Requeued) # {}
                \/ Install(w) /\ ~UNCHANGED <<states, lease>>
                \/ ReplaceIndex(w) /\ ~UNCHANGED history
                \/ MarkPublished(w) /\ ~UNCHANGED <<published, jobs>>
<1>1. ASSUME NEW w \in Workers, Run(w)
      PROVE  \/ Quiet
             \/ Claim(w) /\ Batch(Requeued) # {}
             \/ Install(w) /\ ~UNCHANGED <<states, lease>>
             \/ ReplaceIndex(w) /\ ~UNCHANGED history
             \/ MarkPublished(w) /\ ~UNCHANGED <<published, jobs>>
  <2>1. CASE Verify(w) \/ Render(w) \/ Reverify(w) \/ FinishFailed(w)
    BY <2>1, ResultlessIsQuiet
  <2>2. CASE Claim(w)
    BY <2>2, ResultlessIsQuiet
  <2>3. CASE Install(w) \/ ReplaceIndex(w) \/ MarkPublished(w)
    BY <2>3, RefusedIsQuiet
  <2> QED  BY <1>1, <2>1, <2>2, <2>3 DEF Run
<1>2. CASE User \/ Apply
  BY <1>2, SurroundingsAreQuiet DEF User, Apply
<1>3. CASE \/ Notified \/ WaitEnds \/ LoopExits \/ TimePasses
           \/ Close \/ Closed \/ Crash \/ Open \/ PinHeads \/ ReadIndex \/ UNCHANGED vars
  BY <1>3, SurroundingsAreQuiet
<1> QED  BY <1>1, <1>2, <1>3 DEF Next

\* Every step keeps the invariant.
LEMMA StepIInv == IInv /\ [Next]_vars => IInv'
BY StepCases, QuietKeeps, SavedKeeps, ClaimKeeps, InstallKeeps, ReplaceKeeps, MarkKeeps

\* The invariant holds throughout: commands and claims, installed records, the index and
\* the recorded head agree, whatever crashes and whichever worker comes late.
THEOREM PublicationInvariant == Spec => []IInv
BY InitIInv, StepIInv, PTL DEF Spec

\* The public history is one chain of states, each made on top of the one before, and at
\* most its last state is not recorded as published yet.
THEOREM HistoryAlwaysAChain == Spec => []HistoryIsAChain
<1>1. IInv => HistoryIsAChain
  <2> SUFFICES ASSUME IInv PROVE HistoryIsAChain
    OBVIOUS
  <2> DEFINE ahead == {n \in Range(history) : n > published}
  <2>1. ahead \subseteq {Current}
    <3> SUFFICES ASSUME NEW n \in Range(history), n > published PROVE n = Current
      OBVIOUS
    <3>1. PICK i \in 1..Len(history) : n = history[i]
      BY HistoryShape DEF IInv
    <3>2. ~(i < Len(history))
      BY <3>1, HistoryShape DEF IInv, Chain, Types
    <3> QED  BY <3>1, <3>2, HistoryShape DEF IInv, Current
  <2>2. IsFiniteSet({Current}) /\ Cardinality({Current}) = 1
    BY FS_Singleton
  <2>3. IsFiniteSet(ahead) /\ Cardinality(ahead) <= Cardinality({Current})
    BY <2>1, <2>2, FS_Subset
  <2> QED  BY <2>2, <2>3 DEF IInv, Chain, HistoryIsAChain
<1> QED  BY <1>1, PublicationInvariant, PTL

\* Exactly the saved revisions that are not published have a materialization job.
THEOREM JobsAlwaysCoverTheGap == Spec => []JobsCoverTheGap
<1>1. IInv => JobsCoverTheGap
  BY DEF IInv, Types
<1> QED  BY <1>1, PublicationInvariant, PTL

\* An archive is made on a public state and becomes a public state of its own.
THEOREM ArchiveBasisAlwaysPublic == Spec => []ArchiveBasisIsPublic
<1>1. IInv => ArchiveBasisIsPublic
  BY DEF IInv
<1> QED  BY <1>1, PublicationInvariant, PTL

ReaderType == [step : {"idle", "pinned"}, authoring : Nat, published : Nat,
               answer : {"none", "current", "pending", "integrity"}, got : Nat]

\* An agent is given the newest review saved when its read began: the head it pinned
\* first is the state it finds in the index, or it gets no answer.
THEOREM AgentAlwaysSeesTheLatest == Spec => []AgentSeesTheLatest
<1> DEFINE RInv == reader \in ReaderType /\ AgentSeesTheLatest
<1>1. Init => RInv
  BY DEF Init, NoRead, ReaderType, AgentSeesTheLatest
<1>2. IInv /\ RInv /\ [Next]_vars => RInv'
  <2> SUFFICES ASSUME IInv, RInv, [Next]_vars PROVE RInv'
    OBVIOUS
  <2>1. published \in Nat /\ Latest \in Nat /\ Current \in Nat
    BY HistoryShape DEF IInv, Types, Current
  <2>2. CASE PinHeads
    <3>1. reader' = [step |-> "pinned", authoring |-> Latest, published |-> published,
                     answer |-> "none", got |-> 0]
      BY <2>2 DEF PinHeads, NoRead
    <3> QED  BY <2>1, <3>1 DEF ReaderType, AgentSeesTheLatest
  <2>3. CASE ReadIndex
    <3>1. CASE Gate(reader) = "pending"
      BY <2>3, <3>1 DEF ReadIndex, NoRead, ReaderType, AgentSeesTheLatest
    <3>2. CASE Gate(reader) # "pending"
      <4>1. /\ reader' = [reader EXCEPT !.step = "idle", !.answer = Gate(reader), !.got = Current]
            /\ Gate(reader) \in {"current", "integrity"}
        BY <2>3, <3>2 DEF ReadIndex, Gate
      <4>2. Gate(reader) = "current" => Current >= reader.authoring
        BY <2>1 DEF Gate, ReaderType
      <4> QED  BY <2>1, <4>1, <4>2 DEF ReaderType, AgentSeesTheLatest
    <3> QED  BY <3>1, <3>2
  <2>4. ASSUME NEW w \in Workers, Run(w) PROVE UNCHANGED reader
    BY <2>4 DEF Run, Claim, Verify, Render, Install, ReplaceIndex, Reverify, MarkPublished,
                FinishFailed
  <2>5. CASE User \/ Apply
    BY <2>5 DEF User, Apply, Submit, Resubmit, FindCommand, Refuse, Commit, Flush, RInv,
                AgentSeesTheLatest
  <2>6. CASE \/ Notified \/ WaitEnds \/ LoopExits \/ TimePasses
             \/ Close \/ Closed \/ Crash \/ Open \/ UNCHANGED vars
    BY <2>6 DEF Notified, WaitEnds, LoopExits, TimePasses, Elapse, Close, Closed, Crash, Open,
                vars, AgentSeesTheLatest
  <2> QED  BY <2>2, <2>3, <2>4, <2>5, <2>6 DEF Next, AgentSeesTheLatest
<1> QED  BY <1>1, <1>2, PublicationInvariant, PTL DEF Spec

\* What has been said cannot be unsaid: saved revisions and public states stay where they
\* are, and the recorded head never goes back.
NothingIsTakenBack ==
    /\ published <= published'
    /\ \A n \in 1..Latest : n <= Latest' /\ revs'[n] = revs[n]
    /\ \A i \in 1..Len(history) : i <= Len(history') /\ history'[i] = history[i]

\* No crash, retry or stale worker takes back a saved revision or a public state.
THEOREM NothingIsEverTakenBack == Spec => [][NothingIsTakenBack]_vars
<1>1. IInv /\ [Next]_vars => NothingIsTakenBack
  <2> SUFFICES ASSUME IInv, [Next]_vars PROVE NothingIsTakenBack
    OBVIOUS
  <2>1. published \in Nat /\ Latest \in Nat /\ Len(history) \in Nat /\ Len(revs) = Latest
    BY HistoryShape DEF IInv, Types, Latest
  <2>2. CASE UNCHANGED <<revs, published, history>>
    BY <2>1, <2>2 DEF NothingIsTakenBack, Latest
  <2>3. CASE Commit /\ ~UNCHANGED control
    <3>1. PICK row : revs' = Append(revs, row) /\ UNCHANGED <<published, history>>
      BY <2>3 DEF Commit, Insert, control, public
    <3>2. Latest' = Latest + 1 /\ \A n \in 1..Latest : revs'[n] = revs[n]
      BY <2>1, <3>1 DEF IInv, Types, Latest
    <3> QED  BY <2>1, <3>1, <3>2 DEF NothingIsTakenBack
  <2>4. ASSUME NEW w \in Workers, ReplaceIndex(w), ~UNCHANGED history
        PROVE  NothingIsTakenBack
    <3>1. history' = Append(history, claim[w].target) /\ UNCHANGED <<revs, published>>
      BY <2>4 DEF ReplaceIndex, control
    <3>2. Len(history') = Len(history) + 1 /\ \A i \in 1..Len(history) : history'[i] = history[i]
      BY <2>1, <3>1 DEF IInv, Types
    <3> QED  BY <2>1, <3>1, <3>2 DEF NothingIsTakenBack, Latest
  <2>5. ASSUME NEW w \in Workers, MarkPublished(w), ~UNCHANGED <<published, jobs>>
        PROVE  NothingIsTakenBack
    <3>1. published < published' /\ UNCHANGED <<revs, history>>
      BY <2>5 DEF MarkPublished, HoldsClaim, public
    <3>2. published' \in Nat
      BY StepIInv DEF IInv, Types
    <3> QED  BY <2>1, <3>1, <3>2 DEF NothingIsTakenBack, Latest
  <2>6. ASSUME NEW w \in Workers, Claim(w) \/ (Install(w) /\ ~UNCHANGED <<states, lease>>)
        PROVE  UNCHANGED <<revs, published, history>>
    BY <2>6 DEF Claim, Install, control, public
  <2>7. Quiet => UNCHANGED <<revs, published, history>>
    BY DEF Quiet
  <2> QED  BY <2>2, <2>3, <2>4, <2>5, <2>6, <2>7, StepCases
<1> QED  BY <1>1, PublicationInvariant, PTL DEF Spec

=============================================================================
