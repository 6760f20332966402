------------------------ MODULE FileCommandRuntime_proofs ------------------------
(***************************************************************************)
(* Theorems about FileCommandRuntime, for any number of batches, files,     *)
(* cancellations, undo requests and failures: who learns that a batch has   *)
(* ended finds it ended, the end is final, a closed project is left alone,  *)
(* a cancellation stops the work, and what a batch reports is true.         *)
(***************************************************************************)
EXTENDS FileCommandRuntime, FiniteSetTheorems, SequenceTheorems, TLAPS

Lives == {"None", "Queued", "Running", "Cancelling", "Completed"}
Progresses == [life : Lives, done : Nat]
\* The worker holds the write lane inside, and is on its way to it in the zone.
Inside == {"register", "publish", "send", "check", "drain", "begin", "run", "group",
           "rename", "report", "summarise", "unregister", "return"}
Zone == Inside \cup {"wantLane"}
Ended == {"store", "clear", "announce", "mark", "done"}
WorkerSteps == Zone \cup Ended \cup {"off", "validate", "join"}
StartSteps == {"new", "gate", "lane", "preflight", "admit", "announce", "started", "rejected"}
CloseSteps == {"idle", "cancel", "request", "wait", "take", "revoke", "read", "lane", "clear",
               "closed"}
Results == {"completed", "failed", "cancelled", "skipped"}
RowStates == Over \cup {"Absent", "Prepared", "Applied"}

\* The shape of the state, variable by variable as the code declares it.
ControlTypes ==
    /\ session \in {"open", "closed"} /\ current \in BOOLEAN
    /\ close \in CloseSteps /\ target \in Batches \cup {NoBatch}
    /\ start \in [Batches -> StartSteps]
    /\ gate \in Batches \cup {NoBatch}
    /\ active \in Batches \cup {NoBatch} /\ order \in Seq(Batches)
    /\ worker \in [Batches -> WorkerSteps]
    /\ then \in [Batches -> {"off", "check", "begin", "return"}]
    /\ \A b \in Batches : worker[b] \in {"publish", "send"} <=> then[b] # "off"
    /\ forwarder \in [Batches -> {"off", "idle", "busy", "done"}]
    /\ undo \in {"idle", "lane", "reverse"} /\ stack \in Seq(Batches)

Records == [life : Lives, done : Nat, result : {"none", "ok", "error"}, complete : BOOLEAN]
Events == [life : Lives, done : Nat, ends : Nat]

DataTypes ==
    /\ record \in [Batches -> Records] /\ shown \in [Batches -> Events]
    /\ shared \in [Batches -> Progresses] /\ sending \in [Batches -> Progresses]
    /\ held \in [Batches -> Progresses]
    /\ channel \in [Batches -> [value : Progresses, fresh : BOOLEAN]]
    /\ life \in [Batches -> Lives]
    /\ results \in [Batches -> Seq(Results)]
    /\ item \in [Batches -> Nat \ {0}]

\* start_gate lets one request through when no batch is active; from its admission until
\* its record is cleared a batch is the active one, and its record is retained.
OneBatchAtATime ==
    \A b \in Batches :
        /\ start[b] \in {"lane", "preflight", "admit"} => gate = b /\ active = NoBatch
        /\ start[b] = "announce" => gate = b
        /\ worker[b] # "off" => start[b] = "started"
        /\ \/ start[b] = "announce"
           \/ worker[b] \in Zone \cup {"validate", "join", "store", "clear"}
           => active = b /\ Retained(b)
        /\ worker[b] \in {"announce", "mark", "done"} => active # b

\* Preflight, the work on the files, an undo and the close exclude one another.
LaneIsExclusive ==
    /\ \A b \in Batches : start[b] = "preflight" \/ worker[b] \in Inside => lane = b
    /\ undo = "reverse" => lane = "undo"
    /\ close = "clear" => lane = "close"

\* The close has revoked the session before it looks for an active batch, so the batch it
\* finds is the last one that can touch files.
CloseWaitsForTheLast ==
    /\ close \in {"idle", "take"} => session = "open"
    /\ close \in {"revoke", "read", "lane", "clear", "closed"} => session = "closed"
    /\ session = "closed" /\ close # "revoke" => ~current
    /\ close \in {"cancel", "request", "wait"} =>
          /\ target \in Batches
          /\ session = "closed" => \A b \in Batches : worker[b] \in Zone => b = target
    /\ close \in {"lane", "clear", "closed"} => \A b \in Batches : worker[b] \notin Zone
    /\ close = "closed" => stack = <<>> /\ undo # "reverse"

\* The end of a batch: the forwarder is joined before the last status is written, and
\* each later step finds what the earlier ones wrote.
EndsInOrder ==
    \A b \in Batches :
        /\ record[b].life = "Completed" <=> worker[b] \in Ended
        /\ worker[b] \in Ended => forwarder[b] = "done"
        /\ forwarder[b] = "busy" => held[b].life # "Completed"
        /\ worker[b] \in {"clear", "announce", "mark", "done"} => record[b].result # "none"
        /\ shown[b].life = "Completed" \/ shown[b].ends > 0 => worker[b] \in {"mark", "done"}
        /\ record[b].complete => worker[b] = "done"

ControlInv == /\ ControlTypes /\ DataTypes /\ OneBatchAtATime /\ LaneIsExclusive
              /\ CloseWaitsForTheLast /\ EndsInOrder

\* Between its registration and the end of its work the batch is the service's active one.
Registered(b) == worker[b] \in Inside \ {"register", "return"} /\ then[b] # "return"

\* The batch has not registered yet.
Early(b) == worker[b] \in {"off", "validate", "wantLane", "register"}

\* A cancellation that was taken is kept as an intent until the batch registers, and is
\* in force from then on.
CancellationIsKept ==
    /\ \A b \in Batches : Registered(b) => svcActive = b
    /\ \A b \in asked : b \in cancelled \/ (b \in intents /\ Early(b)) \/ ~(Early(b) \/ Registered(b))
    /\ asked \subseteq Batches /\ cancelling \subseteq Batches

FileTypes ==
    /\ rows \in [Batches -> [Items -> RowStates]] /\ moved \in [Batches -> SUBSET Items]
    /\ groupRan \in [Batches -> BOOLEAN] /\ DOMAIN request = Batches
    /\ DOMAIN component = Batches

\* The results so far are those of the files before the one the worker is at, a file it
\* has not come to is untouched unless a rename group has taken it, and no rename is
\* reported before its group has run.
FilesOf(b) ==
    /\ Len(results[b]) = (IF worker[b] = "report" THEN item[b] ELSE item[b] - 1)
    /\ item[b] <= N + 1
    /\ \/ worker[b] \in {"begin", "drain", "run", "group", "rename", "report"}
       \/ worker[b] \in {"publish", "send"} /\ then[b] = "begin"
       => item[b] <= N
    /\ worker[b] \in {"group", "rename"} => request[b].kind = "Rename"
    /\ worker[b] = "run" => request[b].kind # "Rename"
    /\ worker[b] = "rename" => ~groupRan[b]
    /\ worker[b] \in {"off", "validate"} => results[b] = <<>>
    /\ start[b] = "new" => request[b].kind # "Rename"
    /\ request[b].kind = "Rename" /\ ~groupRan[b] =>
          \A i \in 1..Len(results[b]) : results[b][i] # "completed"
    /\ request[b].kind # "Rename" =>
          \A i \in Items : i > Len(results[b]) => rows[b][i] # "Completed" /\ i \notin moved[b]

ResultsFollowFiles == FileTypes /\ \A b \in Batches : FilesOf(b)

\* What ResultsAreTrue says of one batch.
TrueOf(b) ==
    \A i \in 1..Len(results[b]) :
        /\ results[b][i] = "completed" => rows[b][i] = "Completed"
        /\ request[b].kind # "Rename" =>
              /\ rows[b][i] = "Completed" => results[b][i] = "completed"
              /\ results[b][i] \in {"skipped", "cancelled"} => i \notin moved[b]

IInv == ControlInv /\ CancellationIsKept /\ ResultsFollowFiles /\ ResultsAreTrue

-----------------------------------------------------------------------------
(* The helpers of the model. *)

\* The record that was added last is retained.
LEMMA RetainKeepsTheLast ==
    ASSUME NEW s \in Seq(Batches), NEW b \in Batches
    PROVE  /\ Retain(Append(s, b)) \in Seq(Batches)
           /\ \E k \in DOMAIN Retain(Append(s, b)) : Retain(Append(s, b))[k] = b
<1> DEFINE t == Append(s, b)
           m == Len(t) - MaxRetained + 1
<1>1. t \in Seq(Batches) /\ Len(t) \in Nat /\ Len(t) > 0 /\ DOMAIN t = 1..Len(t) /\ t[Len(t)] = b
  OBVIOUS
<1>2. MaxRetained \in Nat \ {0}
  BY RuntimeAssumption
<1>3. CASE Len(t) > MaxRetained
  <2>1. Retain(t) = SubSeq(t, m, Len(t))
    BY <1>3 DEF Retain
  <2>2. m \in 1..Len(t)
    BY <1>1, <1>2, <1>3
  <2> HIDE DEF t, m
  <2>3. /\ SubSeq(t, m, Len(t)) \in Seq(Batches) /\ Len(SubSeq(t, m, Len(t))) = Len(t) - m + 1
        /\ \A i \in 1..(Len(t) - m + 1) : SubSeq(t, m, Len(t))[i] = t[m + i - 1]
    BY <1>1, <2>2
  <2>4. Len(t) - m + 1 \in 1..(Len(t) - m + 1) /\ m + (Len(t) - m + 1) - 1 = Len(t)
    BY <1>1, <2>2
  <2>5. DOMAIN SubSeq(t, m, Len(t)) = 1..(Len(t) - m + 1)
    BY <2>3
  <2>6. SubSeq(t, m, Len(t))[Len(t) - m + 1] = b
    BY <1>1, <2>3, <2>4
  <2>7. Retain(t) \in Seq(Batches) /\ \E k \in DOMAIN Retain(t) : Retain(t)[k] = b
    BY <2>1, <2>3, <2>4, <2>5, <2>6
  <2> QED  BY <2>7 DEF t
<1>4. CASE ~(Len(t) > MaxRetained)
  <2>1. Retain(t) = t
    BY <1>4 DEF Retain
  <2> QED  BY <1>1, <2>1
<1> QED  BY <1>3, <1>4

\* What the runtime writes into a record.
LEMMA RecordUpdates ==
    ASSUME record \in [Batches -> Records], NEW b \in Batches
    PROVE  /\ \A l \in Lives : [record EXCEPT ![b].life = l] \in [Batches -> Records]
           /\ \A l \in Lives, d \in Nat :
                 [record EXCEPT ![b].life = l, ![b].done = d] \in [Batches -> Records]
           /\ \A r \in {"none", "ok", "error"} :
                 [record EXCEPT ![b].result = r] \in [Batches -> Records]
           /\ [record EXCEPT ![b].complete = TRUE] \in [Batches -> Records]
<1>1. /\ \A l \in Lives : [record[b] EXCEPT !.life = l] \in Records
      /\ \A l \in Lives, d \in Nat : [record[b] EXCEPT !.life = l, !.done = d] \in Records
      /\ \A r \in {"none", "ok", "error"} : [record[b] EXCEPT !.result = r] \in Records
      /\ [record[b] EXCEPT !.complete = TRUE] \in Records
  BY DEF Records
<1>2. \A q \in Records : [record EXCEPT ![b] = q] \in [Batches -> Records]
  OBVIOUS
<1>3. ASSUME NEW l \in Lives
      PROVE  [record EXCEPT ![b].life = l] = [record EXCEPT ![b] = [record[b] EXCEPT !.life = l]]
  OBVIOUS
<1>4. ASSUME NEW l \in Lives, NEW d \in Nat
      PROVE  [record EXCEPT ![b].life = l, ![b].done = d]
                 = [record EXCEPT ![b] = [record[b] EXCEPT !.life = l, !.done = d]]
  OBVIOUS
<1>5. ASSUME NEW r \in {"none", "ok", "error"}
      PROVE  [record EXCEPT ![b].result = r]
                 = [record EXCEPT ![b] = [record[b] EXCEPT !.result = r]]
  OBVIOUS
<1>6. [record EXCEPT ![b].complete = TRUE]
          = [record EXCEPT ![b] = [record[b] EXCEPT !.complete = TRUE]]
  OBVIOUS
<1> QED  BY <1>1, <1>2, <1>3, <1>4, <1>5, <1>6

\* An event shows one batch and leaves what was shown of the others.
LEMMA EmitShape ==
    ASSUME shown \in [Batches -> Events], NEW b \in Batches, NEW q \in Progresses, Emit(b, q)
    PROVE  /\ shown' \in [Batches -> Events]
           /\ \A c \in Batches \ {b} : shown'[c] = shown[c]
           /\ shown'[b].life = q.life
           /\ shown'[b].ends = IF q.life = "Completed" THEN shown[b].ends + 1 ELSE shown[b].ends
<1> DEFINE now == [life |-> q.life, done |-> q.done,
                   ends |-> IF q.life = "Completed" THEN shown[b].ends + 1 ELSE shown[b].ends]
<1>1. shown' = [shown EXCEPT ![b] = now]
  BY DEF Emit
<1>2. now \in Events
  BY DEF Events, Progresses
<1>3. now.life = q.life
      /\ now.ends = IF q.life = "Completed" THEN shown[b].ends + 1 ELSE shown[b].ends
  OBVIOUS
<1> HIDE DEF now
<1> QED  BY <1>1, <1>2, <1>3

-----------------------------------------------------------------------------
(* The control of the batches, the close and the undo. *)

\* A batch that works on its files with the lane in hand touches none of the control.
InsideStep(b) ==
    \/ Register(b) \/ SetShared(b) \/ Send(b) \/ Check(b) \/ Drain(b) \/ Begin(b) \/ Run(b)
    \/ PickComponent(b) \/ RenameComponent(b) \/ RenameOutcome(b) \/ Report(b) \/ Unregister(b)

\* Which part of the control such a step reads and writes.
LEMMA InsideShape ==
    ASSUME ControlTypes, NEW b \in Batches, InsideStep(b)
    PROVE  /\ UNCHANGED <<outside, lane, runtime>>
           /\ worker[b] \in Inside /\ worker'[b] \in Inside
           /\ worker'[b] \in {"publish", "send"} <=> then'[b] # "off"
           /\ worker' \in [Batches -> WorkerSteps]
           /\ \A c \in Batches \ {b} : worker'[c] = worker[c]
           /\ then' \in [Batches -> {"off", "check", "begin", "return"}]
           /\ \A c \in Batches \ {b} : then'[c] = then[c]
<1> USE DEF Inside, Zone, WorkerSteps, ControlTypes, Goto, GotoPublish
<1>1. CASE Register(b) \/ SetShared(b) \/ Report(b) \/ Unregister(b)
  BY <1>1 DEF Register, SetShared, Report, Unregister
<1>2. CASE Send(b)
  BY <1>2 DEF Send
<1>3. CASE Check(b)
  <2>1. /\ UNCHANGED <<outside, lane, runtime>> /\ worker[b] = "check"
        /\ \/ Goto(b, "summarise") /\ UNCHANGED then
           \/ Goto(b, "drain") /\ UNCHANGED then
           \/ GotoPublish(b, "begin")
    BY <1>3 DEF Check
  <2>2. CASE \E next \in {"summarise", "drain"} : Goto(b, next) /\ UNCHANGED then
    BY <2>1, <2>2
  <2>3. CASE GotoPublish(b, "begin")
    BY <2>1, <2>3
  <2> QED  BY <2>1, <2>2, <2>3
<1>4. CASE Drain(b)
  BY <1>4 DEF Drain
<1>5. CASE Begin(b)
  <2>1. UNCHANGED <<outside, lane, runtime, then>> /\ worker[b] = "begin"
    BY <1>5 DEF Begin
  <2>2. \E p \in {"report", "group", "run"} : worker' = [worker EXCEPT ![b] = p]
    BY <1>5 DEF Begin, Settle
  <2> QED  BY <2>1, <2>2
<1>6. CASE Run(b)
  <2>1. UNCHANGED <<outside, lane, runtime, then>> /\ worker[b] = "run"
    BY <1>6 DEF Run
  <2>2. worker' = [worker EXCEPT ![b] = "report"]
    BY <1>6 DEF Run, Settle, Completes
  <2> QED  BY <2>1, <2>2
<1>7. CASE PickComponent(b) \/ RenameComponent(b) \/ RenameOutcome(b)
  BY <1>7 DEF PickComponent, RenameComponent, RenameOutcome, Settle
<1> QED  BY <1>1, <1>2, <1>3, <1>4, <1>5, <1>6, <1>7 DEF InsideStep

\* Such a step keeps what is known of the control.
LEMMA InsideKeeps ==
    ASSUME ControlInv, NEW b \in Batches, InsideStep(b), DataTypes'
    PROVE  ControlInv'
<1> USE DEF ControlInv
<1>1. /\ UNCHANGED <<outside, lane, runtime>>
      /\ worker[b] \in Inside /\ worker'[b] \in Inside
      /\ worker'[b] \in {"publish", "send"} <=> then'[b] # "off"
      /\ worker' \in [Batches -> WorkerSteps]
      /\ \A c \in Batches \ {b} : worker'[c] = worker[c]
      /\ then' \in [Batches -> {"off", "check", "begin", "return"}]
      /\ \A c \in Batches \ {b} : then'[c] = then[c]
  BY InsideShape
<1>3. \A c \in Batches : IF c = b THEN worker'[c] \in Inside ELSE worker'[c] = worker[c]
  BY <1>1
<1>4. /\ UNCHANGED <<session, current, close, target, start, gate, active, order, record, forwarder,
                     held, lane, shown, stack, undo>>
  BY <1>1 DEF outside, closing, starting, runtime, forwarding, undoing
<1>5. ControlTypes'
  BY <1>1, <1>4 DEF ControlTypes
<1>6. OneBatchAtATime' /\ LaneIsExclusive'
  BY <1>1, <1>3, <1>4 DEF OneBatchAtATime, LaneIsExclusive, Inside, Zone, Retained
<1>7. CloseWaitsForTheLast'
  BY <1>1, <1>3, <1>4 DEF CloseWaitsForTheLast, Zone
<1>8. EndsInOrder'
  BY <1>1, <1>3, <1>4 DEF EndsInOrder, Inside, Ended
<1> QED  BY <1>5, <1>6, <1>7, <1>8

\* A start request passes the gate, plans and is admitted while no other batch is active.
LEMMA StartingKeeps ==
    ASSUME ControlInv, NEW b \in Batches,
           Starting(b) \/ \E r \in Requests : Start(b, r)
    PROVE  ControlInv'
<1> USE DEF ControlInv, StartAt
<1>1. CASE \/ \E r \in Requests : Start(b, r)
           \/ PassGate(b) \/ TryLane(b) \/ Preflight(b)
  <2>1. UNCHANGED <<closing, undoing, batchWork>>
    BY <1>1 DEF Start, PassGate, TryLane, Preflight
  <2>2. /\ start' \in [Batches -> StartSteps] /\ gate' \in Batches \cup {NoBatch}
        /\ \A c \in Batches \ {b} : start'[c] = start[c]
        /\ start[b] \in {"new", "gate", "lane", "preflight"} /\ start'[b] # "announce"
        /\ start'[b] \in {"lane", "preflight", "admit"} => gate' = b /\ active = NoBatch
    BY <1>1 DEF Start, PassGate, TryLane, Preflight, ControlTypes, StartSteps, OneBatchAtATime
  <2>3. /\ \A c \in Batches \ {b} : gate = c => gate' = c
        /\ worker[b] = "off"
    BY <1>1, <2>2, RuntimeAssumption DEF Start, PassGate, TryLane, Preflight, OneBatchAtATime
  <2>4. ControlTypes' /\ DataTypes'
    BY <2>1, <2>2 DEF ControlTypes, DataTypes, closing, undoing, batchWork, runtime, service,
                      forwarding, working, steps
  <2>5. OneBatchAtATime'
    BY <2>1, <2>2, <2>3 DEF OneBatchAtATime, Zone, batchWork, runtime, working, Retained, Inside
  <2>6. LaneIsExclusive'
    BY <1>1, <2>1, <2>2, <2>3, RuntimeAssumption
       DEF Start, PassGate, TryLane, Preflight, LaneIsExclusive, Inside, closing, undoing,
           batchWork, working, ControlTypes
  <2>7. CloseWaitsForTheLast' /\ EndsInOrder'
    BY <2>1 DEF CloseWaitsForTheLast, EndsInOrder, closing, undoing, batchWork, runtime, working,
                forwarding
  <2> QED  BY <2>4, <2>5, <2>6, <2>7
<1>2. CASE Admit(b)
  <2>1. /\ UNCHANGED <<closing, gate, lane, service, forwarding, working, undoing, shown>>
        /\ start[b] = "admit" /\ start' = [start EXCEPT ![b] = "announce"]
        /\ active' = b /\ record' = [record EXCEPT ![b].life = "Queued"]
    BY <1>2 DEF Admit
  <2>2. order' \in Seq(Batches) /\ Retained(b)'
    BY <1>2, RetainKeepsTheLast DEF Admit, Retained, ControlTypes
  <2>3. /\ worker[b] = "off" /\ active = NoBatch /\ gate = b
        /\ \A c \in Batches : worker[c] \notin Zone \cup {"validate", "join", "store", "clear"}
        /\ \A c \in Batches \ {b} : start[c] \notin {"lane", "preflight", "admit", "announce"}
    BY <2>1, RuntimeAssumption DEF OneBatchAtATime
  <2>4. ControlTypes' /\ DataTypes'
    <3>1. ControlTypes'
      BY <2>1, <2>2 DEF ControlTypes, closing, undoing, forwarding, working, StartSteps
    <3>2. record' \in [Batches -> Records]
      BY <2>1, RecordUpdates DEF DataTypes, Lives
    <3> QED  BY <2>1, <3>1, <3>2 DEF DataTypes, service, forwarding, working, steps
  <2>5. OneBatchAtATime'
    BY <2>1, <2>2, <2>3 DEF OneBatchAtATime, working, ControlTypes
  <2>6. LaneIsExclusive' /\ CloseWaitsForTheLast'
    BY <2>1 DEF LaneIsExclusive, CloseWaitsForTheLast, closing, undoing, working, ControlTypes
  <2>7. EndsInOrder'
    BY <2>1, <2>3 DEF EndsInOrder, Ended, working, forwarding, DataTypes
  <2> QED  BY <2>4, <2>5, <2>6, <2>7
<1>3. CASE Announce(b)
  <2>1. /\ UNCHANGED <<closing, lane, runtime, service, held, then, undoing, steps>>
        /\ start[b] = "announce" /\ start' = [start EXCEPT ![b] = "started"]
        /\ forwarder' = [forwarder EXCEPT ![b] = "idle"]
        /\ worker' = [worker EXCEPT ![b] = "validate"] /\ gate' = NoBatch
        /\ Emit(b, Queued)
    BY <1>3 DEF Announce
  <2>2. /\ worker[b] = "off" /\ gate = b
        /\ \A c \in Batches \ {b} : start[c] \notin {"lane", "preflight", "admit", "announce"}
    BY <2>1, RuntimeAssumption DEF OneBatchAtATime
  <2>3. ControlTypes'
    BY <2>1, <2>2 DEF ControlTypes, closing, undoing, runtime, StartSteps, WorkerSteps
  <2>4. DataTypes'
    <3>1. Queued \in Progresses /\ Queued.life = "Queued"
      BY DEF Queued, Progresses, Lives
    <3>2. shown' \in [Batches -> Events]
      BY <2>1, <3>1, EmitShape DEF DataTypes
    <3> QED  BY <2>1, <3>2 DEF DataTypes, runtime, service, steps
  <2>5. OneBatchAtATime' /\ LaneIsExclusive' /\ CloseWaitsForTheLast'
    BY <2>1, <2>2 DEF OneBatchAtATime, LaneIsExclusive, CloseWaitsForTheLast, closing, undoing,
                      runtime, Zone, Inside, Retained, ControlTypes
  <2>6. EndsInOrder'
    BY <2>1, <2>2 DEF EndsInOrder, Ended, runtime, Emit, Queued, ControlTypes, DataTypes
  <2> QED  BY <2>3, <2>4, <2>5, <2>6
<1> QED  BY <1>1, <1>2, <1>3 DEF Starting

\* The forwarder writes no last status, and is idle or done when it is joined.
LEMMA ForwardingKeeps ==
    ASSUME ControlInv, NEW b \in Batches, Forwarding(b)
    PROVE  ControlInv'
<1> USE DEF ControlInv
<1>1. UNCHANGED <<closing, starting, lane, active, order, working, undoing>>
  BY DEF Forwarding, Take, Forward, StopForwarder, runtime
<1>2. CASE Take(b)
  <2>1. /\ forwarder[b] = "idle" /\ worker[b] # "join" /\ UNCHANGED <<record, shown>>
        /\ held' = [held EXCEPT ![b] = channel[b].value]
        /\ forwarder' = [forwarder EXCEPT ![b] =
                            IF channel[b].value.life = "Completed" THEN "idle" ELSE "busy"]
    BY <1>2 DEF Take, runtime
  <2>2. ControlTypes' /\ DataTypes'
    <3>1. ControlTypes'
      BY <1>1, <2>1 DEF ControlTypes, closing, starting, undoing, working
    <3>2. channel[b].value \in Progresses
      BY DEF DataTypes
    <3>3. held' \in [Batches -> Progresses]
      BY <2>1, <3>2 DEF DataTypes
    <3>4. channel' \in [Batches -> [value : Progresses, fresh : BOOLEAN]]
      BY <1>2 DEF Take, DataTypes
    <3> QED  BY <1>1, <1>2, <2>1, <3>1, <3>3, <3>4 DEF Take, DataTypes, working, steps
  <2>3. EndsInOrder'
    BY <1>1, <2>1 DEF EndsInOrder, working, ControlTypes, DataTypes, Ended
  <2> QED  BY <1>1, <2>2, <2>3 DEF OneBatchAtATime, LaneIsExclusive, CloseWaitsForTheLast,
                closing, starting, undoing, working, Retained
<1>3. CASE Forward(b)
  <2>1. /\ forwarder[b] = "busy" /\ Emit(b, held[b])
        /\ record' = [record EXCEPT ![b].life = held[b].life, ![b].done = held[b].done]
        /\ forwarder' = [forwarder EXCEPT ![b] = "idle"]
        /\ held' = [held EXCEPT ![b] = Queued]
        /\ held[b] \in Progresses /\ held[b].life # "Completed"
        /\ worker[b] \notin Ended
    BY <1>3 DEF Forward, EndsInOrder, DataTypes
  <2>2. ControlTypes' /\ DataTypes'
    <3>1. ControlTypes'
      BY <1>1, <2>1 DEF ControlTypes, closing, starting, undoing, working
    <3>2. held' \in [Batches -> Progresses]
      <4>1. Queued \in Progresses
        BY DEF Progresses, Queued, Lives
      <4> QED  BY <2>1, <4>1 DEF DataTypes
    <3>3. held[b].life \in Lives /\ held[b].done \in Nat
      BY <2>1 DEF Progresses
    <3>4. record' \in [Batches -> Records]
      BY <2>1, <3>3, RecordUpdates DEF DataTypes
    <3>5. shown' \in [Batches -> Events]
      BY <2>1, EmitShape DEF DataTypes
    <3> QED  BY <1>1, <1>3, <3>1, <3>2, <3>4, <3>5 DEF Forward, DataTypes, working, steps, service
  <2>3. /\ record'[b].life = held[b].life /\ shown'[b].life = held[b].life
        /\ record'[b].result = record[b].result /\ record'[b].complete = record[b].complete
        /\ shown'[b].ends = shown[b].ends
        /\ \A c \in Batches \ {b} : /\ record'[c] = record[c] /\ shown'[c] = shown[c]
                                   /\ forwarder'[c] = forwarder[c] /\ held'[c] = held[c]
        /\ forwarder'[b] = "idle" /\ UNCHANGED worker
    BY <1>1, <2>1 DEF ControlTypes, DataTypes, Emit, working
  <2>4. EndsInOrder'
    <3>1. \A c \in Batches \ {b} : /\ record'[c] = record[c] /\ shown'[c] = shown[c]
                                 /\ forwarder'[c] = forwarder[c] /\ held'[c] = held[c]
                                 /\ worker'[c] = worker[c]
      BY <2>3
    <3>2. worker'[b] \notin Ended /\ record'[b].life # "Completed" /\ shown'[b].life # "Completed"
      BY <2>1, <2>3
    <3>3. ~(shown'[b].ends > 0) /\ ~record'[b].complete
      BY <2>1, <2>3 DEF EndsInOrder, Ended
    <3> QED  BY <2>3, <3>1, <3>2, <3>3 DEF EndsInOrder, Ended
  <2> QED  BY <1>1, <2>2, <2>4 DEF OneBatchAtATime, LaneIsExclusive, CloseWaitsForTheLast,
                closing, starting, undoing, working, Retained
<1>4. CASE StopForwarder(b)
  <2>1. /\ forwarder' = [forwarder EXCEPT ![b] = "done"] /\ UNCHANGED <<record, shown, held>>
    BY <1>4 DEF StopForwarder, runtime
  <2>2. ControlTypes' /\ DataTypes'
    BY <1>1, <1>4, <2>1 DEF StopForwarder, ControlTypes, DataTypes, closing, starting, undoing,
                            working, steps, service
  <2>3. EndsInOrder'
    BY <1>1, <2>1 DEF EndsInOrder, working, ControlTypes
  <2> QED  BY <1>1, <2>2, <2>3 DEF OneBatchAtATime, LaneIsExclusive, CloseWaitsForTheLast,
                closing, starting, undoing, working, Retained
<1> QED  BY <1>2, <1>3, <1>4 DEF Forwarding

\* The worker on its way to the lane, when it has its summary, and when it returns.
LEMMA AroundTheWorkKeeps ==
    ASSUME ControlInv, NEW b \in Batches,
           Validate(b) \/ TakeLane(b) \/ Summarise(b) \/ Return(b)
    PROVE  ControlInv'
<1> USE DEF ControlInv, Goto
<1>1. /\ UNCHANGED <<closing, starting, runtime, service, forwarding, then, undo, undos, shown, steps>>
      /\ \A c \in Batches \ {b} : worker'[c] = worker[c]
      /\ worker' \in [Batches -> WorkerSteps]
      /\ worker[b] \notin {"publish", "send"} /\ worker'[b] \notin {"publish", "send"}
  BY DEF Validate, TakeLane, Summarise, Return, outside, undoing, ControlTypes, WorkerSteps, Zone,
         Inside, Ended
<1>2. DataTypes'
  BY <1>1 DEF DataTypes, runtime, service, forwarding, steps
<1>3. CASE Validate(b)
  <2>1. /\ UNCHANGED <<lane, stack>> /\ worker[b] = "validate"
        /\ worker'[b] = IF current THEN "wantLane" ELSE "join"
    BY <1>3 DEF Validate, outside, undoing, ControlTypes
  <2>2. ControlTypes'
    BY <1>1, <2>1 DEF ControlTypes, closing, starting, runtime, forwarding
  <2>3. OneBatchAtATime' /\ LaneIsExclusive'
    BY <1>1, <2>1 DEF OneBatchAtATime, LaneIsExclusive, starting, closing, runtime, Retained, Zone, Inside
  <2>4. CloseWaitsForTheLast'
    BY <1>1, <2>1 DEF CloseWaitsForTheLast, closing, Zone, Inside, ControlTypes
  <2>5. EndsInOrder'
    BY <1>1, <2>1 DEF EndsInOrder, runtime, forwarding, Ended
  <2> QED  BY <1>2, <2>2, <2>3, <2>4, <2>5
<1>4. CASE TakeLane(b)
  <2>1. /\ UNCHANGED stack /\ worker[b] = "wantLane" /\ worker'[b] = "register"
        /\ lane = "free" /\ lane' = b
    BY <1>4 DEF TakeLane, outside, undoing, ControlTypes
  <2>2. ControlTypes'
    BY <1>1, <2>1 DEF ControlTypes, closing, starting, runtime, forwarding
  <2>3. OneBatchAtATime'
    BY <1>1, <2>1 DEF OneBatchAtATime, starting, runtime, Retained, Zone, Inside
  <2>4. LaneIsExclusive'
    BY <1>1, <2>1, RuntimeAssumption DEF LaneIsExclusive, OneBatchAtATime, starting, closing, Inside
  <2>5. CloseWaitsForTheLast'
    BY <1>1, <2>1 DEF CloseWaitsForTheLast, closing, Zone, Inside
  <2>6. EndsInOrder'
    BY <1>1, <2>1 DEF EndsInOrder, runtime, forwarding, Ended
  <2> QED  BY <1>2, <2>2, <2>3, <2>4, <2>5, <2>6
<1>5. CASE Summarise(b)
  <2>1. /\ UNCHANGED lane /\ worker[b] = "summarise" /\ worker'[b] = "unregister"
        /\ stack' \in {stack, Append(stack, b)}
    BY <1>5 DEF Summarise, ControlTypes
  <2>6. stack' \in Seq(Batches)
    <3>1. stack \in Seq(Batches)
      BY DEF ControlTypes
    <3>2. Append(stack, b) \in Seq(Batches)
      BY <3>1, AppendProperties
    <3> QED  BY <2>1, <3>1, <3>2
  <2>2. ControlTypes'
    BY <1>1, <2>1, <2>6 DEF ControlTypes, closing, starting, runtime, forwarding
  <2>3. OneBatchAtATime' /\ LaneIsExclusive'
    BY <1>1, <2>1 DEF OneBatchAtATime, LaneIsExclusive, starting, closing, runtime, Retained, Zone, Inside
  <2>4. CloseWaitsForTheLast'
    BY <1>1, <2>1 DEF CloseWaitsForTheLast, closing, Zone, Inside
  <2>5. EndsInOrder'
    BY <1>1, <2>1 DEF EndsInOrder, runtime, forwarding, Ended
  <2> QED  BY <1>2, <2>2, <2>3, <2>4, <2>5
<1>6. CASE Return(b)
  <2>1. /\ UNCHANGED stack /\ worker[b] = "return" /\ worker'[b] = "join"
        /\ lane = b /\ lane' = "free"
    BY <1>6 DEF Return, outside, undoing, ControlTypes, LaneIsExclusive, Inside
  <2>2. ControlTypes'
    BY <1>1, <2>1 DEF ControlTypes, closing, starting, runtime, forwarding
  <2>3. OneBatchAtATime'
    BY <1>1, <2>1 DEF OneBatchAtATime, starting, runtime, Retained, Zone, Inside
  <2>4. LaneIsExclusive'
    BY <1>1, <2>1, RuntimeAssumption DEF LaneIsExclusive, OneBatchAtATime, starting, closing, Inside
  <2>5. CloseWaitsForTheLast'
    BY <1>1, <2>1 DEF CloseWaitsForTheLast, closing, Zone, Inside
  <2>6. EndsInOrder'
    BY <1>1, <2>1 DEF EndsInOrder, runtime, forwarding, Ended
  <2> QED  BY <1>2, <2>2, <2>3, <2>4, <2>5, <2>6
<1> QED  BY <1>3, <1>4, <1>5, <1>6

\* The end of the spawned task, step by step.
LEMMA EndingKeeps ==
    ASSUME ControlInv, NEW b \in Batches, Ending(b)
    PROVE  ControlInv'
<1> USE DEF ControlInv, Goto
<1>1. /\ UNCHANGED <<closing, starting, lane, order, service, forwarding, then, undoing, steps>>
      /\ \A c \in Batches \ {b} : worker'[c] = worker[c]
      /\ worker' \in [Batches -> WorkerSteps]
      /\ worker[b] \notin {"publish", "send"} /\ worker'[b] \in Ended
  <2>1. /\ UNCHANGED <<closing, starting, lane, order, service, forwarding, then, undoing, steps>>
        /\ worker[b] \in {"join", "store", "clear", "announce", "mark"}
        /\ \E next \in Ended : Goto(b, next)
    BY DEF Ending, Join, Store, ClearActive, AnnounceEnd, MarkComplete, outside, runtime, Ended
  <2>2. worker \in [Batches -> WorkerSteps] /\ Ended \subseteq WorkerSteps
    BY DEF ControlTypes, WorkerSteps
  <2> HIDE DEF ControlInv
  <2> QED  BY <2>1, <2>2
<1>2. CASE Join(b)
  <2>1. /\ UNCHANGED <<active, shown>> /\ worker[b] = "join" /\ worker'[b] = "store"
        /\ forwarder[b] = "done"
        /\ record' = [record EXCEPT ![b].life = Final.life, ![b].done = Final.done]
    BY <1>2 DEF Join, outside, ControlTypes
  <2>2. Final.life = "Completed" /\ Final.life \in Lives /\ Final.done \in Nat
    BY RuntimeAssumption DEF Final, Lives
  <2>3. record' \in [Batches -> Records]
    BY <2>1, <2>2, RecordUpdates DEF DataTypes
  <2>4. /\ record'[b].life = "Completed" /\ record'[b].complete = record[b].complete
        /\ \A c \in Batches \ {b} : record'[c] = record[c]
    BY <2>1, <2>2 DEF DataTypes, Records
  <2>5. ControlTypes' /\ DataTypes'
    BY <1>1, <2>1, <2>3 DEF ControlTypes, DataTypes, closing, starting, service, forwarding, undoing,
                            steps, Ended
  <2>6. OneBatchAtATime' /\ LaneIsExclusive' /\ CloseWaitsForTheLast'
    BY <1>1, <2>1 DEF OneBatchAtATime, LaneIsExclusive, CloseWaitsForTheLast, closing, starting,
                      undoing, Retained, Zone, Inside, Ended
  <2>7. EndsInOrder'
    <3> SUFFICES ASSUME NEW c \in Batches
                 PROVE  /\ record'[c].life = "Completed" <=> worker'[c] \in Ended
                        /\ worker'[c] \in Ended => forwarder[c] = "done"
                        /\ forwarder[c] = "busy" => held[c].life # "Completed"
                        /\ worker'[c] \in {"clear", "announce", "mark", "done"} => record'[c].result # "none"
                        /\ shown[c].life = "Completed" \/ shown[c].ends > 0 => worker'[c] \in {"mark", "done"}
                        /\ record'[c].complete => worker'[c] = "done"
      BY <1>1, <2>1 DEF EndsInOrder, forwarding
    <3>1. CASE c = b
      BY <2>1, <2>4, <3>1 DEF EndsInOrder, Ended
    <3>2. CASE c # b
      BY <1>1, <2>4, <3>2 DEF EndsInOrder
    <3> QED  BY <3>1, <3>2
  <2> QED  BY <2>5, <2>6, <2>7
<1>3. CASE Store(b)
  <2>1. /\ UNCHANGED <<active, shown>> /\ worker[b] = "store" /\ worker'[b] = "clear"
        /\ \E r \in {"error", "ok"} : record' = [record EXCEPT ![b].result = r]
    BY <1>3 DEF Store, outside, ControlTypes
  <2>3. record' \in [Batches -> Records]
    <3>1. PICK r \in {"error", "ok"} : record' = [record EXCEPT ![b].result = r]
      BY <2>1
    <3>2. r \in {"none", "ok", "error"} /\ record \in [Batches -> Records]
      BY DEF DataTypes
    <3> QED  BY <3>1, <3>2, RecordUpdates
  <2>4. /\ record'[b].life = record[b].life /\ record'[b].complete = record[b].complete
        /\ record'[b].result # "none"
        /\ \A c \in Batches \ {b} : record'[c] = record[c]
    BY <2>1 DEF DataTypes, Records
  <2>5. ControlTypes' /\ DataTypes'
    BY <1>1, <2>1, <2>3 DEF ControlTypes, DataTypes, closing, starting, service, forwarding, undoing,
                            steps, Ended
  <2>6. OneBatchAtATime' /\ LaneIsExclusive' /\ CloseWaitsForTheLast'
    BY <1>1, <2>1 DEF OneBatchAtATime, LaneIsExclusive, CloseWaitsForTheLast, closing, starting,
                      undoing, Retained, Zone, Inside, Ended
  <2>7. EndsInOrder'
    BY <1>1, <2>1, <2>4 DEF EndsInOrder, forwarding, Ended
  <2> QED  BY <2>5, <2>6, <2>7
<1>4. CASE ClearActive(b)
  <2>1. /\ UNCHANGED <<record, shown>> /\ worker[b] = "clear" /\ worker'[b] = "announce"
        /\ active = b /\ active' = NoBatch
    BY <1>4 DEF ClearActive, outside, ControlTypes, OneBatchAtATime
  <2>2. ControlTypes' /\ DataTypes'
    BY <1>1, <2>1 DEF ControlTypes, DataTypes, closing, starting, service, forwarding, undoing, steps,
                      Ended
  <2>3. OneBatchAtATime'
    <3>1. \A c \in Batches \ {b} :
              start[c] # "announce"
              /\ worker[c] \notin Zone \cup {"validate", "join", "store", "clear"}
      BY <2>1 DEF OneBatchAtATime
    <3>2. start[b] = "started"
      BY <2>1 DEF OneBatchAtATime
    <3> QED  BY <1>1, <2>1, <3>1, <3>2, RuntimeAssumption
             DEF OneBatchAtATime, starting, Zone, Inside
  <2>4. LaneIsExclusive' /\ CloseWaitsForTheLast'
    BY <1>1, <2>1 DEF LaneIsExclusive, CloseWaitsForTheLast, closing, starting, undoing, Zone, Inside
  <2>5. EndsInOrder'
    BY <1>1, <2>1 DEF EndsInOrder, forwarding, Ended
  <2> QED  BY <2>2, <2>3, <2>4, <2>5
<1>5. CASE AnnounceEnd(b)
  <2>1. /\ UNCHANGED <<record, active>> /\ worker[b] = "announce" /\ worker'[b] = "mark"
        /\ Emit(b, Final)
    BY <1>5 DEF AnnounceEnd, runtime, ControlTypes
  <2>2. Final \in Progresses
    BY RuntimeAssumption DEF Final, Progresses, Lives
  <2>3. /\ shown' \in [Batches -> Events]
        /\ \A c \in Batches \ {b} : shown'[c] = shown[c]
    BY <2>1, <2>2, EmitShape DEF DataTypes
  <2>4. ControlTypes' /\ DataTypes'
    BY <1>1, <2>1, <2>3 DEF ControlTypes, DataTypes, closing, starting, service, forwarding, undoing,
                            steps, Ended
  <2>5. OneBatchAtATime' /\ LaneIsExclusive' /\ CloseWaitsForTheLast'
    BY <1>1, <2>1 DEF OneBatchAtATime, LaneIsExclusive, CloseWaitsForTheLast, closing, starting,
                      undoing, Retained, Zone, Inside, Ended
  <2>6. EndsInOrder'
    BY <1>1, <2>1, <2>3 DEF EndsInOrder, forwarding, Ended
  <2> QED  BY <2>4, <2>5, <2>6
<1>6. CASE MarkComplete(b)
  <2>1. /\ UNCHANGED <<active, shown>> /\ worker[b] = "mark" /\ worker'[b] = "done"
        /\ record' = [record EXCEPT ![b].complete = TRUE]
    BY <1>6 DEF MarkComplete, outside, ControlTypes
  <2>3. record' \in [Batches -> Records]
    BY <2>1, RecordUpdates DEF DataTypes
  <2>4. /\ record'[b].life = record[b].life /\ record'[b].result = record[b].result
        /\ \A c \in Batches \ {b} : record'[c] = record[c]
    BY <2>1 DEF DataTypes, Records
  <2>5. ControlTypes' /\ DataTypes'
    BY <1>1, <2>1, <2>3 DEF ControlTypes, DataTypes, closing, starting, service, forwarding, undoing,
                            steps, Ended
  <2>6. OneBatchAtATime' /\ LaneIsExclusive' /\ CloseWaitsForTheLast'
    BY <1>1, <2>1 DEF OneBatchAtATime, LaneIsExclusive, CloseWaitsForTheLast, closing, starting,
                      undoing, Retained, Zone, Inside, Ended
  <2>7. EndsInOrder'
    BY <1>1, <2>1, <2>4 DEF EndsInOrder, forwarding, Ended
  <2> QED  BY <2>5, <2>6, <2>7
<1> QED  BY <1>2, <1>3, <1>4, <1>5, <1>6 DEF Ending

\* What request_cancel writes.
LEMMA RequestCancelShape ==
    ASSUME DataTypes, NEW b \in Batches, RequestCancel(b)
    PROVE  /\ UNCHANGED svcActive
           /\ shared' \in [Batches -> Progresses]
           /\ channel' \in [Batches -> [value : Progresses, fresh : BOOLEAN]]
<1>1. CancelProgress(b) \in Progresses
  <2>1. shared[b] \in Progresses
    BY DEF DataTypes
  <2> QED  BY <2>1 DEF CancelProgress, Progresses, Lives
<1>2. shared' \in [Batches -> Progresses]
  BY <1>1 DEF RequestCancel, DataTypes
<1>3. channel' \in [Batches -> [value : Progresses, fresh : BOOLEAN]]
  <2>1. [value |-> CancelProgress(b), fresh |-> TRUE] \in [value : Progresses, fresh : BOOLEAN]
    BY <1>1
  <2> QED  BY <2>1 DEF RequestCancel, DataTypes
<1> QED  BY <1>2, <1>3 DEF RequestCancel

\* The user's cancellations, the close of the project and the undo.
LEMMA RestKeeps ==
    ASSUME ControlInv,
           \/ \E b \in Batches : CancelCheck(b) \/ CancelSend(b)
           \/ RequestClose \/ Closing \/ UndoCall \/ Undoing \/ UNCHANGED vars
    PROVE  ControlInv'
<1> USE DEF ControlInv
<1>1. CASE \/ \E b \in Batches : CancelCheck(b) \/ CancelSend(b)
           \/ UNCHANGED vars
  <2>1. /\ UNCHANGED <<closing, starting, lane, runtime, forwarding, working, undoing, shown>>
        /\ shared' \in [Batches -> Progresses]
        /\ channel' \in [Batches -> [value : Progresses, fresh : BOOLEAN]]
    BY <1>1, RequestCancelShape DEF CancelCheck, CancelSend, vars, batchWork, service, DataTypes
  <2>2. ControlTypes'
    BY <2>1 DEF ControlTypes, closing, starting, runtime, forwarding, working, undoing
  <2>3. DataTypes'
    BY <2>1 DEF DataTypes, runtime, forwarding, working, steps
  <2>4. OneBatchAtATime' /\ LaneIsExclusive'
    BY <2>1 DEF OneBatchAtATime, LaneIsExclusive, closing, starting, runtime, working, undoing,
                Retained
  <2>5. CloseWaitsForTheLast' /\ EndsInOrder'
    BY <2>1 DEF CloseWaitsForTheLast, EndsInOrder, closing, runtime, forwarding, working, undoing
  <2> QED  BY <2>2, <2>3, <2>4, <2>5
<1>2. CASE CloseRequest
  <2>1. /\ UNCHANGED <<session, current, target, starting, lane, runtime, forwarding, working,
                       undoing, shown>>
        /\ close = "request" /\ close' = "wait" /\ target \in Batches
        /\ RequestCancel(target)
    BY <1>2 DEF CloseRequest, CloseWaitsForTheLast
  <2>2. /\ shared' \in [Batches -> Progresses]
        /\ channel' \in [Batches -> [value : Progresses, fresh : BOOLEAN]]
    BY <2>1, RequestCancelShape
  <2> QED  BY <2>1, <2>2 DEF ControlTypes, DataTypes, OneBatchAtATime, LaneIsExclusive,
                CloseWaitsForTheLast, EndsInOrder, starting, runtime, forwarding, working,
                steps, undoing, Retained, CloseSteps
<1>3. CASE RequestClose \/ CloseCancel \/ CloseWait \/ TakeSession \/ Revoke \/ ReadActive
  <2>1. UNCHANGED <<batchWork, starting, lane, undoing>>
    BY <1>3 DEF RequestClose, CloseCancel, CloseWait, TakeSession, Revoke, ReadActive
  <2>2. close' \in CloseSteps /\ target' \in Batches \cup {NoBatch}
        /\ session' \in {"open", "closed"} /\ current' \in BOOLEAN
        /\ close' # "clear" /\ close' # "closed"
    BY <1>3 DEF RequestClose, CloseCancel, CloseWait, TakeSession, Revoke, ReadActive,
                CloseSteps, ControlTypes
  <2>3. ControlTypes' /\ DataTypes' /\ OneBatchAtATime' /\ LaneIsExclusive' /\ EndsInOrder'
    BY <2>1, <2>2 DEF ControlTypes, DataTypes, OneBatchAtATime, LaneIsExclusive, EndsInOrder,
                      batchWork, starting, runtime, service, forwarding, working, steps, undoing,
                      Retained
  <2>4. UNCHANGED <<worker, active, order, record, stack, undo>>
    BY <2>1 DEF batchWork, runtime, working, undoing
  <2>5. \A c \in Batches : worker[c] \in Zone => active = c /\ Retained(c) /\ ~record[c].complete
    BY DEF OneBatchAtATime, EndsInOrder, Zone, Inside
  <2>6. CloseWaitsForTheLast'
    <3>1. CASE RequestClose \/ CloseCancel
      BY <2>4, <3>1 DEF CloseWaitsForTheLast, RequestClose, CloseCancel, ControlTypes
    <3>2. CASE CloseWait
      BY <2>4, <2>5, <3>2 DEF CloseWaitsForTheLast, CloseWait, ControlTypes
    <3>3. CASE TakeSession \/ Revoke
      BY <2>4, <3>3 DEF CloseWaitsForTheLast, TakeSession, Revoke
    <3>4. CASE ReadActive
      BY <2>4, <2>5, <3>4, RuntimeAssumption DEF CloseWaitsForTheLast, ReadActive, ControlTypes
    <3> QED  BY <1>3, <3>1, <3>2, <3>3, <3>4
  <2> QED  BY <2>3, <2>6
<1>4. CASE CloseLane \/ CloseUndo
  <2>1. UNCHANGED <<batchWork, session, current, target, starting, undo>>
    BY <1>4 DEF CloseLane, CloseUndo, undoing
  <2>2. /\ close' \in {"clear", "closed"} /\ stack' \in {stack, <<>>}
        /\ lane' \notin Batches
        /\ lane \in {"free", "close"} /\ close \in {"lane", "clear"}
        /\ close' = "clear" => lane' = "close"
        /\ close' = "closed" => stack' = <<>>
    BY <1>4, RuntimeAssumption DEF CloseLane, CloseUndo, undoing, LaneIsExclusive
  <2>3. /\ undo # "reverse" /\ \A b \in Batches : worker[b] \notin Inside /\ start[b] # "preflight"
    BY <2>2, RuntimeAssumption DEF LaneIsExclusive
  <2>4. ControlTypes'
    <3>1. stack' \in Seq(Batches) /\ close' \in CloseSteps
      BY <2>2, EmptySeq DEF ControlTypes, CloseSteps
    <3> QED  BY <2>1, <3>1 DEF ControlTypes, batchWork, starting, runtime, forwarding, working
  <2>5. DataTypes' /\ OneBatchAtATime' /\ EndsInOrder'
    BY <2>1 DEF DataTypes, OneBatchAtATime, EndsInOrder, batchWork, starting, runtime, service,
                forwarding, working, steps, Retained
  <2>6. LaneIsExclusive' /\ CloseWaitsForTheLast'
    BY <2>1, <2>2, <2>3 DEF LaneIsExclusive, CloseWaitsForTheLast, batchWork, starting, working
  <2> QED  BY <2>4, <2>5, <2>6
<1>5. CASE UndoCall \/ Undoing
  <2>1. UNCHANGED <<closing, starting, runtime, service, forwarding, working, shown>>
    BY <1>5 DEF UndoCall, Undoing, UndoLane, UndoReverse, batchWork
  <2>2. /\ undo' \in {"idle", "lane", "reverse"} /\ stack' \in Seq(Batches)
        /\ UNCHANGED lane \/ lane' = "undo" \/ (lane' = "free" /\ undo = "reverse")
        /\ lane' # lane => lane \in {"free", "undo"}
        /\ undo' = "reverse" => lane' = "undo" /\ stack # <<>> /\ undo = "lane"
        /\ undo = "reverse" \/ UNCHANGED stack
    <3>1. CASE UndoCall \/ UndoLane
      BY <3>1 DEF UndoCall, UndoLane, ControlTypes
    <3>2. CASE UndoReverse
      <4>1. stack' \in {stack, SubSeq(stack, 1, Len(stack) - 1)} /\ undo = "reverse"
            /\ undo' = "idle" /\ lane' = "free"
        BY <3>2 DEF UndoReverse
      <4>2. SubSeq(stack, 1, Len(stack) - 1) \in Seq(Batches)
        <5>1. stack \in Seq(Batches) /\ Len(stack) \in Nat
          BY DEF ControlTypes
        <5> QED  BY <5>1
      <4> QED  BY <4>1, <4>2 DEF ControlTypes, LaneIsExclusive
    <3> QED  BY <1>5, <3>1, <3>2 DEF Undoing
  <2>3. ControlTypes'
    BY <2>1, <2>2 DEF ControlTypes, closing, starting, runtime, forwarding, working
  <2>4. DataTypes' /\ OneBatchAtATime' /\ EndsInOrder'
    BY <2>1 DEF DataTypes, OneBatchAtATime, EndsInOrder, starting, runtime, service,
                forwarding, working, steps, Retained
  <2>5. LaneIsExclusive'
    BY <2>1, <2>2, RuntimeAssumption DEF LaneIsExclusive, closing, starting, working
  <2>6. CloseWaitsForTheLast'
    BY <2>1, <2>2 DEF CloseWaitsForTheLast, closing, working
  <2> QED  BY <2>3, <2>4, <2>5, <2>6
<1> QED  BY <1>1, <1>2, <1>3, <1>4, <1>5 DEF Closing

-----------------------------------------------------------------------------
(* The files of a batch. *)

\* The settled files of a cancelled batch get their results after those it has.
LEMMA DrainedResults ==
    ASSUME ControlInv, ResultsFollowFiles, NEW b \in Batches, Drain(b)
    PROVE  /\ results'[b] \in Seq(Results) /\ Len(results'[b]) = N
           /\ results' \in [Batches -> Seq(Results)]
           /\ \A c \in Batches \ {b} : results'[c] = results[c]
           /\ \A i \in Items : IF i < item[b] THEN results'[b][i] = results[b][i]
                              ELSE results'[b][i] \in {"cancelled", "failed"}
<1>1. N \in Nat /\ item[b] \in Nat \ {0} /\ results[b] \in Seq(Results)
      /\ Len(results[b]) = item[b] - 1
  BY RuntimeAssumption DEF ControlInv, DataTypes, ResultsFollowFiles, FilesOf, Drain
<1>2. PICK settled : results' = [results EXCEPT ![b] =
              [i \in Items |-> IF i < item[b] THEN results[b][i]
                               ELSE IF i \in settled THEN "cancelled" ELSE "failed"]]
  BY DEF Drain
<1> DEFINE now == [i \in Items |-> IF i < item[b] THEN results[b][i]
                                   ELSE IF i \in settled THEN "cancelled" ELSE "failed"]
<1>3. now \in [1..N -> Results]
  <2>1. \A i \in Items : i < item[b] => results[b][i] \in Results
    BY <1>1, ElementOfSeq DEF Items
  <2> QED  BY <2>1 DEF Items, Results
<1>4. now \in Seq(Results) /\ Len(now) = N
  BY <1>1, <1>3
<1>5. results'[b] = now /\ results' \in [Batches -> Seq(Results)]
      /\ \A c \in Batches \ {b} : results'[c] = results[c]
  <2> HIDE DEF now
  <2> QED  BY <1>2, <1>4 DEF now, ControlInv, DataTypes
<1> QED  BY <1>4, <1>5

\* The work on the files keeps the data in shape.
LEMMA WorkKeepsTypes ==
    ASSUME ControlInv, ResultsFollowFiles, NEW b \in Batches, InsideStep(b)
    PROVE  DataTypes'
<1>1. DataTypes /\ ControlTypes
  BY DEF ControlInv
<1>2. UNCHANGED <<record, shown, held>>
  BY <1>1, InsideShape DEF outside, runtime, forwarding
<1>3. CASE Register(b) \/ Check(b) \/ Report(b) \/ Unregister(b)
  <2>1. /\ UNCHANGED <<results, sending, channel>>
        /\ \E l \in {"Running", "Cancelling", "Completed", life[b]} : life' = [life EXCEPT ![b] = l]
        /\ item' \in {item, [item EXCEPT ![b] = item[b] + 1]}
    <3>1. life = [life EXCEPT ![b] = life[b]]
      BY <1>1 DEF DataTypes
    <3> QED  BY <1>3, <3>1 DEF Register, Check, Report, Unregister, service
  <2>3. life' \in [Batches -> Lives] /\ item' \in [Batches -> Nat \ {0}]
    <3>1. {"Running", "Cancelling", "Completed", life[b]} \subseteq Lives
          /\ item[b] + 1 \in Nat \ {0}
      BY <1>1 DEF DataTypes, Lives
    <3> QED  BY <1>1, <2>1, <3>1 DEF DataTypes
  <2>2. shared' \in [Batches -> Progresses]
    <3>1. [shared[b] EXCEPT !.life = "Running"] \in Progresses
      <4>1. shared[b] \in Progresses
        BY <1>1 DEF DataTypes
      <4> QED  BY <4>1 DEF Progresses, Lives
    <3>2. shared' \in {shared, [shared EXCEPT ![b] = [shared[b] EXCEPT !.life = "Running"]]}
      BY <1>3 DEF Register, Check, Report, Unregister, service
    <3> QED  BY <1>1, <3>1, <3>2 DEF DataTypes
  <2> QED  BY <1>1, <1>2, <2>1, <2>2, <2>3 DEF DataTypes
<1>4. CASE SetShared(b)
  <2>1. Progress(b) \in Progresses /\ [Progress(b) EXCEPT !.life = "Cancelling"] \in Progresses
    <3>1. life[b] \in Lives /\ Len(results[b]) \in Nat
      BY <1>1 DEF DataTypes
    <3> QED  BY <3>1 DEF Progress, Progresses, Lives
  <2>2. \E q \in Progresses : shared' = [shared EXCEPT ![b] = q] /\ sending' = [sending EXCEPT ![b] = q]
    <3>1. \E q \in {Progress(b), [Progress(b) EXCEPT !.life = "Cancelling"]} :
              shared' = [shared EXCEPT ![b] = q] /\ sending' = [sending EXCEPT ![b] = q]
      <4>1. [Progress(b) EXCEPT !.life = Progress(b).life] = Progress(b)
        BY DEF Progress
      <4> QED  BY <1>4, <4>1 DEF SetShared
    <3> QED  BY <2>1, <3>1
  <2>3. UNCHANGED <<channel, life, results, item>>
    BY <1>4 DEF SetShared
  <2> QED  BY <1>1, <1>2, <2>2, <2>3 DEF DataTypes
<1>5. CASE Send(b)
  <2>1. UNCHANGED <<life, results, item, shared>>
    BY <1>5 DEF Send
  <2>2. sending' \in [Batches -> Progresses]
    <3>1. Queued \in Progresses
      BY DEF Queued, Progresses, Lives
    <3> QED  BY <1>1, <1>5, <3>1 DEF Send, DataTypes
  <2>3. channel' \in [Batches -> [value : Progresses, fresh : BOOLEAN]]
    <3>1. [value |-> sending[b], fresh |-> TRUE] \in [value : Progresses, fresh : BOOLEAN]
      BY <1>1 DEF DataTypes
    <3> QED  BY <1>1, <1>5, <3>1 DEF Send, DataTypes
  <2> QED  BY <1>1, <1>2, <2>1, <2>2, <2>3 DEF DataTypes
<1>6. CASE Drain(b)
  <2>1. item' \in [Batches -> Nat \ {0}]
    BY <1>1, <1>6, RuntimeAssumption DEF Drain, DataTypes
  <2> QED  BY <1>1, <1>2, <1>6, <2>1, DrainedResults DEF Drain, DataTypes, service
<1>7. CASE \/ Begin(b) \/ Run(b) \/ PickComponent(b) \/ RenameComponent(b) \/ RenameOutcome(b)
  <2>1. UNCHANGED <<service, item, life, sending>>
    BY <1>7 DEF Begin, Run, PickComponent, RenameComponent, RenameOutcome, steps
  <2>2. \/ UNCHANGED results
        \/ \E r \in Results : results' = [results EXCEPT ![b] = Append(results[b], r)]
    BY <1>7 DEF Begin, Run, PickComponent, RenameComponent, RenameOutcome, steps, Settle, Completes,
                Results
  <2>3. results' \in [Batches -> Seq(Results)]
    <3>1. results \in [Batches -> Seq(Results)] /\ results[b] \in Seq(Results)
      BY <1>1 DEF DataTypes
    <3>2. ASSUME NEW r \in Results
          PROVE  [results EXCEPT ![b] = Append(results[b], r)] \in [Batches -> Seq(Results)]
      <4>1. Append(results[b], r) \in Seq(Results)
        BY <3>1
      <4> QED  BY <3>1, <4>1
    <3> QED  BY <2>2, <3>1, <3>2
  <2> QED  BY <1>1, <1>2, <2>1, <2>3 DEF DataTypes, service
<1> QED  BY <1>3, <1>4, <1>5, <1>6, <1>7 DEF InsideStep

\* Preparing and skipping rows completes none and takes no completion back.
LEMMA PreparedRows ==
    ASSUME ControlInv, ResultsFollowFiles, NEW b \in Batches, Begin(b) \/ Drain(b)
    PROVE  /\ rows' \in [Batches -> [Items -> RowStates]]
           /\ \A c \in Batches \ {b} : rows'[c] = rows[c]
           /\ \A i \in Items : rows'[b][i] = "Completed" <=> rows[b][i] = "Completed"
<1> DEFINE Kept(r) == /\ r \in [Items -> RowStates]
                      /\ \A i \in Items : r[i] = "Completed" <=> rows[b][i] = "Completed"
<1>1. rows \in [Batches -> [Items -> RowStates]] /\ rows[b] \in [Items -> RowStates]
  BY DEF ResultsFollowFiles, FileTypes
<1>2. Kept(rows[b]) /\ Kept(Started(b))
  BY <1>1 DEF Started, RowStates, Over
<1>3. ASSUME NEW i \in Items, Settles(b, i)
      PROVE  Kept([Started(b) EXCEPT ![i] = "Skipped"])
  BY <1>2, <1>3 DEF Settles, RowStates, Over
<1>4. ASSUME NEW i \in Items, rows[b][i] \notin Over
      PROVE  Kept([Started(b) EXCEPT ![i] = "Skipped"])
  BY <1>2, <1>4 DEF RowStates, Over
<1>5. ASSUME NEW settled, \A i \in settled : Settles(b, i)
      PROVE  Kept([i \in Items |-> IF i \in settled THEN "Skipped" ELSE Started(b)[i]])
  BY <1>2, <1>5 DEF Settles, RowStates, Over
<1>6. \E r : Kept(r) /\ (rows' = rows \/ rows' = [rows EXCEPT ![b] = r])
  <2> HIDE DEF Kept
  <2>1. CASE Begin(b)
    <3>1. item[b] \in Items
      BY <2>1 DEF Begin, ResultsFollowFiles, FilesOf, ControlInv, DataTypes, Items
    <3>2. CASE UNCHANGED rows
      BY <1>2, <3>2
    <3>3. CASE rows' = [rows EXCEPT ![b] = IF Settles(b, item[b])
                            THEN [Started(b) EXCEPT ![item[b]] = "Skipped"] ELSE Started(b)]
      BY <1>2, <1>3, <3>1, <3>3
    <3>4. CASE MarkCancelled(b, item[b])
      BY <1>2, <1>4, <3>1, <3>4 DEF MarkCancelled
    <3>5. CASE rows' = [rows EXCEPT ![b] = Started(b)]
      BY <1>2, <3>5
    <3> QED  BY <2>1, <3>2, <3>3, <3>4, <3>5 DEF Begin
  <2>2. CASE Drain(b)
    <3>1. PICK faulty \in SUBSET (item[b]..N) :
              rows' = [rows EXCEPT ![b] =
                IF faulty = item[b]..N THEN rows[b]
                ELSE [i \in Items |->
                        IF i \in {j \in (item[b]..N) \ faulty : Settles(b, j)} THEN "Skipped"
                        ELSE Started(b)[i]]]
      BY <2>2 DEF Drain
    <3> DEFINE settled == {j \in (item[b]..N) \ faulty : Settles(b, j)}
    <3>2. Kept([i \in Items |-> IF i \in settled THEN "Skipped" ELSE Started(b)[i]])
      BY <1>5
    <3> QED  BY <1>2, <3>1, <3>2
  <2> QED  BY <2>1, <2>2
<1> QED  BY <1>1, <1>6

\* What the files of one batch look like is known from the variables at that batch.
SameFiles(c) ==
    /\ results'[c] = results[c] /\ item'[c] = item[c] /\ worker'[c] = worker[c] /\ then'[c] = then[c]
    /\ request'[c] = request[c] /\ groupRan'[c] = groupRan[c] /\ rows'[c] = rows[c]
    /\ moved'[c] = moved[c] /\ start'[c] = start[c]

\* What is true of a batch stays true when none of it changes.
LEMMA SameFilesKeep ==
    ASSUME NEW c \in Batches, SameFiles(c), FilesOf(c), TrueOf(c)
    PROVE  FilesOf(c)' /\ TrueOf(c)'
BY DEF SameFiles, FilesOf, TrueOf

\* Steps outside the work on the files leave the files and the results alone, but for the
\* undo, which puts files back.
LEMMA OutsideKeepsFiles ==
    ASSUME ControlInv, ResultsFollowFiles, NEW c \in Batches, FilesOf(c), TrueOf(c),
           results'[c] = results[c], item'[c] = item[c], groupRan'[c] = groupRan[c],
           rows'[c] = rows[c], moved'[c] \subseteq moved[c], then'[c] = then[c],
           \/ request'[c] = request[c]
           \/ start[c] = "new" /\ start'[c] # "new",
           start'[c] = "new" => start[c] = "new" /\ request'[c] = request[c],
           \/ worker'[c] = worker[c]
           \/ /\ worker[c] \notin {"publish", "send", "report"}
              /\ worker'[c] \in {"wantLane", "register", "join", "unregister"} \cup Ended
           \/ worker[c] = "off" /\ worker'[c] = "validate"
    PROVE  FilesOf(c)' /\ TrueOf(c)'
<1>1. start[c] = "new" => worker[c] = "off" /\ results[c] = <<>>
  BY DEF ControlInv, OneBatchAtATime, FilesOf
<1>2. FilesOf(c)'
  BY <1>1 DEF FilesOf, Ended
<1>3. TrueOf(c)'
  BY <1>1 DEF TrueOf
<1> QED  BY <1>2, <1>3

\* One more result, for the file the worker is at.
LEMMA SettleShape ==
    ASSUME DataTypes, ControlTypes, NEW b \in Batches, NEW r \in Results, Settle(b, r)
    PROVE  /\ Len(results'[b]) = Len(results[b]) + 1 /\ Len(results[b]) \in Nat
           /\ \A i \in 1..Len(results[b]) : results'[b][i] = results[b][i]
           /\ results'[b][Len(results[b]) + 1] = r
           /\ worker'[b] = "report"
           /\ \A c \in Batches \ {b} : results'[c] = results[c] /\ worker'[c] = worker[c]
<1>1. results[b] \in Seq(Results) /\ results \in [Batches -> Seq(Results)]
  BY DEF DataTypes
<1>2. results' = [results EXCEPT ![b] = Append(results[b], r)]
  BY DEF Settle
<1>3. results'[b] = Append(results[b], r) /\ \A c \in Batches \ {b} : results'[c] = results[c]
  BY <1>1, <1>2
<1>4. worker'[b] = "report" /\ \A c \in Batches \ {b} : worker'[c] = worker[c]
  BY DEF Settle, Goto, ControlTypes
<1> QED  BY <1>1, <1>3, <1>4

\* Before the work: the steps that change neither files nor results.
LEMMA StepsKeepFiles ==
    ASSUME ControlInv, ResultsFollowFiles, NEW b \in Batches, TrueOf(b),
           \/ Register(b) \/ SetShared(b) \/ Send(b) \/ Check(b) \/ PickComponent(b) \/ Report(b)
           \/ Unregister(b)
    PROVE  /\ FilesOf(b)' /\ TrueOf(b)'
           /\ UNCHANGED <<results, request, start, groupRan, rows, moved>>
           /\ \A c \in Batches \ {b} : item'[c] = item[c]
<1>1. /\ FilesOf(b) /\ item[b] \in Nat \ {0} /\ N \in Nat /\ item \in [Batches -> Nat \ {0}]
      /\ Len(results[b]) \in Nat
  BY RuntimeAssumption DEF ResultsFollowFiles, ControlInv, DataTypes
<1>2. /\ UNCHANGED <<results, request, start, groupRan, rows, moved>>
      /\ \A c \in Batches \ {b} : item'[c] = item[c]
  BY <1>1 DEF Register, SetShared, Send, Check, PickComponent, Report, Unregister, outside,
              starting, files, steps
<1>3. CASE \/ Register(b) \/ SetShared(b) \/ Send(b) \/ Check(b) \/ Unregister(b)
  <2>1. /\ UNCHANGED item
        /\ worker[b] \notin {"report", "off", "validate"}
        /\ worker'[b] \in {"publish", "send", "check", "begin", "drain", "summarise", "return"}
        /\ \/ worker'[b] \in {"begin", "drain"}
           \/ worker'[b] \in {"publish", "send"} /\ then'[b] = "begin"
           => item[b] <= N
    BY <1>1, <1>3 DEF Register, SetShared, Send, Check, Unregister, Goto, GotoPublish, FilesOf,
                      ControlInv, ControlTypes, steps
  <2> QED  BY <1>1, <1>2, <2>1 DEF FilesOf, TrueOf
<1>4. CASE PickComponent(b)
  <2>1. UNCHANGED item /\ worker[b] = "group" /\ ~groupRan[b] /\ worker'[b] = "rename"
    BY <1>4 DEF PickComponent, Goto, steps, ControlInv, ControlTypes
  <2> QED  BY <1>1, <1>2, <2>1 DEF FilesOf, TrueOf
<1>5. CASE Report(b)
  <2>1. /\ worker[b] = "report" /\ item'[b] = item[b] + 1 /\ worker'[b] = "publish"
        /\ then'[b] = "check"
    BY <1>1, <1>5 DEF Report, GotoPublish, Goto, ControlInv, ControlTypes
  <2> QED  BY <1>1, <1>2, <2>1 DEF FilesOf, TrueOf
<1> QED  BY <1>2, <1>3, <1>4, <1>5

\* A file is begun, or the files that are left are settled.
LEMMA BeginKeepsFiles ==
    ASSUME ControlInv, ResultsFollowFiles, NEW b \in Batches, TrueOf(b), Begin(b)
    PROVE  /\ FilesOf(b)' /\ TrueOf(b)' /\ FileTypes'
           /\ UNCHANGED <<request, start, groupRan, moved, item>>
           /\ \A c \in Batches \ {b} : results'[c] = results[c] /\ rows'[c] = rows[c]
<1>1. /\ FilesOf(b) /\ item[b] \in Nat \ {0} /\ N \in Nat /\ item[b] <= N
      /\ worker[b] = "begin" /\ Len(results[b]) = item[b] - 1
      /\ UNCHANGED <<request, start, groupRan, moved, item, component>>
  BY RuntimeAssumption DEF ResultsFollowFiles, FilesOf, ControlInv, DataTypes, Begin, outside, starting
<1>2. /\ rows' \in [Batches -> [Items -> RowStates]]
      /\ \A c \in Batches \ {b} : rows'[c] = rows[c]
      /\ \A i \in Items : rows'[b][i] = "Completed" <=> rows[b][i] = "Completed"
  BY PreparedRows
<1>3. FileTypes'
  BY <1>1, <1>2 DEF FileTypes, ResultsFollowFiles
<1>4. CASE UNCHANGED results /\ worker'[b] = IF request[b].kind = "Rename" THEN "group" ELSE "run"
  <2>1. FilesOf(b)'
    BY <1>1, <1>2, <1>4 DEF FilesOf
  <2>2. TrueOf(b)'
    BY <1>1, <1>2, <1>4 DEF TrueOf, Items
  <2> QED  BY <1>1, <1>2, <1>3, <1>4, <2>1, <2>2
<1>5. ASSUME NEW r \in {"failed", "skipped", "cancelled"}, Settle(b, r)
      PROVE  /\ FilesOf(b)' /\ TrueOf(b)'
             /\ \A c \in Batches \ {b} : results'[c] = results[c]
  <2>1. r \in Results
    BY DEF Results
  <2>2. /\ Len(results'[b]) = item[b]
        /\ \A i \in 1..Len(results[b]) : results'[b][i] = results[b][i]
        /\ results'[b][item[b]] = r
        /\ worker'[b] = "report"
        /\ \A c \in Batches \ {b} : results'[c] = results[c]
    BY <1>1, <1>5, <2>1, SettleShape DEF ControlInv
  <2>3. FilesOf(b)'
    <3>1. \A i \in 1..item[b] : i = item[b] \/ i \in 1..Len(results[b])
      BY <1>1
    <3>2. request[b].kind = "Rename" /\ ~groupRan[b] =>
              \A i \in 1..item[b] : results'[b][i] # "completed"
      BY <1>1, <2>2, <3>1 DEF FilesOf
    <3>3. request[b].kind # "Rename" =>
              \A i \in Items : i > item[b] => rows'[b][i] # "Completed" /\ i \notin moved[b]
      BY <1>1, <1>2 DEF FilesOf, Items
    <3> QED  BY <1>1, <2>2, <3>2, <3>3 DEF FilesOf
  <2>4. TrueOf(b)'
    <3>1. request[b].kind # "Rename" => rows[b][item[b]] # "Completed" /\ item[b] \notin moved[b]
      BY <1>1 DEF FilesOf, Items
    <3> SUFFICES ASSUME NEW i \in 1..item[b]
                 PROVE  /\ results'[b][i] = "completed" => rows'[b][i] = "Completed"
                        /\ request[b].kind # "Rename" =>
                              /\ rows'[b][i] = "Completed" => results'[b][i] = "completed"
                              /\ results'[b][i] \in {"skipped", "cancelled"} => i \notin moved[b]
      BY <1>1, <2>2 DEF TrueOf
    <3>2. i \in Items /\ (i = item[b] \/ i \in 1..Len(results[b]))
      BY <1>1 DEF Items
    <3>3. CASE i = item[b]
      BY <1>2, <2>2, <3>1, <3>2, <3>3
    <3>4. CASE i \in 1..Len(results[b])
      BY <1>2, <2>2, <3>2, <3>4 DEF TrueOf
    <3> QED  BY <3>2, <3>3, <3>4
  <2> QED  BY <2>2, <2>3, <2>4
<1>6. \/ UNCHANGED results /\ worker'[b] = IF request[b].kind = "Rename" THEN "group" ELSE "run"
      \/ \E r \in {"failed", "skipped", "cancelled"} : Settle(b, r)
  BY DEF Begin, Goto, ControlInv, ControlTypes
<1> QED  BY <1>1, <1>2, <1>3, <1>4, <1>5, <1>6

\* A drained batch has a result for every file, and none of the settled ones was moved.
LEMMA DrainKeepsFiles ==
    ASSUME ControlInv, ResultsFollowFiles, NEW b \in Batches, TrueOf(b), Drain(b)
    PROVE  /\ FilesOf(b)' /\ TrueOf(b)' /\ FileTypes'
           /\ UNCHANGED <<request, start, groupRan, moved>>
           /\ \A c \in Batches \ {b} : /\ results'[c] = results[c] /\ rows'[c] = rows[c]
                                      /\ item'[c] = item[c]
<1>1. /\ FilesOf(b) /\ item[b] \in Nat \ {0} /\ N \in Nat /\ item[b] <= N
      /\ worker[b] = "drain" /\ Len(results[b]) = item[b] - 1
      /\ UNCHANGED <<request, start, groupRan, moved, component>>
      /\ item'[b] = N + 1 /\ \A c \in Batches \ {b} : item'[c] = item[c]
      /\ worker'[b] = "publish" /\ then'[b] = "check"
  <2>1. /\ worker[b] = "drain" /\ UNCHANGED <<outside, component, moved, groupRan>>
        /\ item' = [item EXCEPT ![b] = N + 1] /\ GotoPublish(b, "check")
    BY DEF Drain
  <2>2. FilesOf(b) /\ item[b] <= N /\ Len(results[b]) = item[b] - 1
    BY <2>1 DEF ResultsFollowFiles, FilesOf
  <2>3. item \in [Batches -> Nat \ {0}] /\ N \in Nat
    BY RuntimeAssumption DEF ControlInv, DataTypes
  <2>4. worker'[b] = "publish" /\ then'[b] = "check"
    BY <2>1 DEF ControlInv, ControlTypes, GotoPublish, Goto
  <2> QED  BY <2>1, <2>2, <2>3, <2>4 DEF outside, starting
<1>2. /\ rows' \in [Batches -> [Items -> RowStates]]
      /\ \A c \in Batches \ {b} : rows'[c] = rows[c]
      /\ \A i \in Items : rows'[b][i] = "Completed" <=> rows[b][i] = "Completed"
  BY PreparedRows
<1>3. FileTypes'
  BY <1>1, <1>2 DEF FileTypes, ResultsFollowFiles
<1>4. /\ Len(results'[b]) = N /\ \A c \in Batches \ {b} : results'[c] = results[c]
      /\ \A i \in Items : IF i < item[b] THEN results'[b][i] = results[b][i]
                         ELSE results'[b][i] \in {"cancelled", "failed"}
  BY DrainedResults
<1>5. \A i \in Items : i < item[b] => i \in 1..Len(results[b])
  BY <1>1 DEF Items
<1>6. \A i \in Items : ~(i < item[b]) => i > Len(results[b])
  BY <1>1 DEF Items
<1>7. FilesOf(b)'
  <2>1. request[b].kind = "Rename" /\ ~groupRan[b] =>
            \A i \in 1..N : results'[b][i] # "completed"
    BY <1>1, <1>4, <1>5 DEF FilesOf, Items
  <2>2. \A i \in Items : ~(i > N)
    BY <1>1 DEF Items
  <2> QED  BY <1>1, <1>4, <2>1, <2>2 DEF FilesOf
<1>8. TrueOf(b)'
  <2>1. 1..Len(results'[b]) = Items
    BY <1>4 DEF Items
  <2> SUFFICES ASSUME NEW i \in Items
               PROVE  /\ results'[b][i] = "completed" => rows'[b][i] = "Completed"
                      /\ request[b].kind # "Rename" =>
                            /\ rows'[b][i] = "Completed" => results'[b][i] = "completed"
                            /\ results'[b][i] \in {"skipped", "cancelled"} => i \notin moved[b]
    BY <1>1, <2>1 DEF TrueOf
  <2>2. CASE i < item[b]
    <3>1. i \in 1..Len(results[b]) /\ results'[b][i] = results[b][i]
      BY <1>4, <1>5, <2>2
    <3> QED  BY <1>2, <3>1 DEF TrueOf
  <2>3. CASE ~(i < item[b])
    <3>1. results'[b][i] \in {"cancelled", "failed"} /\ i > Len(results[b])
      BY <1>4, <1>6, <2>3
    <3> QED  BY <1>1, <1>2, <3>1 DEF FilesOf
  <2> QED  BY <2>2, <2>3
<1> QED  BY <1>1, <1>2, <1>3, <1>4, <1>7, <1>8

\* The work on a group of files changes the rows and places of these files only.
LEMMA WorkOnGroup ==
    ASSUME FileTypes, NEW b \in Batches, NEW group \in SUBSET Items, NEW row \in RowStates,
           Work(b, group, row)
    PROVE  /\ rows' \in [Batches -> [Items -> RowStates]] /\ moved' \in [Batches -> SUBSET Items]
           /\ \A c \in Batches \ {b} : rows'[c] = rows[c] /\ moved'[c] = moved[c]
           /\ \A i \in Items : rows'[b][i] = IF i \in group THEN row ELSE rows[b][i]
           /\ moved'[b] = IF row \in {"Completed", "Applied"} THEN moved[b] \cup group ELSE moved[b]
<1>1. rows[b] \in [Items -> RowStates] /\ moved[b] \in SUBSET Items
  BY DEF FileTypes
<1>2. [i \in Items |-> IF i \in group THEN row ELSE rows[b][i]] \in [Items -> RowStates]
  BY <1>1
<1>3. (IF row \in {"Completed", "Applied"} THEN moved[b] \cup group ELSE moved[b]) \in SUBSET Items
  BY <1>1
<1> QED  BY <1>2, <1>3 DEF Work, FileTypes

\* One move, copy or trash is reported as it ended.
LEMMA RunKeepsFiles ==
    ASSUME ControlInv, ResultsFollowFiles, NEW b \in Batches, TrueOf(b), Run(b)
    PROVE  /\ FilesOf(b)' /\ TrueOf(b)' /\ FileTypes'
           /\ UNCHANGED <<request, start, groupRan, item>>
           /\ \A c \in Batches \ {b} : /\ results'[c] = results[c] /\ rows'[c] = rows[c]
                                      /\ moved'[c] = moved[c]
<1>1. /\ FilesOf(b) /\ item[b] \in Nat \ {0} /\ N \in Nat /\ item[b] \in Items
      /\ worker[b] = "run" /\ Len(results[b]) = item[b] - 1 /\ request[b].kind # "Rename"
      /\ UNCHANGED <<request, start, groupRan, item, component>>
  BY RuntimeAssumption DEF ResultsFollowFiles, FilesOf, ControlInv, DataTypes, Run, outside, starting,
                           Items
<1>2. PICK row \in RowStates, r \in Results :
          /\ Work(b, {item[b]}, row) /\ Settle(b, r)
          /\ row = "Completed" <=> r = "completed"
          /\ r # "completed" => r = "failed" \/ row \notin {"Completed", "Applied"}
  BY DEF Run, Completes, RowStates, Over, Results
<1>3. /\ rows' \in [Batches -> [Items -> RowStates]] /\ moved' \in [Batches -> SUBSET Items]
      /\ \A c \in Batches \ {b} : rows'[c] = rows[c] /\ moved'[c] = moved[c]
      /\ \A i \in Items : rows'[b][i] = IF i = item[b] THEN row ELSE rows[b][i]
      /\ moved'[b] = IF row \in {"Completed", "Applied"} THEN moved[b] \cup {item[b]} ELSE moved[b]
  <2> DEFINE group == {item[b]}
  <2>1. FileTypes /\ group \in SUBSET Items /\ Work(b, group, row)
    BY <1>1, <1>2 DEF ResultsFollowFiles
  <2>2. \A i : i \in group <=> i = item[b]
    OBVIOUS
  <2> HIDE DEF group
  <2>3. /\ rows' \in [Batches -> [Items -> RowStates]] /\ moved' \in [Batches -> SUBSET Items]
        /\ \A c \in Batches \ {b} : rows'[c] = rows[c] /\ moved'[c] = moved[c]
        /\ \A i \in Items : rows'[b][i] = IF i \in group THEN row ELSE rows[b][i]
        /\ moved'[b] = IF row \in {"Completed", "Applied"} THEN moved[b] \cup group ELSE moved[b]
    BY <2>1, WorkOnGroup
  <2> QED  BY <2>2, <2>3 DEF group
<1>4. /\ Len(results'[b]) = item[b]
      /\ \A i \in 1..Len(results[b]) : results'[b][i] = results[b][i]
      /\ results'[b][item[b]] = r
      /\ worker'[b] = "report"
      /\ \A c \in Batches \ {b} : results'[c] = results[c]
  BY <1>1, <1>2, SettleShape DEF ControlInv
<1>5. rows[b][item[b]] # "Completed" /\ item[b] \notin moved[b]
  BY <1>1 DEF FilesOf, Items
<1>6. FilesOf(b)'
  <2>1. \A i \in Items : i > item[b] => rows'[b][i] # "Completed" /\ i \notin moved'[b]
    BY <1>1, <1>3 DEF FilesOf, Items
  <2> QED  BY <1>1, <1>4, <2>1 DEF FilesOf, Items
<1>7. TrueOf(b)'
  <2> SUFFICES ASSUME NEW i \in 1..item[b]
               PROVE  /\ results'[b][i] = "completed" => rows'[b][i] = "Completed"
                      /\ rows'[b][i] = "Completed" => results'[b][i] = "completed"
                      /\ results'[b][i] \in {"skipped", "cancelled"} => i \notin moved'[b]
    BY <1>1, <1>4 DEF TrueOf
  <2>1. i \in Items /\ (i = item[b] \/ i \in 1..Len(results[b]))
    BY <1>1 DEF Items
  <2>2. CASE i = item[b]
    BY <1>2, <1>3, <1>4, <1>5, <2>1, <2>2
  <2>3. CASE i # item[b]
    <3>1. i \in 1..Len(results[b])
      BY <2>1, <2>3
    <3>2. /\ results[b][i] = "completed" => rows[b][i] = "Completed"
          /\ rows[b][i] = "Completed" => results[b][i] = "completed"
          /\ results[b][i] \in {"skipped", "cancelled"} => i \notin moved[b]
      BY <1>1, <3>1 DEF TrueOf
    <3> QED  BY <1>3, <1>4, <2>1, <2>3, <3>1, <3>2
  <2> QED  BY <2>2, <2>3
<1>8. FileTypes'
  BY <1>1, <1>3 DEF FileTypes, ResultsFollowFiles
<1> QED  BY <1>1, <1>3, <1>4, <1>6, <1>7, <1>8

\* A rename group runs before any of its files is reported, and each file is reported as
\* its row says.
LEMMA RenameKeepsFiles ==
    ASSUME ControlInv, ResultsFollowFiles, NEW b \in Batches, TrueOf(b),
           RenameComponent(b) \/ RenameOutcome(b)
    PROVE  /\ FilesOf(b)' /\ TrueOf(b)' /\ FileTypes'
           /\ UNCHANGED <<request, start, item>>
           /\ \A c \in Batches \ {b} : /\ results'[c] = results[c] /\ rows'[c] = rows[c]
                                      /\ moved'[c] = moved[c] /\ groupRan'[c] = groupRan[c]
<1>1. /\ FilesOf(b) /\ item[b] \in Nat \ {0} /\ N \in Nat /\ item[b] \in Items
      /\ worker[b] \in {"group", "rename"} /\ Len(results[b]) = item[b] - 1
      /\ request[b].kind = "Rename"
      /\ UNCHANGED <<request, start, item, component>> /\ FileTypes
  <2>1. /\ worker[b] \in {"group", "rename"}
        /\ UNCHANGED <<request, start, item, component>>
    BY DEF RenameComponent, RenameOutcome, outside, starting, steps
  <2>2. /\ FilesOf(b) /\ FileTypes /\ N \in Nat
    BY RuntimeAssumption DEF ResultsFollowFiles
  <2> QED  BY <2>1, <2>2 DEF FilesOf, ControlInv, DataTypes, Items
<1>2. CASE RenameComponent(b)
  <2>1. UNCHANGED <<results, groupRan>> /\ worker[b] = "rename" /\ worker'[b] = "group"
    BY <1>2 DEF RenameComponent, steps, Goto, ControlInv, ControlTypes
  <2> DEFINE group == {i \in Items : ComponentOf[i] = component[b]}
  <2>2. \E row \in RowStates : Work(b, group, row)
    BY <1>2 DEF RenameComponent, RowStates, Over
  <2>3. /\ rows' \in [Batches -> [Items -> RowStates]] /\ moved' \in [Batches -> SUBSET Items]
        /\ \A c \in Batches \ {b} : rows'[c] = rows[c] /\ moved'[c] = moved[c]
    <3>1. group \in SUBSET Items
      OBVIOUS
    <3> HIDE DEF group
    <3> QED  BY <1>1, <2>2, <3>1, WorkOnGroup
  <2>4. ~groupRan[b] /\ \A i \in 1..Len(results[b]) : results[b][i] # "completed"
    BY <1>1, <2>1 DEF FilesOf
  <2>5. FilesOf(b)'
    BY <1>1, <2>1, <2>4 DEF FilesOf
  <2>6. TrueOf(b)'
    BY <1>1, <2>1, <2>4 DEF TrueOf
  <2> QED  BY <1>1, <2>1, <2>3, <2>5, <2>6 DEF FileTypes
<1>3. CASE RenameOutcome(b)
  <2>1. /\ UNCHANGED <<rows, moved>> /\ groupRan' = [groupRan EXCEPT ![b] = TRUE]
        /\ \E r \in {"completed", "failed"} :
              Settle(b, r) /\ (r = "completed" => rows[b][item[b]] = "Completed")
    BY <1>3 DEF RenameOutcome
  <2>2. PICK r \in {"completed", "failed"} :
              Settle(b, r) /\ (r = "completed" => rows[b][item[b]] = "Completed")
    BY <2>1
  <2>3. r \in Results
    BY DEF Results
  <2>4. /\ Len(results'[b]) = item[b]
        /\ \A i \in 1..Len(results[b]) : results'[b][i] = results[b][i]
        /\ results'[b][item[b]] = r
        /\ worker'[b] = "report"
        /\ \A c \in Batches \ {b} : results'[c] = results[c]
    BY <1>1, <2>2, <2>3, SettleShape DEF ControlInv
  <2>5. FilesOf(b)'
    BY <1>1, <2>1, <2>4 DEF FilesOf, FileTypes, Items
  <2>6. TrueOf(b)'
    <3>1. \A i \in 1..item[b] : i = item[b] \/ i \in 1..Len(results[b])
      BY <1>1
    <3> QED  BY <1>1, <2>1, <2>2, <2>4, <3>1 DEF TrueOf
  <2>7. FileTypes' /\ \A c \in Batches \ {b} : groupRan'[c] = groupRan[c]
    BY <1>1, <2>1 DEF FileTypes
  <2> QED  BY <1>1, <2>1, <2>4, <2>5, <2>6, <2>7
<1> QED  BY <1>2, <1>3

\* What the work on the files does, for all batches together.
LEMMA InsideKeepsFiles ==
    ASSUME ControlInv, ResultsFollowFiles, \A c \in Batches : TrueOf(c),
           NEW b \in Batches, InsideStep(b)
    PROVE  ResultsFollowFiles' /\ \A c \in Batches : TrueOf(c)'
<1>1. \A c \in Batches \ {b} : worker'[c] = worker[c] /\ then'[c] = then[c]
  BY InsideShape DEF ControlInv
<1>2. /\ FilesOf(b)' /\ TrueOf(b)' /\ FileTypes' /\ UNCHANGED <<request, start>>
      /\ \A c \in Batches \ {b} : /\ results'[c] = results[c] /\ item'[c] = item[c]
                                 /\ groupRan'[c] = groupRan[c] /\ rows'[c] = rows[c]
                                 /\ moved'[c] = moved[c]
  <2>1. CASE \/ Register(b) \/ SetShared(b) \/ Send(b) \/ Check(b) \/ PickComponent(b)
             \/ Report(b) \/ Unregister(b)
    <3>1. DOMAIN component' = Batches
      BY <2>1 DEF ResultsFollowFiles, FileTypes, Register, SetShared, Send, Check, PickComponent,
                  Report, Unregister, files
    <3> QED  BY <2>1, <3>1, StepsKeepFiles DEF FileTypes, ResultsFollowFiles
  <2>2. CASE Begin(b)
    BY <2>2, BeginKeepsFiles
  <2>3. CASE Drain(b)
    BY <2>3, DrainKeepsFiles
  <2>4. CASE Run(b)
    BY <2>4, RunKeepsFiles
  <2>5. CASE RenameComponent(b) \/ RenameOutcome(b)
    BY <2>5, RenameKeepsFiles
  <2> QED  BY <2>1, <2>2, <2>3, <2>4, <2>5 DEF InsideStep
<1>3. ASSUME NEW c \in Batches \ {b}
      PROVE  FilesOf(c)' /\ TrueOf(c)'
  <2>1. SameFiles(c)
    BY <1>1, <1>2 DEF SameFiles
  <2> QED  BY <2>1, SameFilesKeep DEF ResultsFollowFiles
<1> QED  BY <1>2, <1>3 DEF ResultsFollowFiles

\* No step makes a result untrue.
LEMMA FilesStep ==
    ASSUME ControlInv, ResultsFollowFiles, \A c \in Batches : TrueOf(c), [Next]_vars
    PROVE  ResultsFollowFiles' /\ \A c \in Batches : TrueOf(c)'
<1> DEFINE Kept == UNCHANGED <<results, item, groupRan, rows, then, component>>
           Moved == /\ moved' \in [Batches -> SUBSET Items]
                    /\ \A c \in Batches : moved'[c] \subseteq moved[c]
           Asked == \A c \in Batches :
                       /\ \/ request'[c] = request[c]
                          \/ start[c] = "new" /\ start'[c] # "new"
                       /\ start'[c] = "new" => start[c] = "new" /\ request'[c] = request[c]
           Walked == \A c \in Batches :
                       \/ worker'[c] = worker[c]
                       \/ /\ worker[c] \notin {"publish", "send", "report"}
                          /\ worker'[c] \in {"wantLane", "register", "join", "unregister"} \cup Ended
                       \/ worker[c] = "off" /\ worker'[c] = "validate"
<1>1. ASSUME Kept, Moved, Asked, Walked, DOMAIN request' = Batches
      PROVE  ResultsFollowFiles' /\ \A c \in Batches : TrueOf(c)'
  <2>1. \A c \in Batches : FilesOf(c)' /\ TrueOf(c)'
    BY <1>1, OutsideKeepsFiles DEF ResultsFollowFiles
  <2> QED  BY <1>1, <2>1 DEF ResultsFollowFiles, FileTypes
<1>2. UNCHANGED moved => Moved
  BY DEF ResultsFollowFiles, FileTypes
<1>3. UNCHANGED <<request, start>> => Asked /\ DOMAIN request' = Batches
  BY DEF ResultsFollowFiles, FileTypes
<1>4. UNCHANGED worker => Walked
  OBVIOUS
<1>5. ASSUME NEW b \in Batches, Starting(b) \/ \E r \in Requests : Start(b, r)
      PROVE  ResultsFollowFiles' /\ \A c \in Batches : TrueOf(c)'
  <2>1. Kept /\ Moved
    BY <1>2, <1>5 DEF Starting, Start, PassGate, TryLane, Preflight, Admit, Announce, batchWork,
                 working, steps, files
  <2>2. Asked /\ DOMAIN request' = Batches
    <3>1. CASE Starting(b)
      BY <3>1 DEF Starting, PassGate, TryLane, Preflight, Admit, Announce, StartAt, ControlInv,
                  ControlTypes, ResultsFollowFiles, FileTypes
    <3>2. CASE \E r \in Requests : Start(b, r)
      BY <3>2 DEF Start, ControlInv, ControlTypes, ResultsFollowFiles, FileTypes
    <3> QED  BY <1>5, <3>1, <3>2
  <2>3. Walked
    <3>1. CASE Announce(b)
      <4>1. worker[b] = "off"
        BY <3>1 DEF Announce, ControlInv, OneBatchAtATime
      <4> QED  BY <3>1, <4>1 DEF Announce, ControlInv, ControlTypes
    <3>2. CASE ~Announce(b)
      BY <1>5, <3>2 DEF Starting, Start, PassGate, TryLane, Preflight, Admit, batchWork, working
    <3> QED  BY <3>1, <3>2
  <2> HIDE DEF Kept, Moved, Asked, Walked
  <2> QED  BY <1>1, <2>1, <2>2, <2>3
<1>6. ASSUME NEW b \in Batches,
             \/ Forwarding(b) \/ CancelCheck(b) \/ CancelSend(b)
             \/ Validate(b) \/ TakeLane(b) \/ Summarise(b) \/ Return(b) \/ Ending(b)
      PROVE  ResultsFollowFiles' /\ \A c \in Batches : TrueOf(c)'
  <2>1. Kept /\ Moved /\ Asked /\ DOMAIN request' = Batches
    BY <1>2, <1>3, <1>6 DEF Forwarding, Take, Forward, StopForwarder, CancelCheck, CancelSend,
          Validate, TakeLane, Summarise, Return, Ending, Join, Store, ClearActive, AnnounceEnd,
          MarkComplete, working, steps, files, starting, outside
  <2>2. Walked
    BY <1>6 DEF Forwarding, Take, Forward, StopForwarder, CancelCheck, CancelSend,
          Validate, TakeLane, Summarise, Return, Ending, Join, Store, ClearActive, AnnounceEnd,
          MarkComplete, working, Goto, ControlInv, ControlTypes, Ended
  <2> HIDE DEF Kept, Moved, Asked, Walked
  <2> QED  BY <1>1, <2>1, <2>2
<1>7. CASE RequestClose \/ Closing \/ UndoCall \/ Undoing \/ UNCHANGED vars
  <2>1. Kept /\ Asked /\ Walked /\ DOMAIN request' = Batches
    BY <1>3, <1>4, <1>7 DEF RequestClose, Closing, CloseCancel, CloseRequest, CloseWait, TakeSession,
          Revoke, ReadActive, CloseLane, CloseUndo, UndoCall, Undoing, UndoLane, UndoReverse, vars,
          batchWork, working, steps, files, starting
  <2>2. Moved
    <3>1. CASE UndoReverse
      <4> DEFINE d == stack[Len(stack)]
      <4>1. PICK left : left \subseteq moved[d] /\ moved' = [moved EXCEPT ![d] = left]
        BY <3>1 DEF UndoReverse
      <4> HIDE DEF d
      <4> QED  BY <4>1 DEF ResultsFollowFiles, FileTypes
    <3>2. CASE ~UndoReverse
      BY <1>2, <1>7, <3>2 DEF RequestClose, Closing, CloseCancel, CloseRequest, CloseWait, TakeSession,
          Revoke, ReadActive, CloseLane, CloseUndo, UndoCall, Undoing, UndoLane, vars,
          batchWork, files
    <3> QED  BY <3>1, <3>2
  <2> HIDE DEF Kept, Moved, Asked, Walked
  <2> QED  BY <1>1, <2>1, <2>2
<1>8. ASSUME NEW b \in Batches, Executing(b)
      PROVE  InsideStep(b) \/ Validate(b) \/ TakeLane(b) \/ Summarise(b) \/ Return(b)
  BY <1>8 DEF Executing, InsideStep
<1> HIDE DEF Kept, Moved, Asked, Walked
<1> QED  BY <1>5, <1>6, <1>7, <1>8, InsideKeepsFiles DEF Next

-----------------------------------------------------------------------------
(* Cancellation. *)

\* A step that leaves the service's cancellations alone and takes no batch back to where
\* it has not registered keeps them.
LEMMA SameCancellations ==
    ASSUME CancellationIsKept, UNCHANGED <<svcActive, intents, cancelled, asked>>,
           cancelling' \subseteq Batches,
           \A b \in Batches : (Registered(b)' => Registered(b)) /\ (Early(b)' => Early(b))
    PROVE  CancellationIsKept'
<1>1. \A b \in Batches : Early(b) => ~Registered(b)
  BY DEF Early, Registered, Inside
<1> QED  BY <1>1 DEF CancellationIsKept

\* request_cancel, wherever the batch is.
LEMMA RequestCancelKeeps ==
    ASSUME CancellationIsKept, NEW b \in Batches, RequestCancel(b), cancelling' \subseteq Batches,
           UNCHANGED <<worker, then>>
    PROVE  CancellationIsKept'
<1>1. \A c \in Batches : (Registered(c)' <=> Registered(c)) /\ (Early(c)' <=> Early(c))
  BY DEF Registered, Early
<1>2. /\ asked' = asked \cup {b} /\ svcActive' = svcActive
      /\ IF svcActive = b THEN cancelled' = cancelled \cup {b} /\ UNCHANGED intents
                          ELSE intents' = intents \cup {b} /\ UNCHANGED cancelled
  BY DEF RequestCancel
<1> HIDE DEF Registered, Early
<1>3. \A c \in asked' : c \in Batches /\ (c = b \/ c \in asked)
  BY <1>2 DEF CancellationIsKept
<1> QED  BY <1>1, <1>2, <1>3 DEF CancellationIsKept

\* No step loses a cancellation.
LEMMA CancellationStep ==
    ASSUME ControlInv, CancellationIsKept, [Next]_vars
    PROVE  CancellationIsKept'
<1>1. ASSUME NEW b \in Batches, InsideStep(b)
      PROVE  CancellationIsKept'
  <2>1. /\ UNCHANGED <<asked, cancelling>> /\ worker[b] \in Inside /\ worker'[b] \in Inside
        /\ worker[b] \in {"publish", "send"} <=> then[b] # "off"
        /\ worker'[b] \in {"publish", "send"} <=> then'[b] # "off"
        /\ \A c \in Batches \ {b} : worker'[c] = worker[c] /\ then'[c] = then[c]
    BY <1>1, InsideShape DEF outside, cancels, ControlInv, ControlTypes
  <2>2. \A c \in Batches \ {b} : worker[c] \notin Inside /\ ~Registered(c)
    BY <2>1 DEF ControlInv, LaneIsExclusive, Registered
  <2>3. \A c \in Batches \ {b} : (Registered(c)' <=> Registered(c)) /\ (Early(c)' <=> Early(c))
    BY <2>1 DEF Registered, Early
  <2>4. CASE Register(b)
    <3>1. /\ svcActive' = b /\ intents' = intents \ {b}
          /\ cancelled' = cancelled \cup (intents \cap {b})
          /\ worker[b] = "register" /\ worker'[b] = "publish" /\ then'[b] = "check"
      BY <2>4 DEF Register, Goto, GotoPublish, ControlInv, ControlTypes
    <3>2. Early(b) /\ ~Registered(b) /\ ~Early(b)' /\ Registered(b)'
      BY <3>1 DEF Early, Registered, Inside
    <3> HIDE DEF Early, Registered
    <3>3. \A c \in asked : \/ c \in cancelled' \/ (c \in intents' /\ Early(c)')
                          \/ ~(Early(c)' \/ Registered(c)')
      BY <2>3, <3>1, <3>2 DEF CancellationIsKept
    <3> QED  BY <2>1, <2>2, <2>3, <3>1, <3>2, <3>3 DEF CancellationIsKept
  <2>5. CASE Unregister(b)
    <3>1. /\ svcActive' = (IF svcActive = b THEN NoBatch ELSE svcActive)
          /\ UNCHANGED <<intents, cancelled>> /\ then'[b] = "return" /\ worker'[b] = "publish"
          /\ worker[b] = "unregister"
      BY <2>5 DEF Unregister, Goto, GotoPublish, ControlInv, ControlTypes
    <3>2. ~Registered(b)' /\ ~Early(b)' /\ ~Early(b)
      BY <3>1 DEF Registered, Early
    <3> QED  BY <2>1, <2>2, <2>3, <3>1, <3>2 DEF CancellationIsKept
  <2>6. CASE ~Register(b) /\ ~Unregister(b)
    <3>1. UNCHANGED <<svcActive, intents, cancelled>>
      BY <1>1, <2>6 DEF InsideStep, SetShared, Send, Check, Drain, Begin, Run, PickComponent,
                        RenameComponent, RenameOutcome, Report, service
    <3>2. worker[b] # "register" /\ ~Early(b)' /\ ~Early(b)
      <4>1. worker[b] # "register" /\ worker'[b] # "register"
        BY <1>1, <2>6 DEF InsideStep, SetShared, Send, Check, Drain, Begin, Run, PickComponent,
                        RenameComponent, RenameOutcome, Report, Settle, Completes, Goto, GotoPublish,
                        ControlInv, ControlTypes
      <4> QED  BY <2>1, <4>1 DEF Early, Inside
    <3>3. Registered(b)' => Registered(b)
      <4>1. CASE Send(b)
        <5>1. worker[b] = "send" /\ worker'[b] = then[b]
          BY <4>1 DEF Send, Goto, ControlInv, ControlTypes
        <5> QED  BY <5>1 DEF Registered, Inside
      <4>2. CASE SetShared(b)
        <5>1. worker[b] = "publish" /\ then' = then
          BY <4>2 DEF SetShared
        <5> QED  BY <5>1 DEF Registered, Inside
      <4>3. CASE ~Send(b) /\ ~SetShared(b)
        <5>1. worker[b] \in {"check", "drain", "begin", "run", "group", "rename", "report"}
          BY <1>1, <2>6, <4>3 DEF InsideStep, Check, Drain, Begin, Run, PickComponent,
                        RenameComponent, RenameOutcome, Report
        <5> QED  BY <2>1, <5>1 DEF Registered, Inside
      <4> QED  BY <4>1, <4>2, <4>3
    <3> QED  BY <2>1, <2>3, <3>1, <3>2, <3>3, SameCancellations DEF CancellationIsKept
  <2> QED  BY <2>4, <2>5, <2>6
<1>2. ASSUME NEW b \in Batches,
             \/ Starting(b) \/ Forwarding(b) \/ CancelCheck(b) \/ (\E r \in Requests : Start(b, r))
             \/ Validate(b) \/ TakeLane(b) \/ Summarise(b) \/ Return(b) \/ Ending(b)
      PROVE  CancellationIsKept'
  <2>1. /\ UNCHANGED <<svcActive, intents, cancelled, asked, then>> /\ cancelling' \subseteq Batches
        /\ \A c \in Batches \ {b} : worker'[c] = worker[c]
    <3>1. UNCHANGED <<svcActive, intents, cancelled, asked, then>>
          /\ cancelling' \in {cancelling, cancelling \cup {b}}
      BY <1>2 DEF Starting, Start, PassGate, TryLane, Preflight, Admit, Announce, Forwarding, Take,
         Forward, StopForwarder, CancelCheck, Validate, TakeLane, Summarise, Return, Ending, Join,
         Store, ClearActive, AnnounceEnd, MarkComplete, outside, batchWork, service, cancels, working
    <3>2. \A c \in Batches \ {b} : worker'[c] = worker[c]
      BY <1>2 DEF Starting, Start, PassGate, TryLane, Preflight, Admit, Announce, Forwarding, Take,
         Forward, StopForwarder, CancelCheck, Validate, TakeLane, Summarise, Return, Ending, Join,
         Store, ClearActive, AnnounceEnd, MarkComplete, batchWork, working, Goto,
         ControlInv, ControlTypes
    <3> QED  BY <3>1, <3>2 DEF CancellationIsKept
  <2>2. \/ worker'[b] = worker[b]
        \/ worker[b] \in {"off", "validate", "wantLane"} /\ worker'[b] \in {"validate", "wantLane", "register"}
        \/ worker'[b] \in {"unregister", "join"} \cup Ended
    BY <1>2 DEF Starting, Start, PassGate, TryLane, Preflight, Admit, Announce, Forwarding, Take,
         Forward, StopForwarder, CancelCheck, Validate, TakeLane, Summarise, Return, Ending, Join,
         Store, ClearActive, AnnounceEnd, MarkComplete, batchWork, working, Goto,
         ControlInv, ControlTypes, OneBatchAtATime, Ended
  <2>3. worker'[b] = "unregister" => worker[b] \in {"unregister", "summarise"}
    BY <1>2 DEF Starting, Start, PassGate, TryLane, Preflight, Admit, Announce, Forwarding, Take,
         Forward, StopForwarder, CancelCheck, Validate, TakeLane, Summarise, Return, Ending, Join,
         Store, ClearActive, AnnounceEnd, MarkComplete, batchWork, working, Goto,
         ControlInv, ControlTypes
  <2>4. \A c \in Batches : (Registered(c)' => Registered(c)) /\ (Early(c)' => Early(c))
    <3>1. \A c \in Batches \ {b} : (Registered(c)' => Registered(c)) /\ (Early(c)' => Early(c))
      BY <2>1 DEF Registered, Early
    <3>2. worker[b] = "summarise" => then[b] # "return"
      BY DEF ControlInv, ControlTypes
    <3>3. (Registered(b)' => Registered(b)) /\ (Early(b)' => Early(b))
      BY <2>1, <2>2, <2>3, <3>2 DEF Registered, Early, Inside, Ended
    <3> QED  BY <3>1, <3>3
  <2> QED  BY <2>1, <2>4, SameCancellations
<1>3. CASE RequestClose \/ (Closing /\ ~CloseRequest) \/ UndoCall \/ Undoing \/ UNCHANGED vars
  <2>1. UNCHANGED <<svcActive, intents, cancelled, asked, cancelling, worker, then>>
    BY <1>3 DEF RequestClose, Closing, CloseCancel, CloseWait, TakeSession, Revoke, ReadActive,
          CloseLane, CloseUndo, UndoCall, Undoing, UndoLane, UndoReverse, vars, batchWork, service,
          cancels, working
  <2>2. cancelling' \subseteq Batches /\ \A b \in Batches : (Registered(b)' => Registered(b)) /\ (Early(b)' => Early(b))
    BY <2>1 DEF Registered, Early, CancellationIsKept
  <2> QED  BY <2>1, <2>2, SameCancellations
<1>4. CASE CloseRequest
  <2>1. target \in Batches /\ RequestCancel(target) /\ UNCHANGED <<cancelling, worker, then>>
    BY <1>4 DEF CloseRequest, ControlInv, CloseWaitsForTheLast, working
  <2> QED  BY <2>1, RequestCancelKeeps DEF CancellationIsKept
<1>5. ASSUME NEW b \in Batches, CancelSend(b)
      PROVE  CancellationIsKept'
  <2>1. RequestCancel(b) /\ cancelling' \subseteq cancelling /\ UNCHANGED <<worker, then>>
    BY <1>5 DEF CancelSend, working
  <2> QED  BY <2>1, RequestCancelKeeps DEF CancellationIsKept
<1>6. ASSUME NEW b \in Batches, Executing(b)
      PROVE  InsideStep(b) \/ Validate(b) \/ TakeLane(b) \/ Summarise(b) \/ Return(b)
  BY <1>6 DEF Executing, InsideStep
<1> HIDE DEF CancellationIsKept
<1> QED  BY <1>1, <1>2, <1>3, <1>4, <1>5, <1>6 DEF Next

-----------------------------------------------------------------------------
(* The invariant and the theorems. *)

\* What the control's steps keep, whoever takes them.
LEMMA ControlStep ==
    ASSUME ControlInv, ResultsFollowFiles, [Next]_vars
    PROVE  ControlInv'
<1>1. ASSUME NEW b \in Batches, InsideStep(b)
      PROVE  ControlInv'
  BY <1>1, WorkKeepsTypes, InsideKeeps
<1>2. ASSUME NEW b \in Batches, Executing(b)
      PROVE  InsideStep(b) \/ Validate(b) \/ TakeLane(b) \/ Summarise(b) \/ Return(b)
  BY <1>2 DEF Executing, InsideStep
<1> QED  BY <1>1, <1>2, StartingKeeps, ForwardingKeeps, AroundTheWorkKeeps, EndingKeeps, RestKeeps
         DEF Next

\* ResultsAreTrue is a statement about each batch.
LEMMA TruthOfEach ==
    ASSUME results \in [Batches -> Seq(Results)]
    PROVE  ResultsAreTrue <=> \A b \in Batches : TrueOf(b)
<1>1. \A b \in Batches : DOMAIN results[b] = 1..Len(results[b])
  OBVIOUS
<1> QED  BY <1>1 DEF ResultsAreTrue, TrueOf

\* The invariant holds at the start.
LEMMA InitIInv ==
    ASSUME Init
    PROVE  IInv
<1> USE DEF Init
<1>1. Queued \in Progresses /\ Queued.life = "Queued"
  BY DEF Queued, Progresses, Lives
<1>2. ControlTypes
  <2>1. order \in Seq(Batches) /\ stack \in Seq(Batches)
    BY EmptySeq
  <2> QED  BY <2>1 DEF ControlTypes, CloseSteps, StartSteps, WorkerSteps
<1>3. DataTypes
  <2>1. results \in [Batches -> Seq(Results)]
    BY EmptySeq
  <2>2. record \in [Batches -> Records] /\ shown \in [Batches -> Events]
    BY DEF Records, Events, Lives
  <2>3. channel \in [Batches -> [value : Progresses, fresh : BOOLEAN]]
    BY <1>1
  <2> QED  BY <1>1, <2>1, <2>2, <2>3 DEF DataTypes, Lives
<1>4. OneBatchAtATime /\ LaneIsExclusive /\ CloseWaitsForTheLast /\ EndsInOrder
  BY DEF OneBatchAtATime, LaneIsExclusive, CloseWaitsForTheLast, EndsInOrder, Zone, Inside, Ended
<1>5. CancellationIsKept
  BY DEF CancellationIsKept, Registered, Inside
<1>6. \A b \in Batches : results[b] = <<>> /\ Len(results[b]) = 0
  OBVIOUS
<1>7. ResultsFollowFiles
  <2>1. FileTypes
    BY DEF FileTypes, RowStates
  <2>2. ASSUME NEW b \in Batches
        PROVE  FilesOf(b)
    <3>1. N \in Nat \ {0} /\ request[b].kind = "none" /\ item[b] = 1 /\ worker[b] = "off"
      BY RuntimeAssumption DEF NoRequest
    <3> QED  BY <1>6, <3>1 DEF FilesOf
  <2> QED  BY <2>1, <2>2 DEF ResultsFollowFiles
<1>8. ResultsAreTrue
  <2>1. \A b \in Batches : DOMAIN results[b] = {}
    OBVIOUS
  <2> QED  BY <2>1 DEF ResultsAreTrue
<1> QED  BY <1>2, <1>3, <1>4, <1>5, <1>7, <1>8 DEF IInv, ControlInv

\* Every step keeps the invariant.
LEMMA StepIInv ==
    ASSUME IInv, [Next]_vars
    PROVE  IInv'
<1>1. ControlInv /\ CancellationIsKept /\ ResultsFollowFiles /\ ResultsAreTrue
  BY DEF IInv
<1>2. ControlInv' /\ CancellationIsKept'
  BY <1>1, ControlStep, CancellationStep
<1>3. \A b \in Batches : TrueOf(b)
  BY <1>1, TruthOfEach DEF ControlInv, DataTypes
<1>4. ResultsFollowFiles' /\ \A b \in Batches : TrueOf(b)'
  BY <1>1, <1>3, FilesStep
<1>5. \A b \in Batches : (DOMAIN results[b])' = 1..Len(results'[b])
  BY <1>2 DEF ControlInv, DataTypes
<1>6. ResultsAreTrue'
  BY <1>4, <1>5 DEF ResultsAreTrue, TrueOf
<1> QED  BY <1>2, <1>4, <1>6 DEF IInv

\* The inductive invariant of the runtime: one batch at a time, the write lane shared by
\* preflight, work, undo and close (runtime.rs:46-131, session.rs:436-509), the order in which a
\* batch ends (runtime.rs:132-178), cancellations that are not lost
\* (file_commands.rs:591-640), and the results of the files before the current one.
THEOREM RuntimeInvariant == Spec => []IInv
<1>1. Init => IInv
  BY InitIInv
<1>2. IInv /\ [Next]_vars => IInv'
  BY StepIInv
<1> QED  BY <1>1, <1>2, PTL DEF Spec

\* Whoever is told that a batch has ended finds its results stored and the runtime ready
\* for the next batch.
THEOREM EndedAlwaysMeansReady == Spec => []EndedMeansReady
<1>1. IInv => EndedMeansReady
  <2> SUFFICES ASSUME IInv, NEW b \in Batches, record[b].complete \/ shown[b].ends > 0
               PROVE  record[b].result # "none" /\ record[b].life = "Completed" /\ active # b
    BY DEF EndedMeansReady
  <2>1. worker[b] \in {"mark", "done"}
    BY DEF IInv, ControlInv, EndsInOrder
  <2> QED  BY <2>1 DEF IInv, ControlInv, EndsInOrder, OneBatchAtATime, Ended
<1> QED  BY <1>1, RuntimeInvariant, PTL

\* What a batch reports of a file is what the journal and the folder say of it.
THEOREM ResultsAlwaysTrue == Spec => []ResultsAreTrue
<1>1. IInv => ResultsAreTrue
  BY DEF IInv
<1> QED  BY <1>1, RuntimeInvariant, PTL

\* Once a cancellation was taken no work on another file or group begins.
THEOREM CancelAlwaysStopsTheRest == Spec => CancelStopsTheRest
<1>1. IInv /\ [Next]_vars =>
          [\A b \in asked : worker'[b] \in {"run", "rename"} => worker'[b] = worker[b]]_vars
  <2> SUFFICES ASSUME IInv, [Next]_vars, NEW b \in asked,
                      worker'[b] \in {"run", "rename"}, worker'[b] # worker[b]
               PROVE  FALSE
    OBVIOUS
  <2>1. b \in Batches /\ ControlInv /\ CancellationIsKept
    BY DEF IInv, CancellationIsKept
  <2>2. PICK c \in Batches : InsideStep(c)
    <3>1. ASSUME NEW c \in Batches,
                 Starting(c) \/ Forwarding(c) \/ CancelCheck(c) \/ CancelSend(c) \/ Ending(c)
                   \/ (\E r \in Requests : Start(c, r))
          PROVE  FALSE
      BY <2>1, <3>1 DEF Starting, Start, PassGate, TryLane, Preflight, Admit, Announce, Forwarding, Take,
         Forward, StopForwarder, CancelCheck, CancelSend, Ending, Join, Store, ClearActive,
         AnnounceEnd, MarkComplete, outside, batchWork, working, Goto, ControlInv, ControlTypes
    <3>2. ASSUME NEW c \in Batches, Validate(c) \/ TakeLane(c) \/ Summarise(c) \/ Return(c)
          PROVE  FALSE
      BY <2>1, <3>2 DEF Validate, TakeLane, Summarise, Return, Goto, ControlInv, ControlTypes
    <3>3. ~(RequestClose \/ Closing \/ UndoCall \/ Undoing \/ UNCHANGED vars)
      BY DEF RequestClose, Closing, CloseCancel, CloseRequest, CloseWait, TakeSession,
          Revoke, ReadActive, CloseLane, CloseUndo, UndoCall, Undoing, UndoLane, UndoReverse, vars,
          batchWork, working
    <3>4. ASSUME NEW c \in Batches, Executing(c)
          PROVE  InsideStep(c)
      BY <3>2, <3>4 DEF Executing, InsideStep
    <3> QED  BY <3>1, <3>3, <3>4 DEF Next
  <2>3. c = b
    BY <2>1, <2>2, InsideShape DEF ControlInv
  <2>4. /\ worker[b] \in {"begin", "group"} /\ b \notin cancelled
    <3>1. CASE Begin(b)
      BY <2>1, <3>1 DEF Begin, Settle, Goto, ControlInv, ControlTypes
    <3>2. CASE PickComponent(b)
      BY <3>2 DEF PickComponent, GroupGoesOn
    <3>3. CASE Send(b)
      BY <2>1, <3>3 DEF Send, Goto, ControlInv, ControlTypes
    <3>4. CASE InsideStep(b) /\ ~Begin(b) /\ ~PickComponent(b) /\ ~Send(b)
      BY <2>1, <3>4 DEF InsideStep, Register, SetShared, Check, Drain, Run, RenameComponent,
           RenameOutcome, Report, Unregister, Settle, Completes, Goto, GotoPublish,
           ControlInv, ControlTypes
    <3> QED  BY <2>2, <2>3, <3>1, <3>2, <3>3, <3>4
  <2>5. ~Early(b) /\ Registered(b)
    BY <2>1, <2>4 DEF Early, Registered, Inside, ControlInv, ControlTypes
  <2> QED  BY <2>1, <2>4, <2>5 DEF CancellationIsKept
<1> QED  BY <1>1, RuntimeInvariant, PTL DEF Spec, CancelStopsTheRest

\* The last event and the last status of a batch stay, and once the project is closed its
\* files, their journal and the undo stack are left alone.
THEOREM EndAlwaysFinal == Spec => EndIsFinal
<1>1. ASSUME IInv, [Next]_vars, NEW b \in Batches
      PROVE  /\ shown[b].life = "Completed" => shown'[b] = shown[b]
             /\ record[b].life = "Completed" => record'[b].life = "Completed"
  <2>1. ControlTypes /\ DataTypes /\ OneBatchAtATime /\ EndsInOrder
    BY <1>1 DEF IInv, ControlInv
  <2>2. ASSUME NEW c \in Batches, Admit(c) \/ Announce(c) \/ Forward(c) \/ Ending(c)
        PROVE  /\ shown[b].life = "Completed" => shown'[b] = shown[b]
               /\ record[b].life = "Completed" => record'[b].life = "Completed"
    <3>1. CASE Admit(c)
      <4>1. worker[c] = "off" /\ record[c].life # "Completed" /\ UNCHANGED shown
        BY <2>1, <3>1 DEF Admit, OneBatchAtATime, EndsInOrder, Ended
      <4> QED  BY <2>1, <3>1, <4>1 DEF Admit, DataTypes
    <3>2. CASE Announce(c)
      <4>1. worker[c] = "off" /\ shown[c].life # "Completed" /\ UNCHANGED record
        BY <2>1, <3>2 DEF Announce, OneBatchAtATime, EndsInOrder, runtime
      <4> QED  BY <2>1, <3>2, <4>1 DEF Announce, Emit, DataTypes
    <3>3. CASE Forward(c)
      <4>1. shown[c].life # "Completed" /\ record[c].life # "Completed"
        BY <2>1, <3>3 DEF Forward, EndsInOrder, Ended
      <4> QED  BY <2>1, <3>3, <4>1 DEF Forward, Emit, DataTypes
    <3>4. CASE Ending(c)
      <4>1. CASE Join(c) \/ Store(c) \/ ClearActive(c) \/ MarkComplete(c)
        <5>1. UNCHANGED shown
          BY <4>1 DEF Join, Store, ClearActive, MarkComplete, outside
        <5>2. record[b].life = "Completed" => record'[b].life = "Completed"
          <6>1. CASE Join(c)
            BY <2>1, <6>1 DEF Join, Final, DataTypes
          <6>2. CASE Store(c)
            BY <2>1, <6>2 DEF Store, DataTypes
          <6>3. CASE ClearActive(c)
            BY <6>3 DEF ClearActive
          <6>4. CASE MarkComplete(c)
            BY <2>1, <6>4 DEF MarkComplete, DataTypes
          <6> QED  BY <4>1, <6>1, <6>2, <6>3, <6>4
        <5> QED  BY <5>1, <5>2
      <4>2. CASE AnnounceEnd(c)
        <5>1. worker[c] = "announce" /\ shown[c].life # "Completed" /\ UNCHANGED record
          BY <2>1, <4>2 DEF AnnounceEnd, EndsInOrder, runtime
        <5> QED  BY <2>1, <4>2, <5>1 DEF AnnounceEnd, Emit, DataTypes
      <4> QED  BY <3>4, <4>1, <4>2 DEF Ending
    <3> QED  BY <2>2, <3>1, <3>2, <3>3, <3>4
  <2>3. ASSUME NEW c \in Batches,
               \/ InsideStep(c) \/ Validate(c) \/ TakeLane(c) \/ Summarise(c) \/ Return(c)
               \/ PassGate(c) \/ TryLane(c) \/ Preflight(c) \/ (\E r \in Requests : Start(c, r))
               \/ Take(c) \/ StopForwarder(c) \/ CancelCheck(c) \/ CancelSend(c)
        PROVE  UNCHANGED <<shown, record>>
    <3>1. CASE InsideStep(c)
      BY <2>1, <3>1, InsideShape DEF outside, runtime
    <3> QED  BY <2>3, <3>1 DEF Validate, TakeLane, Summarise, Return, PassGate, TryLane, Preflight,
                 Start, Take, StopForwarder, CancelCheck, CancelSend, outside, runtime, batchWork
  <2>4. RequestClose \/ Closing \/ UndoCall \/ Undoing \/ UNCHANGED vars => UNCHANGED <<shown, record>>
    BY DEF RequestClose, Closing, CloseCancel, CloseRequest, CloseWait, TakeSession, Revoke,
           ReadActive, CloseLane, CloseUndo, UndoCall, Undoing, UndoLane, UndoReverse, vars,
           batchWork, runtime
  <2>5. ASSUME NEW c \in Batches, Executing(c)
        PROVE  InsideStep(c) \/ Validate(c) \/ TakeLane(c) \/ Summarise(c) \/ Return(c)
    BY <2>5 DEF Executing, InsideStep
  <2> QED  BY <1>1, <2>2, <2>3, <2>4, <2>5 DEF Next, Starting, Forwarding
<1>2. ASSUME IInv, [Next]_vars, close = "closed"
      PROVE  UNCHANGED <<moved, rows, stack>> /\ stack = <<>>
  <2>1. /\ stack = <<>> /\ undo # "reverse" /\ \A b \in Batches : worker[b] \notin Zone
    BY <1>2 DEF IInv, ControlInv, CloseWaitsForTheLast
  <2>2. ASSUME NEW c \in Batches, Executing(c)
        PROVE  UNCHANGED <<moved, rows, stack>>
    <3>1. Validate(c)
      BY <2>1, <2>2 DEF Executing, Register, SetShared, Send, Check, Drain, Begin, Run, TakeLane,
           PickComponent, RenameComponent, RenameOutcome, Report, Summarise, Unregister, Return,
           Zone, Inside
    <3> QED  BY <3>1 DEF Validate, outside, files, undoing
  <2>3. ASSUME NEW c \in Batches,
               \/ Starting(c) \/ Forwarding(c) \/ CancelCheck(c) \/ CancelSend(c) \/ Ending(c)
               \/ (\E r \in Requests : Start(c, r))
        PROVE  UNCHANGED <<moved, rows, stack>>
    BY <2>3 DEF Starting, Start, PassGate, TryLane, Preflight, Admit, Announce, Forwarding, Take,
         Forward, StopForwarder, CancelCheck, CancelSend, Ending, Join, Store, ClearActive,
         AnnounceEnd, MarkComplete, outside, batchWork, files, undoing
  <2>4. CASE RequestClose \/ Closing \/ UndoCall \/ Undoing \/ UNCHANGED vars
    BY <1>2, <2>1, <2>4 DEF RequestClose, Closing, CloseCancel, CloseRequest, CloseWait, TakeSession,
       Revoke, ReadActive, CloseLane, CloseUndo, UndoCall, Undoing, UndoLane, UndoReverse, vars,
       batchWork, files, undoing
  <2> QED  BY <1>2, <2>1, <2>2, <2>3, <2>4 DEF Next
<1>3. IInv /\ [Next]_vars =>
          [/\ \A b \in Batches :
                  /\ shown[b].life = "Completed" => shown'[b] = shown[b]
                  /\ record[b].life = "Completed" => record'[b].life = "Completed"
           /\ close = "closed" => UNCHANGED <<moved, rows, stack>> /\ stack = <<>>]_vars
  BY <1>1, <1>2
<1> QED  BY <1>3, RuntimeInvariant, PTL DEF Spec, EndIsFinal

-----------------------------------------------------------------------------
(* What can be undone. *)

\* A rename group has not come to this file, or it is at it.
GroupLeft(b, i) ==
    ComponentOf[i] > component[b] \/ (worker[b] = "rename" /\ ComponentOf[i] = component[b])

\* The work of the batch has not come to this file, or never will.
Untouched(b, i) ==
    request[b].kind = "Rename" => i \in request[b].skip \/ GroupLeft(b, i)

OnStack(b) == \E k \in DOMAIN stack : stack[k] = b

\* The batch has been summarised.
Past(b) ==
    \/ worker[b] \in {"unregister", "return", "join"} \cup Ended
    \/ worker[b] \in {"publish", "send"} /\ then[b] = "return"

\* The journal while nothing fails: what was moved is completed, the groups that ran have
\* ended rows, and so has every reported file, but in a rename that was cancelled before it
\* moved anything; once a batch that moved something is summarised it can be undone.
UndoableOf(b) ==
    /\ \A i \in Items : rows[b][i] # "Applied"
    /\ moved[b] \subseteq CompletedItems(b)
    /\ \A i \in Items : i \in request[b].skip /\ i <= Len(results[b]) => rows[b][i] \in Over
    /\ request[b].kind = "Rename" =>
          /\ \A i \in Items \ request[b].skip : ~GroupLeft(b, i) => rows[b][i] \in Over
          /\ ~groupRan[b] => \/ \A i \in Items : i <= Len(results[b]) => i \in request[b].skip
                             \/ b \in cancelled \/ item[b] > N
          /\ worker[b] \in {"group", "rename"} /\ ~groupRan[b] =>
                \A i \in Items : i <= Len(results[b]) => i \in request[b].skip
    /\ request[b].kind # "Rename" \/ moved[b] # {} =>
          \A i \in Items : i <= Len(results[b]) => rows[b][i] \in Over
    /\ Undoable(b) /\ moved[b] # {} /\ Past(b) /\ close # "closed" => OnStack(b)

\* A file the batch has not come to is untouched; a group is left only when the batch is
\* cancelled, and the group of a skipped file never runs.
JournalOf(b) ==
    /\ request[b] \in Requests \cup {NoRequest}
    /\ Early(b) => /\ component[b] = 0 /\ ~groupRan[b] /\ results[b] = <<>> /\ moved[b] = {}
                   /\ \A i \in Items : rows[b][i] = "Absent"
    /\ request[b].kind = "Rename" =>
          /\ component[b] \in Leaders(b) \cup {0}
          /\ \A i \in Items : Untouched(b, i) => i \notin moved[b]
    /\ \A i \in Items : Untouched(b, i) /\ i > Len(results[b]) =>
          rows[b][i] \in {"Absent", "Prepared"} /\ i \notin moved[b]
    /\ worker[b] \in {"group", "rename"} => item[b] \notin request[b].skip
    /\ worker[b] = "group" /\ groupRan[b] => ComponentsLeft(b) = {}
    /\ worker[b] = "rename" => component[b] # 0
    /\ worker[b] = "summarise" => item[b] = N + 1
    /\ request[b].kind = "Rename" /\ groupRan[b] /\ ComponentsLeft(b) # {} => b \in cancelled
    /\ faults = 0 => UndoableOf(b)

UndoInv == faults \in Nat /\ \A b \in Batches : JournalOf(b)

\* A non-empty set of numbers has a smallest one.
LEMMA SmallestNumber ==
    ASSUME NEW T, T \subseteq Nat, T # {}
    PROVE  \E x \in T : \A y \in T : x <= y
<1>1. PICK x \in T : \A y \in T : ~(<<y, x>> \in OpToRel(<, Nat))
  BY WFMin, NatLessThanWellFounded
<1>2. \A y \in T : ~(y < x)
  BY <1>1 DEF OpToRel
<1> QED  BY <1>2

\* The next group is the first of those that are left.
LEMMA NextLeaderIsFirst ==
    ASSUME NEW b \in Batches, ComponentsLeft(b) # {}
    PROVE  NextLeader(b) \in ComponentsLeft(b) /\ \A m \in ComponentsLeft(b) : NextLeader(b) <= m
<1>1. ComponentsLeft(b) \subseteq Nat
  BY RuntimeAssumption DEF ComponentsLeft, Leaders, Items
<1>2. \E l \in ComponentsLeft(b) : \A m \in ComponentsLeft(b) : l <= m
  BY <1>1, SmallestNumber
<1> QED  BY <1>2 DEF NextLeader

\* The shape of what the work on the files reads.
LEMMA JournalTypes ==
    ASSUME ControlInv, ResultsFollowFiles, NEW b \in Batches, JournalOf(b)
    PROVE  /\ N \in Nat \ {0} /\ item[b] \in Nat \ {0} /\ Len(results[b]) \in Nat
           /\ rows[b] \in [Items -> RowStates] /\ moved[b] \in SUBSET Items
           /\ \A i \in Items : /\ i \in Nat \ {0} /\ i <= N
                              /\ ComponentOf[i] \in Items /\ ComponentOf[i] \in Nat \ {0}
                              /\ ComponentOf[i] <= i
           /\ request[b].kind = "Rename" =>
                 /\ component[b] \in Nat
                 /\ \A i \in Items : ComponentOf[i] \in request[b].skip <=> i \in request[b].skip
<1>1. /\ N \in Nat \ {0} /\ item[b] \in Nat \ {0} /\ Len(results[b]) \in Nat
      /\ rows[b] \in [Items -> RowStates] /\ moved[b] \in SUBSET Items
  BY RuntimeAssumption DEF ControlInv, DataTypes, ResultsFollowFiles, FileTypes
<1>2. \A i \in Items : /\ i \in Nat \ {0} /\ i <= N
                       /\ ComponentOf[i] \in Items /\ ComponentOf[i] \in Nat \ {0}
                       /\ ComponentOf[i] <= i
  BY <1>1, RuntimeAssumption DEF Items
<1>3. ASSUME request[b].kind = "Rename"
      PROVE  /\ component[b] \in Nat
             /\ \A i \in Items : ComponentOf[i] \in request[b].skip <=> i \in request[b].skip
  <2>1. component[b] \in Leaders(b) \cup {0}
    BY <1>3 DEF JournalOf
  <2>2. request[b] \in Requests
    BY <1>3 DEF JournalOf, NoRequest
  <2> QED  BY <1>2, <1>3, <2>1, <2>2, RuntimeAssumption DEF Leaders
<1> QED  BY <1>1, <1>2, <1>3

\* Before it registers, a batch has touched nothing.
LEMMA EarlyJournal ==
    ASSUME NEW c \in Batches,
           component'[c] = 0, ~groupRan'[c], results'[c] = <<>>, moved'[c] = {},
           \A i \in Items : rows'[c][i] = "Absent",
           request'[c] \in Requests \cup {NoRequest},
           worker'[c] \notin {"group", "rename", "summarise"}
    PROVE  JournalOf(c)'
<1>1. \A i \in Items : ComponentOf[i] > 0 /\ i > 0
  BY RuntimeAssumption DEF Items
<1>2. \A i \in Items : GroupLeft(c, i)' /\ Untouched(c, i)'
  BY <1>1 DEF GroupLeft, Untouched
<1>3. Len(results'[c]) = 0 /\ \A i \in Items : ~(i <= Len(results'[c]))
  BY RuntimeAssumption DEF Items
<1>4. UndoableOf(c)'
  BY <1>2, <1>3 DEF UndoableOf, Over
<1> QED  BY <1>2, <1>3, <1>4 DEF JournalOf

\* A batch whose files no step touches, but for the undo, goes on to be undoable.
LEMMA OutsideKeepsJournal ==
    ASSUME ControlInv, ResultsFollowFiles, faults \in Nat, faults' \in Nat, faults' = 0 => faults = 0,
           NEW c \in Batches, JournalOf(c),
           results'[c] = results[c], item'[c] = item[c], groupRan'[c] = groupRan[c],
           rows'[c] = rows[c], moved'[c] \subseteq moved[c], then'[c] = then[c],
           component'[c] = component[c], c \in cancelled => c \in cancelled',
           \/ request'[c] = request[c]
           \/ worker'[c] = "off" /\ worker[c] = "off" /\ request'[c] \in Requests,
           close = "closed" => close' = "closed",
           OnStack(c) /\ moved'[c] # {} /\ close' # "closed" => OnStack(c)',
           \/ worker'[c] = worker[c]
           \/ Early(c) /\ worker'[c] \in {"validate", "wantLane", "register", "join"}
           \/ Past(c) /\ worker[c] \notin {"publish", "send"} /\ worker'[c] \in {"join"} \cup Ended
           \/ /\ worker[c] = "summarise" /\ worker'[c] = "unregister"
              /\ (faults' = 0 /\ Undoable(c) /\ moved[c] # {} => OnStack(c)')
    PROVE  JournalOf(c)'
<1>1. CASE Early(c) /\ worker'[c] \in {"off", "validate", "wantLane", "register", "join"}
  <2>1. request'[c] \in Requests \cup {NoRequest}
    BY DEF JournalOf
  <2> QED  BY <1>1, <2>1, EarlyJournal DEF JournalOf
<1>2. CASE ~(Early(c) /\ worker'[c] \in {"off", "validate", "wantLane", "register", "join"})
  <2>1. /\ request'[c] = request[c]
        /\ \/ worker'[c] = worker[c]
           \/ /\ worker[c] \in {"unregister", "return", "join", "summarise"} \cup Ended
              /\ worker'[c] \in {"join", "unregister"} \cup Ended
    BY <1>2 DEF Early, Past
  <2>2. /\ ~Early(c)' /\ (worker'[c] = "rename" <=> worker[c] = "rename")
        /\ (worker'[c] = "group" <=> worker[c] = "group")
        /\ worker'[c] = "summarise" => worker[c] = "summarise"
    BY <1>2, <2>1 DEF Early, Ended
  <2>3. /\ \A i \in Items : (GroupLeft(c, i)' <=> GroupLeft(c, i)) /\ (Untouched(c, i)' <=> Untouched(c, i))
        /\ Leaders(c)' = Leaders(c) /\ ComponentsLeft(c)' = ComponentsLeft(c)
        /\ CompletedItems(c)' = CompletedItems(c) /\ (Undoable(c)' <=> Undoable(c))
    BY <2>1, <2>2 DEF GroupLeft, Untouched, Leaders, ComponentsLeft, CompletedItems, Undoable
  <2>4. Past(c)' => \/ Past(c)
                    \/ worker[c] = "summarise" /\ (faults' = 0 /\ Undoable(c) /\ moved[c] # {} => OnStack(c)')
    BY <1>2 DEF Past, Early, Ended
  <2>5. ASSUME faults' = 0
        PROVE  UndoableOf(c)'
    <3>1. UndoableOf(c)
      BY <2>5 DEF JournalOf
    <3>2. /\ \A i \in Items : rows'[c][i] # "Applied"
          /\ moved'[c] \subseteq CompletedItems(c)'
          /\ \A i \in Items : i \in request'[c].skip /\ i <= Len(results'[c]) => rows'[c][i] \in Over
      BY <2>1, <2>3, <3>1 DEF UndoableOf
    <3>3. request'[c].kind = "Rename" =>
          /\ \A i \in Items \ request'[c].skip : ~GroupLeft(c, i)' => rows'[c][i] \in Over
          /\ ~groupRan'[c] => \/ \A i \in Items : i <= Len(results'[c]) => i \in request'[c].skip
                              \/ c \in cancelled' \/ item'[c] > N
          /\ worker'[c] \in {"group", "rename"} /\ ~groupRan'[c] =>
                \A i \in Items : i <= Len(results'[c]) => i \in request'[c].skip
      BY <2>1, <2>2, <2>3, <3>1 DEF UndoableOf
    <3>4. /\ request'[c].kind # "Rename" \/ moved'[c] # {} =>
                \A i \in Items : i <= Len(results'[c]) => rows'[c][i] \in Over
          /\ Undoable(c)' /\ moved'[c] # {} /\ Past(c)' /\ close' # "closed" => OnStack(c)'
      <4>1. moved'[c] # {} => moved[c] # {}
        OBVIOUS
      <4> QED  BY <2>1, <2>3, <2>4, <2>5, <3>1, <4>1 DEF UndoableOf
    <3> QED  BY <3>2, <3>3, <3>4 DEF UndoableOf
  <2> QED  BY <2>1, <2>2, <2>3, <2>5 DEF JournalOf
<1> QED  BY <1>1, <1>2

\* Before and after the work on a file: the steps that leave the files alone.
LEMMA StepsKeepJournal ==
    ASSUME ControlInv, ResultsFollowFiles, faults \in Nat, NEW b \in Batches, JournalOf(b),
           \/ Register(b) \/ SetShared(b) \/ Send(b) \/ Check(b) \/ Report(b) \/ Unregister(b)
    PROVE  JournalOf(b)' /\ faults' = faults
<1>1. /\ UNCHANGED <<results, request, groupRan, rows, moved, component, faults, close, stack>>
      /\ b \in cancelled => b \in cancelled'
  BY DEF Register, SetShared, Send, Check, Report, Unregister, outside, starting, closing, undoing,
         files, steps, service
<1>2. /\ N \in Nat \ {0} /\ item[b] \in Nat \ {0} /\ item[b] <= N + 1
      /\ item'[b] = item[b] \/ item'[b] = item[b] + 1
  BY JournalTypes DEF ResultsFollowFiles, FilesOf, Register, SetShared, Send, Check, Report,
                      Unregister, ControlInv, DataTypes
<1>3. /\ worker[b] \notin {"group", "rename"}
      /\ worker'[b] \in {"publish", "send", "check", "begin", "summarise", "drain", "return"}
      /\ Past(b)' => Past(b)
      /\ worker'[b] = "summarise" => item'[b] = item[b] /\ item[b] > N
  BY <1>2 DEF Register, SetShared, Send, Check, Report, Unregister, Goto, GotoPublish, Past, Ended,
              ControlInv, ControlTypes, steps
<1>4. /\ \A i \in Items : (GroupLeft(b, i)' <=> GroupLeft(b, i)) /\ (Untouched(b, i)' <=> Untouched(b, i))
      /\ Leaders(b)' = Leaders(b) /\ ComponentsLeft(b)' = ComponentsLeft(b)
      /\ CompletedItems(b)' = CompletedItems(b) /\ (Undoable(b)' <=> Undoable(b))
      /\ OnStack(b)' <=> OnStack(b)
  BY <1>1, <1>3 DEF GroupLeft, Untouched, Leaders, ComponentsLeft, CompletedItems, Undoable, OnStack
<1>5. ~Early(b)' /\ item'[b] >= item[b]
  BY <1>2, <1>3 DEF Early
<1>6. UndoableOf(b) => UndoableOf(b)'
  BY <1>1, <1>2, <1>3, <1>4, <1>5 DEF UndoableOf
<1>7. worker'[b] = "summarise" => item'[b] = N + 1
  BY <1>2, <1>3
<1> QED  BY <1>1, <1>3, <1>4, <1>5, <1>6, <1>7 DEF JournalOf

\* The next group is picked: which files are left for a group does not change.
LEMMA PickKeepsJournal ==
    ASSUME ControlInv, ResultsFollowFiles, faults \in Nat, NEW b \in Batches, JournalOf(b),
           PickComponent(b)
    PROVE  JournalOf(b)' /\ faults' = faults
<1> DEFINE l == NextLeader(b)
<1>1. /\ UNCHANGED <<results, request, groupRan, rows, moved, faults, close, stack, item, cancelled, then>>
      /\ worker[b] = "group" /\ worker'[b] = "rename" /\ component'[b] = l /\ ~groupRan[b]
      /\ request[b].kind = "Rename" /\ ComponentsLeft(b) # {}
  BY DEF PickComponent, GroupGoesOn, Goto, outside, starting, closing, undoing, steps, service,
         ControlInv, ControlTypes, ResultsFollowFiles, FileTypes, FilesOf
<1>2. /\ l \in Leaders(b) /\ l > component[b] /\ l \in Nat \ {0}
      /\ \A m \in ComponentsLeft(b) : l <= m
  <2>1. l \in ComponentsLeft(b) /\ \A m \in ComponentsLeft(b) : l <= m
    BY <1>1, NextLeaderIsFirst
  <2>2. l \in Leaders(b) /\ l > component[b]
    BY <2>1 DEF ComponentsLeft
  <2>3. l \in Nat \ {0}
    BY <2>2, JournalTypes DEF Leaders
  <2> QED  BY <2>1, <2>2, <2>3
<1> HIDE DEF l
<1>3. component[b] \in Nat /\ \A i \in Items : ComponentOf[i] \in Nat
  BY <1>1, JournalTypes
<1>4. \A i \in Items : GroupLeft(b, i)' <=> ComponentOf[i] >= l
  BY <1>1, <1>2, <1>3 DEF GroupLeft
<1>5. \A i \in Items : GroupLeft(b, i)' => GroupLeft(b, i)
  BY <1>2, <1>3, <1>4 DEF GroupLeft
<1>6. ASSUME NEW i \in Items, i \notin request[b].skip, GroupLeft(b, i)
      PROVE  GroupLeft(b, i)'
  <2>1. ComponentOf[i] > component[b]
    BY <1>1, <1>6 DEF GroupLeft
  <2>2. ComponentOf[i] \in ComponentsLeft(b)
    BY <1>6, <2>1 DEF ComponentsLeft, Leaders
  <2> QED  BY <1>2, <1>3, <1>4, <2>2
<1>7. \A i \in Items : Untouched(b, i)' <=> Untouched(b, i)
  BY <1>1, <1>5, <1>6 DEF Untouched
<1>8. /\ Leaders(b)' = Leaders(b) /\ CompletedItems(b)' = CompletedItems(b)
      /\ (Undoable(b)' <=> Undoable(b)) /\ ~Past(b)' /\ ~Early(b)'
  BY <1>1 DEF Leaders, CompletedItems, Undoable, Past, Early, Ended
<1>9. UndoableOf(b) => UndoableOf(b)'
  BY <1>1, <1>5, <1>6, <1>8 DEF UndoableOf
<1> QED  BY <1>1, <1>2, <1>7, <1>8, <1>9 DEF JournalOf

\* A group ends: its files are none of those left, and none of those to be skipped.
LEMMA GroupKeepsJournal ==
    ASSUME ControlInv, ResultsFollowFiles, faults \in Nat, NEW b \in Batches, JournalOf(b),
           RenameComponent(b)
    PROVE  JournalOf(b)' /\ faults' \in Nat /\ (faults' = 0 => faults = 0)
<1> DEFINE group == {i \in Items : ComponentOf[i] = component[b]}
<1>1. /\ UNCHANGED <<results, request, groupRan, component, close, stack, item, cancelled, then>>
      /\ worker[b] = "rename" /\ worker'[b] = "group"
      /\ request[b].kind = "Rename" /\ ~groupRan[b] /\ FileTypes
  BY DEF RenameComponent, Goto, outside, starting, closing, undoing, steps, service,
         ControlInv, ControlTypes, ResultsFollowFiles, FilesOf
<1>2. PICK row \in RowStates :
          /\ Work(b, group, row)
          /\ \/ row \in {"Completed", "Failed"} /\ faults' = faults
             \/ faults' = faults + 1
  BY DEF RenameComponent, RowStates, Over, Fault
<1>3. /\ \A i \in Items : rows'[b][i] = IF i \in group THEN row ELSE rows[b][i]
      /\ moved'[b] = IF row \in {"Completed", "Applied"} THEN moved[b] \cup group ELSE moved[b]
  <2>1. FileTypes /\ group \in SUBSET Items /\ row \in RowStates /\ Work(b, group, row)
    BY <1>1, <1>2
  <2> HIDE DEF group
  <2> QED  BY <2>1, WorkOnGroup
<1>4. /\ component[b] \in Nat /\ \A i \in Items : ComponentOf[i] \in Nat /\ ComponentOf[i] \in Items
      /\ \A i \in Items : ComponentOf[i] \in request[b].skip <=> i \in request[b].skip
      /\ moved[b] \subseteq Items
  BY <1>1, JournalTypes
<1>5. \A i \in group : i \in Items /\ i \notin request[b].skip
  <2>1. component[b] \in Leaders(b)
    BY <1>1 DEF JournalOf
  <2>2. PICK j \in Items \ request[b].skip : ComponentOf[j] = component[b]
    BY <2>1 DEF Leaders
  <2> QED  BY <1>4, <2>2
<1>6. \A i \in Items : /\ i \in group => GroupLeft(b, i) /\ ~GroupLeft(b, i)'
                       /\ i \notin group => (GroupLeft(b, i)' <=> GroupLeft(b, i))
  BY <1>1, <1>4 DEF GroupLeft
<1> HIDE DEF group
<1>7. \A i \in Items : /\ i \in group => ~Untouched(b, i)'
                       /\ i \notin group => (Untouched(b, i)' <=> Untouched(b, i))
  BY <1>1, <1>5, <1>6 DEF Untouched
<1>8. /\ Leaders(b)' = Leaders(b) /\ (Undoable(b)' <=> Undoable(b)) /\ ~Past(b)' /\ ~Early(b)'
  BY <1>1 DEF Leaders, Undoable, Past, Early, Ended
<1>9. faults' \in Nat /\ (faults' = 0 => faults = 0 /\ row \in {"Completed", "Failed"})
  BY <1>2
<1>10. ASSUME faults' = 0
       PROVE  UndoableOf(b)'
  <2>1. UndoableOf(b) /\ row \in {"Completed", "Failed"}
    BY <1>9, <1>10 DEF JournalOf
  <2>2. moved'[b] \subseteq CompletedItems(b)'
    <3> SUFFICES ASSUME NEW i \in moved'[b]
                 PROVE  i \in Items /\ rows'[b][i] = "Completed"
      BY DEF CompletedItems
    <3>1. CASE i \in group
      <4>1. row = "Completed"
        <5>1. i \notin moved[b]
          BY <1>1, <1>5, <1>6, <3>1 DEF JournalOf, Untouched
        <5> QED  BY <1>3, <2>1, <5>1
      <4> QED  BY <1>3, <1>5, <3>1, <4>1
    <3>2. CASE i \notin group
      <4>1. i \in moved[b]
        BY <1>3, <3>2
      <4>2. i \in Items /\ rows[b][i] = "Completed"
        BY <2>1, <4>1 DEF UndoableOf, CompletedItems
      <4> QED  BY <1>3, <3>2, <4>2
    <3> QED  BY <3>1, <3>2
  <2>3. \A i \in Items : rows[b][i] \in Over => rows'[b][i] \in Over
    BY <1>3, <2>1 DEF Over
  <2>4. \A i \in Items : rows'[b][i] # "Applied"
    BY <1>3, <2>1 DEF UndoableOf
  <2>5. \A i \in Items \ request[b].skip : ~GroupLeft(b, i)' => rows'[b][i] \in Over
    BY <1>1, <1>3, <1>6, <2>1, <2>3 DEF UndoableOf, Over
  <2>6. \A i \in Items : i <= Len(results[b]) => i \in request[b].skip
    BY <1>1, <2>1 DEF UndoableOf
  <2>7. \A i \in Items : i <= Len(results[b]) => rows'[b][i] \in Over
    BY <1>5, <2>1, <2>3, <2>6 DEF UndoableOf
  <2>8. \A i \in Items : i \in request[b].skip /\ i <= Len(results[b]) => rows'[b][i] \in Over
    BY <1>3, <1>5, <2>1 DEF UndoableOf
  <2> QED  BY <1>1, <1>8, <2>8, <2>2, <2>4, <2>5, <2>6, <2>7 DEF UndoableOf
<1> QED  BY <1>1, <1>3, <1>7, <1>8, <1>9, <1>10 DEF JournalOf

\* A group's file is reported as its row says; it is still open only when the batch was
\* cancelled before any group ran, and then nothing has moved.
LEMMA OutcomeKeepsJournal ==
    ASSUME ControlInv, ResultsFollowFiles, faults \in Nat, NEW b \in Batches, JournalOf(b),
           RenameOutcome(b)
    PROVE  JournalOf(b)' /\ faults' = faults
<1> DEFINE i0 == item[b]
<1>1. /\ UNCHANGED <<rows, moved, request, component, faults, close, stack, item, cancelled>>
      /\ worker[b] = "group" /\ groupRan' = [groupRan EXCEPT ![b] = TRUE]
      /\ groupRan[b] \/ ~GroupGoesOn(b)
      /\ \E r \in {"completed", "failed"} : Settle(b, r)
  BY DEF RenameOutcome, outside, starting, closing, undoing, service
<1>2. /\ request[b].kind = "Rename" /\ i0 \in Items /\ Len(results[b]) = i0 - 1 /\ groupRan'[b]
      /\ i0 \notin request[b].skip
  BY <1>1, JournalTypes DEF ResultsFollowFiles, FilesOf, FileTypes, JournalOf, Items
<1>3. worker'[b] = "report" /\ Len(results'[b]) = i0
  <2>1. PICK r \in Results : Settle(b, r)
    BY <1>1 DEF Results
  <2> QED  BY <1>2, <2>1, SettleShape, JournalTypes DEF ControlInv
<1>4. /\ \A i \in Items : (GroupLeft(b, i)' <=> GroupLeft(b, i)) /\ (Untouched(b, i)' <=> Untouched(b, i))
      /\ Leaders(b)' = Leaders(b) /\ ComponentsLeft(b)' = ComponentsLeft(b)
      /\ CompletedItems(b)' = CompletedItems(b) /\ (Undoable(b)' <=> Undoable(b))
      /\ ~Past(b)' /\ ~Early(b)'
  BY <1>1, <1>3 DEF GroupLeft, Untouched, Leaders, ComponentsLeft, CompletedItems, Undoable, Past,
                    Early, Ended
<1>5. component[b] \in Nat /\ \A i \in Items : i \in Nat /\ ComponentOf[i] \in Nat /\ ComponentOf[i] <= i
  BY <1>2, JournalTypes
<1>6. ASSUME faults = 0, moved[b] # {}
      PROVE  rows[b][i0] \in Over
  <2>1. UndoableOf(b)
    BY <1>6 DEF JournalOf
  <2>2. CASE ~GroupLeft(b, i0)
    BY <1>2, <2>1, <2>2 DEF UndoableOf
  <2>3. CASE GroupLeft(b, i0)
    <3>1. ComponentOf[i0] > component[b]
      BY <1>1, <2>3 DEF GroupLeft
    <3>2. ComponentsLeft(b) # {}
      BY <1>2, <3>1 DEF ComponentsLeft, Leaders
    <3>3. ~groupRan[b]
      BY <1>1, <3>2 DEF JournalOf
    <3>4. \A i \in Items : i <= Len(results[b]) => i \in request[b].skip
      BY <1>1, <1>2, <2>1, <3>3 DEF UndoableOf
    <3>5. \A i \in Items \ request[b].skip : ComponentOf[i] >= i0
      <4> SUFFICES ASSUME NEW i \in Items, i \notin request[b].skip
                   PROVE  ComponentOf[i] >= i0
        OBVIOUS
      <4>1. ComponentOf[i] \in Items /\ ComponentOf[i] \notin request[b].skip
        BY <1>2, JournalTypes
      <4>2. ~(ComponentOf[i] <= Len(results[b])) /\ Len(results[b]) \in Nat
        BY <3>4, <4>1, JournalTypes
      <4> QED  BY <1>2, <1>5, <4>1, <4>2
    <3>6. component[b] = 0
      <4>1. component[b] \in Leaders(b) \cup {0}
        BY <1>2 DEF JournalOf
      <4>2. ComponentOf[i0] <= i0
        BY <1>2, <1>5
      <4>3. component[b] \in Leaders(b) => component[b] >= i0
        BY <3>5 DEF Leaders
      <4> QED  BY <1>2, <1>5, <3>1, <4>1, <4>2, <4>3
    <3>7. \A i \in Items : Untouched(b, i)
      BY <1>5, <3>6, JournalTypes DEF Untouched, GroupLeft
    <3>8. moved[b] = {}
      BY <1>2, <3>7, JournalTypes DEF JournalOf
    <3> QED  BY <1>6, <3>8
  <2> QED  BY <2>2, <2>3
<1> HIDE DEF i0
<1>7. \A i \in Items : i <= i0 => i <= Len(results[b]) \/ i = i0
  BY <1>2, <1>5
<1>8. \A i \in Items : i > i0 => i > Len(results[b])
  BY <1>2, <1>5
<1>9. ASSUME faults = 0
      PROVE  UndoableOf(b)'
  <2>1. UndoableOf(b)
    BY <1>9 DEF JournalOf
  <2>2. \A i \in Items : i \in request[b].skip /\ i <= i0 => rows[b][i] \in Over
    BY <1>2, <1>7, <2>1 DEF UndoableOf
  <2>3. moved[b] # {} => \A i \in Items : i <= i0 => rows[b][i] \in Over
    BY <1>6, <1>7, <1>9, <2>1 DEF UndoableOf
  <2> QED  BY <1>1, <1>2, <1>3, <1>4, <2>1, <2>2, <2>3 DEF UndoableOf
<1>10. ComponentsLeft(b) # {} => b \in cancelled
  BY <1>1 DEF JournalOf, GroupGoesOn
<1> QED  BY <1>1, <1>2, <1>3, <1>4, <1>8, <1>9, <1>10 DEF JournalOf

\* One move, copy or trash ends; with no fault its row has ended, completed if it moved.
LEMMA RunKeepsJournal ==
    ASSUME ControlInv, ResultsFollowFiles, faults \in Nat, NEW b \in Batches, JournalOf(b), Run(b)
    PROVE  JournalOf(b)' /\ faults' \in Nat /\ (faults' = 0 => faults = 0)
<1> DEFINE i0 == item[b]
<1>1. /\ UNCHANGED <<request, component, groupRan, close, stack, item, cancelled>>
      /\ worker[b] = "run"
  BY DEF Run, outside, starting, closing, undoing, service
<1>2. /\ request[b].kind # "Rename" /\ i0 \in Items /\ Len(results[b]) = i0 - 1
      /\ i0 \in Nat
  BY <1>1, JournalTypes DEF ResultsFollowFiles, FilesOf, Items
<1>3. PICK row \in RowStates, r \in Results :
          /\ Work(b, {i0}, row) /\ Settle(b, r)
          /\ ((row \in Over /\ faults' = faults) \/ faults' = faults + 1)
  <2>1. \/ Work(b, {i0}, "Completed") /\ Settle(b, "completed") /\ faults' = faults
        \/ Work(b, {i0}, "Failed") /\ Settle(b, "failed") /\ faults' = faults
        \/ Work(b, {i0}, "Applied") /\ Settle(b, "failed") /\ faults' = faults + 1
        \/ Work(b, {i0}, "Prepared") /\ Settle(b, "failed") /\ faults' = faults + 1
        \/ Work(b, {i0}, "Skipped") /\ Settle(b, "cancelled") /\ faults' = faults
    BY DEF Run, Completes, Fault
  <2> QED  BY <2>1 DEF RowStates, Over, Results
<1>4. worker'[b] = "report" /\ Len(results'[b]) = i0
  BY <1>2, <1>3, SettleShape, JournalTypes DEF ControlInv
<1>5. /\ \A i \in Items : rows'[b][i] = IF i = i0 THEN row ELSE rows[b][i]
      /\ moved'[b] = IF row \in {"Completed", "Applied"} THEN moved[b] \cup {i0} ELSE moved[b]
  <2> DEFINE group == {i0}
  <2>1. FileTypes /\ group \in SUBSET Items /\ row \in RowStates /\ Work(b, group, row)
    BY <1>2, <1>3 DEF ResultsFollowFiles
  <2>2. \A i : i \in group <=> i = i0
    OBVIOUS
  <2> HIDE DEF group
  <2>3. /\ \A i \in Items : rows'[b][i] = IF i \in group THEN row ELSE rows[b][i]
        /\ moved'[b] = IF row \in {"Completed", "Applied"} THEN moved[b] \cup group ELSE moved[b]
    BY <2>1, WorkOnGroup DEF Work
  <2> QED  BY <2>2, <2>3 DEF group
<1> HIDE DEF i0
<1>6. \A i \in Items : /\ i \in Nat
                       /\ i <= i0 => i <= Len(results[b]) \/ i = i0
                       /\ i > i0 => i > Len(results[b]) /\ i # i0
  <2>1. \A i \in Items : i \in Nat
    BY JournalTypes
  <2> QED  BY <1>2, <2>1
<1>7. /\ \A i \in Items : Untouched(b, i)' /\ Untouched(b, i)
      /\ (Undoable(b)' <=> Undoable(b)) /\ ~Past(b)' /\ ~Early(b)'
  BY <1>1, <1>2, <1>4 DEF Untouched, Undoable, Past, Early, Ended
<1>8. rows[b][i0] \in {"Absent", "Prepared"} /\ i0 \notin moved[b]
  BY <1>2, <1>7, JournalTypes DEF JournalOf
<1>9. faults' \in Nat /\ (faults' = 0 => faults = 0 /\ row \in Over)
  BY <1>3
<1>10. ASSUME faults' = 0
       PROVE  UndoableOf(b)'
  <2>1. UndoableOf(b) /\ row \in Over
    BY <1>9, <1>10 DEF JournalOf
  <2>2. moved'[b] \subseteq CompletedItems(b)'
    <3> SUFFICES ASSUME NEW i \in moved'[b]
                 PROVE  i \in Items /\ rows'[b][i] = "Completed"
      BY DEF CompletedItems
    <3>1. CASE i \in moved[b]
      BY <1>5, <1>8, <2>1, <3>1 DEF UndoableOf, CompletedItems
    <3>2. CASE i \notin moved[b]
      BY <1>2, <1>5, <2>1, <3>2 DEF Over
    <3> QED  BY <3>1, <3>2
  <2>3. \A i \in Items : rows'[b][i] # "Applied"
    BY <1>5, <2>1 DEF UndoableOf, Over
  <2>4. \A i \in Items : i \in request[b].skip /\ i <= i0 => rows'[b][i] \in Over
    BY <1>5, <1>6, <2>1 DEF UndoableOf
  <2>5. \A i \in Items : i <= i0 => rows'[b][i] \in Over
    BY <1>2, <1>5, <1>6, <2>1 DEF UndoableOf
  <2> QED  BY <1>1, <1>2, <1>4, <1>7, <2>2, <2>3, <2>4, <2>5 DEF UndoableOf
<1> QED  BY <1>1, <1>2, <1>4, <1>5, <1>6, <1>7, <1>9, <1>10 DEF JournalOf

\* A file is begun, skipped, or found cancelled: its row is prepared, or ended.
LEMMA BeginKeepsJournal ==
    ASSUME ControlInv, ResultsFollowFiles, faults \in Nat, NEW b \in Batches, JournalOf(b), Begin(b)
    PROVE  JournalOf(b)' /\ faults' \in Nat /\ (faults' = 0 => faults = 0)
<1> DEFINE i0 == item[b]
           Prepared == [i \in Items |-> IF rows[b][i] = "Absent" THEN "Prepared" ELSE rows[b][i]]
           Now == rows'[b]
<1>1. /\ UNCHANGED <<request, component, groupRan, moved, close, stack, item, cancelled>>
      /\ worker[b] = "begin"
  BY DEF Begin, outside, starting, closing, undoing, service
<1>2. /\ i0 \in Items /\ i0 \in Nat /\ Len(results[b]) = i0 - 1
      /\ rows \in [Batches -> [Items -> RowStates]] /\ rows[b] \in [Items -> RowStates]
  BY <1>1, JournalTypes DEF ResultsFollowFiles, FilesOf, FileTypes, Items
<1>3. /\ Started(b) = Prepared /\ Prepared \in [Items -> RowStates]
  BY <1>2 DEF Started, RowStates, Over
<1>4. Untouched(b, i0) => rows[b][i0] \in {"Absent", "Prepared"}
  BY <1>2, JournalTypes DEF JournalOf
<1>5. i0 \in request[b].skip => rows[b][i0] \in {"Absent", "Prepared"}
  BY <1>4 DEF Untouched
<1> DEFINE Reports == \E r \in Results : Settle(b, r)
           Goes == /\ i0 \notin request[b].skip /\ b \notin cancelled /\ UNCHANGED results
                   /\ worker' = [worker EXCEPT ![b] = IF request[b].kind = "Rename" THEN "group" ELSE "run"]
<1>6. \/ faults' = faults + 1 /\ Now = rows[b] /\ Reports
      \/ /\ Now = [Prepared EXCEPT ![i0] = "Skipped"] /\ rows[b][i0] \notin Over
         /\ faults' = faults /\ Reports /\ (i0 \in request[b].skip \/ b \in cancelled)
      \/ /\ Now = rows[b] /\ rows[b][i0] \in Over
         /\ faults' = faults /\ Reports /\ (i0 \in request[b].skip \/ b \in cancelled)
      \/ Now = Prepared /\ faults' = faults /\ Goes
  <2>1. ASSUME UNCHANGED rows
        PROVE  Now = rows[b]
    BY <2>1
  <2>2. ASSUME NEW q, rows' = [rows EXCEPT ![b] = q]
        PROVE  Now = q
    BY <1>2, <2>2
  <2>3. CASE Fault /\ Settle(b, "failed") /\ UNCHANGED rows
    BY <2>1, <2>3 DEF Fault, Results
  <2>4. CASE /\ i0 \in request[b].skip
             /\ rows' = [rows EXCEPT ![b] =
                   IF Settles(b, i0) THEN [Started(b) EXCEPT ![i0] = "Skipped"] ELSE Started(b)]
             /\ Settle(b, IF Settles(b, i0) THEN "skipped" ELSE "failed")
             /\ UNCHANGED faults
    <3>1. Settles(b, i0)
      BY <1>5, <2>4 DEF Settles, Over
    <3>2. Now = [Started(b) EXCEPT ![i0] = "Skipped"]
      BY <2>2, <2>4, <3>1
    <3>3. Reports /\ faults' = faults
      BY <2>4, <3>1 DEF Results
    <3> QED  BY <1>3, <1>5, <2>4, <3>2, <3>3 DEF Over
  <2>5. CASE b \in cancelled /\ MarkCancelled(b, i0) /\ Settle(b, "cancelled") /\ UNCHANGED faults
    <3>1. Now = IF rows[b][i0] \in Over THEN rows[b] ELSE [Started(b) EXCEPT ![i0] = "Skipped"]
      BY <2>2, <2>5 DEF MarkCancelled
    <3>2. Reports /\ faults' = faults
      BY <2>5 DEF Results
    <3> QED  BY <1>3, <2>5, <3>1, <3>2
  <2>6. CASE /\ i0 \notin request[b].skip /\ b \notin cancelled
             /\ rows' = [rows EXCEPT ![b] = Started(b)]
             /\ Goto(b, IF request[b].kind = "Rename" THEN "group" ELSE "run")
             /\ UNCHANGED <<results, faults>>
    <3>1. Now = Started(b)
      BY <2>2, <2>6
    <3> QED  BY <1>3, <2>6, <3>1 DEF Goto
  <2> QED  BY <2>3, <2>4, <2>5, <2>6 DEF Begin
<1>7. /\ \A i \in Items : /\ rows[b][i] \in Over => Now[i] = rows[b][i]
                          /\ Now[i] = "Applied" => rows[b][i] = "Applied"
                          /\ i # i0 /\ rows[b][i] \in {"Absent", "Prepared"} =>
                                Now[i] \in {"Absent", "Prepared"}
      /\ faults' \in Nat /\ (faults' = 0 => faults = 0)
  <2>1. CASE Now = rows[b] /\ (faults' = faults \/ faults' = faults + 1)
    BY <2>1
  <2>2. CASE Now = [Prepared EXCEPT ![i0] = "Skipped"] /\ rows[b][i0] \notin Over /\ faults' = faults
    BY <1>2, <2>2 DEF Over
  <2>3. CASE Now = Prepared /\ faults' = faults
    BY <1>2, <2>3 DEF Over
  <2> QED  BY <1>6, <2>1, <2>2, <2>3
<1>8. \/ Reports /\ (faults' = 0 => Now[i0] \in Over /\ (i0 \in request[b].skip \/ b \in cancelled))
      \/ Goes /\ (rows[b][i0] \in {"Absent", "Prepared"} => Now[i0] \in {"Absent", "Prepared"})
  <2>1. CASE faults' = faults + 1 /\ Reports
    BY <2>1
  <2> DEFINE Why == i0 \in request[b].skip \/ b \in cancelled
  <2>2. CASE Now = [Prepared EXCEPT ![i0] = "Skipped"] /\ Reports /\ Why
    BY <1>2, <2>2 DEF Over
  <2>3. CASE Now = rows[b] /\ rows[b][i0] \in Over /\ Reports /\ Why
    BY <2>3
  <2>4. CASE Now = Prepared /\ Goes
    BY <1>2, <2>4
  <2> QED  BY <1>6, <2>1, <2>2, <2>3, <2>4
<1>9. /\ \A i \in Items : Now[i] = "Completed" <=> rows[b][i] = "Completed"
      /\ \A i \in Items : i \in Nat
  BY PreparedRows, JournalTypes
<1> HIDE DEF i0, Now, Prepared
<1>10. CompletedItems(b)' = CompletedItems(b) /\ (Undoable(b)' <=> Undoable(b))
       /\ Leaders(b)' = Leaders(b) /\ ComponentsLeft(b)' = ComponentsLeft(b)
  BY <1>1, <1>9 DEF CompletedItems, Undoable, Leaders, ComponentsLeft, Now
<1>11. worker'[b] \in {"report", "group", "run"} =>
         /\ \A i \in Items : (GroupLeft(b, i)' <=> GroupLeft(b, i)) /\ (Untouched(b, i)' <=> Untouched(b, i))
         /\ ~Past(b)' /\ ~Early(b)'
  BY <1>1 DEF GroupLeft, Untouched, Past, Early, Ended
<1>12. CASE Reports /\ (faults' = 0 => Now[i0] \in Over /\ (i0 \in request[b].skip \/ b \in cancelled))
  <2>1. worker'[b] = "report" /\ Len(results'[b]) = i0
    BY <1>2, <1>12, SettleShape, JournalTypes DEF ControlInv
  <2>2. \A i \in Items : /\ i <= i0 => i <= Len(results[b]) \/ i = i0
                         /\ i > i0 => i > Len(results[b]) /\ i # i0
    BY <1>2, <1>9
  <2>3. ASSUME faults' = 0
        PROVE  UndoableOf(b)'
    <3>1. UndoableOf(b) /\ Now[i0] \in Over /\ (i0 \in request[b].skip \/ b \in cancelled)
      BY <1>7, <1>12, <2>3 DEF JournalOf
    <3>2. \A i \in Items : Now[i] # "Applied"
      BY <1>7, <3>1 DEF UndoableOf
    <3>3. /\ \A i \in Items : i \in request[b].skip /\ i <= i0 => Now[i] \in Over
          /\ request[b].kind # "Rename" \/ moved[b] # {} => \A i \in Items : i <= i0 => Now[i] \in Over
      BY <1>7, <2>2, <3>1 DEF UndoableOf
    <3>4. request[b].kind = "Rename" =>
          /\ \A i \in Items \ request[b].skip : ~GroupLeft(b, i)' => Now[i] \in Over
          /\ ~groupRan[b] => \/ \A i \in Items : i <= i0 => i \in request[b].skip
                             \/ b \in cancelled \/ item[b] > N
      BY <1>7, <1>11, <2>1, <2>2, <3>1 DEF UndoableOf
    <3> QED  BY <1>1, <1>10, <1>11, <2>1, <3>1, <3>2, <3>3, <3>4 DEF UndoableOf, Now
  <2> QED  BY <1>1, <1>7, <1>10, <1>11, <2>1, <2>2, <2>3 DEF JournalOf, Now
<1>13. CASE Goes /\ (rows[b][i0] \in {"Absent", "Prepared"} => Now[i0] \in {"Absent", "Prepared"})
  <2>1. /\ worker'[b] = IF request[b].kind = "Rename" THEN "group" ELSE "run"
        /\ results'[b] = results[b] /\ b \notin cancelled /\ i0 \notin request[b].skip
    BY <1>13 DEF ControlInv, ControlTypes
  <2>2. ASSUME faults' = 0
        PROVE  UndoableOf(b)'
    <3>1. UndoableOf(b)
      BY <1>7, <2>2 DEF JournalOf
    <3>2. /\ \A i \in Items : Now[i] # "Applied"
          /\ \A i \in Items : i \in request[b].skip /\ i <= Len(results[b]) => Now[i] \in Over
          /\ request[b].kind # "Rename" \/ moved[b] # {} =>
                \A i \in Items : i <= Len(results[b]) => Now[i] \in Over
      BY <1>7, <3>1 DEF UndoableOf
    <3>3. request[b].kind = "Rename" =>
          /\ \A i \in Items \ request[b].skip : ~GroupLeft(b, i)' => Now[i] \in Over
          /\ ~groupRan[b] => \A i \in Items : i <= Len(results[b]) => i \in request[b].skip
      <4>1. ~(item[b] > N)
        BY <1>2, JournalTypes DEF i0, Items
      <4> QED  BY <1>7, <1>11, <2>1, <3>1, <4>1 DEF UndoableOf
    <3> QED  BY <1>1, <1>10, <1>11, <2>1, <3>1, <3>2, <3>3 DEF UndoableOf, Now
  <2>3. \A i \in Items : Untouched(b, i) /\ i > Len(results[b]) =>
            Now[i] \in {"Absent", "Prepared"} /\ i \notin moved[b]
    BY <1>7, <1>13 DEF JournalOf
  <2>4. request[b].kind = "Rename" /\ groupRan[b] => ComponentsLeft(b) = {}
    BY <2>1 DEF JournalOf
  <2> QED  BY <1>1, <1>7, <1>10, <1>11, <2>1, <2>2, <2>3, <2>4 DEF JournalOf, Now, i0
<1> QED  BY <1>7, <1>8, <1>12, <1>13

\* The files that are left are settled: with no fault every row of theirs has ended.
LEMMA DrainKeepsJournal ==
    ASSUME ControlInv, ResultsFollowFiles, faults \in Nat, NEW b \in Batches, JournalOf(b), Drain(b)
    PROVE  JournalOf(b)' /\ faults' \in Nat /\ (faults' = 0 => faults = 0)
<1> DEFINE pending == item[b]..N
           Now == rows'[b]
<1>1. /\ UNCHANGED <<request, component, groupRan, moved, close, stack, cancelled>>
      /\ worker[b] = "drain" /\ worker'[b] = "publish" /\ then'[b] = "check" /\ item'[b] = N + 1
  BY DEF Drain, outside, starting, closing, undoing, service, Goto, GotoPublish, ControlInv,
         ControlTypes, DataTypes
<1>2. /\ item[b] \in Nat \ {0} /\ item[b] <= N /\ N \in Nat \ {0} /\ Len(results[b]) = item[b] - 1
      /\ rows \in [Batches -> [Items -> RowStates]] /\ rows[b] \in [Items -> RowStates]
      /\ \A i \in Items : i \in Nat \ {0} /\ i <= N
  BY <1>1, JournalTypes DEF ResultsFollowFiles, FilesOf, FileTypes
<1>3. Len(results'[b]) = N /\ \A i \in Items : Now[i] = "Completed" <=> rows[b][i] = "Completed"
  BY DrainedResults, PreparedRows
<1>4. PICK faulty \in SUBSET pending :
         /\ faults' = faults + Cardinality(faulty)
         /\ rows' = [rows EXCEPT ![b] =
               IF faulty = pending THEN rows[b]
               ELSE [i \in Items |-> IF i \in {j \in pending \ faulty : Settles(b, j)} THEN "Skipped"
                                    ELSE Started(b)[i]]]
  BY DEF Drain
<1>5. /\ faults' \in Nat /\ (faults' = 0 => faults = 0 /\ faulty = {})
      /\ item[b] \in pending
  <2>1. IsFiniteSet(pending)
    BY <1>2, FS_Interval
  <2>2. IsFiniteSet(faulty)
    BY <2>1, FS_Subset
  <2>3. Cardinality(faulty) \in Nat /\ (Cardinality(faulty) = 0 => faulty = {})
    BY <2>2, FS_CardinalityType, FS_EmptySet
  <2> QED  BY <1>2, <1>4, <2>3
<1>6. ASSUME faults' = 0
      PROVE  \A i \in Items : /\ rows[b][i] \in Over => Now[i] = rows[b][i]
                              /\ Now[i] = "Applied" => rows[b][i] = "Applied"
                              /\ i >= item[b] /\ rows[b][i] # "Applied" => Now[i] \in Over
  <2>1. faulty = {} /\ faulty # pending
    BY <1>5, <1>6
  <2>2. Now = [i \in Items |-> IF i \in {j \in pending \ faulty : Settles(b, j)} THEN "Skipped"
                                    ELSE Started(b)[i]]
    BY <1>2, <1>4, <2>1
  <2>3. \A i \in Items : Now[i] = IF i >= item[b] /\ rows[b][i] \in {"Absent", "Prepared"} THEN "Skipped"
                                 ELSE IF rows[b][i] = "Absent" THEN "Prepared" ELSE rows[b][i]
    <3>1. \A i \in Items : i \in pending <=> i >= item[b]
      BY <1>2
    <3>2. \A i \in Items : Now[i] = IF i \in pending /\ Settles(b, i) THEN "Skipped" ELSE Started(b)[i]
      BY <2>1, <2>2
    <3> QED  BY <3>1, <3>2 DEF Settles, Started
  <2> HIDE DEF Now
  <2> QED  BY <1>2, <2>3 DEF RowStates, Over
<1> HIDE DEF pending, Now
<1>7. /\ \A i \in Items : (GroupLeft(b, i)' <=> GroupLeft(b, i)) /\ (Untouched(b, i)' <=> Untouched(b, i))
      /\ CompletedItems(b)' = CompletedItems(b) /\ (Undoable(b)' <=> Undoable(b))
      /\ Leaders(b)' = Leaders(b) /\ ComponentsLeft(b)' = ComponentsLeft(b)
      /\ ~Past(b)' /\ ~Early(b)'
  BY <1>1, <1>3 DEF GroupLeft, Untouched, CompletedItems, Undoable, Leaders, ComponentsLeft, Past,
                    Early, Ended, Now
<1>8. ASSUME faults' = 0
      PROVE  UndoableOf(b)'
  <2>1. UndoableOf(b)
    BY <1>5, <1>8 DEF JournalOf
  <2>6. \A i \in Items : /\ rows[b][i] \in Over => Now[i] = rows[b][i]
                         /\ Now[i] = "Applied" => rows[b][i] = "Applied"
                         /\ i >= item[b] /\ rows[b][i] # "Applied" => Now[i] \in Over
    BY <1>6, <1>8
  <2>7. \A i \in Items : i >= item[b] \/ i <= Len(results[b])
    BY <1>2
  <2>2. \A i \in Items : Now[i] # "Applied" /\ rows[b][i] # "Applied"
    BY <2>1, <2>6 DEF UndoableOf
  <2>3. /\ \A i \in Items : i \in request[b].skip => Now[i] \in Over
        /\ request[b].kind # "Rename" \/ moved[b] # {} => \A i \in Items : Now[i] \in Over
    BY <2>1, <2>2, <2>6, <2>7 DEF UndoableOf
  <2>4. request[b].kind = "Rename" =>
           \A i \in Items \ request[b].skip : ~GroupLeft(b, i)' => Now[i] \in Over
    BY <1>7, <2>1, <2>6 DEF UndoableOf
  <2>5. item'[b] > N
    BY <1>1, <1>2
  <2> QED  BY <1>1, <1>7, <2>1, <2>2, <2>3, <2>4, <2>5 DEF UndoableOf, Now
<1>9. \A i \in Items : ~(i > Len(results'[b]))
  BY <1>2, <1>3
<1> QED  BY <1>1, <1>5, <1>7, <1>8, <1>9 DEF JournalOf

\* Every step of every actor keeps it.
LEMMA JournalStep ==
    ASSUME IInv, UndoInv, [Next]_vars
    PROVE  UndoInv'
<1>1. ControlInv /\ ResultsFollowFiles /\ faults \in Nat /\ \A c \in Batches : JournalOf(c)
  BY DEF IInv, UndoInv
<1> DEFINE Kept == UNCHANGED <<results, item, groupRan, rows, then, component, faults>>
           Moved == \A c \in Batches : moved'[c] \subseteq moved[c]
           Asked == \A c \in Batches :
                       \/ request'[c] = request[c]
                       \/ worker'[c] = "off" /\ worker[c] = "off" /\ request'[c] \in Requests
           Walked == \A c \in Batches :
                       \/ worker'[c] = worker[c]
                       \/ Early(c) /\ worker'[c] \in {"validate", "wantLane", "register", "join"}
                       \/ /\ Past(c) /\ worker[c] \notin {"publish", "send"}
                          /\ worker'[c] \in {"join"} \cup Ended
           Held == /\ close = "closed" => close' = "closed"
                   /\ cancelled \subseteq cancelled'
                   /\ \A c \in Batches : OnStack(c) /\ moved'[c] # {} /\ close' # "closed" => OnStack(c)'
<1>2. ASSUME Kept, Moved, Asked, Walked, Held
      PROVE  UndoInv'
  <2>1. ASSUME NEW c \in Batches
        PROVE  JournalOf(c)'
    BY <1>1, <1>2, <2>1, OutsideKeepsJournal
  <2> QED  BY <1>1, <1>2, <2>1 DEF UndoInv
<1>3. UNCHANGED moved => Moved
  OBVIOUS
<1>4. UNCHANGED <<request>> => Asked
  OBVIOUS
<1>5. UNCHANGED <<close, stack>> /\ cancelled \subseteq cancelled' => Held
  BY DEF OnStack
<1>6. UNCHANGED worker => Walked
  OBVIOUS
<1>7. ASSUME NEW b \in Batches, Starting(b) \/ \E r \in Requests : Start(b, r)
      PROVE  UndoInv'
  <2>1. /\ Kept /\ UNCHANGED moved /\ UNCHANGED <<close, stack, cancelled>>
    BY <1>7 DEF Starting, Start, PassGate, TryLane, Preflight, Admit, Announce, batchWork,
                 working, steps, files, closing, undoing, service
  <2>2. Asked
    <3>1. CASE Starting(b)
      BY <3>1 DEF Starting, PassGate, TryLane, Preflight, Admit, Announce, StartAt
    <3>2. CASE \E r \in Requests : Start(b, r)
      <4>1. PICK r \in Requests : Start(b, r)
        BY <3>2
      <4>2. worker[b] = "off" /\ UNCHANGED worker
        BY <1>1, <4>1 DEF Start, ControlInv, OneBatchAtATime, batchWork, working
      <4> QED  BY <1>1, <4>1, <4>2 DEF Start, ResultsFollowFiles, FileTypes
    <3> QED  BY <1>7, <3>1, <3>2
  <2>3. Walked
    <3>1. CASE Announce(b)
      <4>1. worker[b] = "off" /\ worker' = [worker EXCEPT ![b] = "validate"]
        BY <1>1, <3>1 DEF Announce, ControlInv, OneBatchAtATime
      <4> QED  BY <1>1, <4>1 DEF ControlInv, ControlTypes, Early
    <3>2. CASE ~Announce(b)
      BY <1>7, <3>2 DEF Starting, Start, PassGate, TryLane, Preflight, Admit, batchWork, working
    <3> QED  BY <3>1, <3>2
  <2> HIDE DEF Kept, Moved, Asked, Walked, Held
  <2> QED  BY <1>2, <1>3, <1>5, <2>1, <2>2, <2>3
<1>8. ASSUME NEW b \in Batches,
             \/ Forwarding(b) \/ CancelCheck(b) \/ CancelSend(b)
             \/ Validate(b) \/ TakeLane(b) \/ Return(b) \/ Ending(b)
      PROVE  UndoInv'
  <2>1. /\ Kept /\ UNCHANGED moved /\ UNCHANGED <<request>> /\ UNCHANGED <<close, stack>>
    BY <1>8 DEF Forwarding, Take, Forward, StopForwarder, CancelCheck, CancelSend,
          Validate, TakeLane, Return, Ending, Join, Store, ClearActive, AnnounceEnd,
          MarkComplete, working, steps, files, starting, outside, closing, undoing
  <2>2. cancelled \subseteq cancelled'
    BY <1>8 DEF Forwarding, Take, Forward, StopForwarder, CancelCheck, CancelSend, RequestCancel,
          Validate, TakeLane, Return, Ending, Join, Store, ClearActive, AnnounceEnd,
          MarkComplete, service
  <2>3. Walked
    BY <1>1, <1>8 DEF Forwarding, Take, Forward, StopForwarder, CancelCheck, CancelSend,
          Validate, TakeLane, Return, Ending, Join, Store, ClearActive, AnnounceEnd,
          MarkComplete, working, Goto, ControlInv, ControlTypes, Ended, Early, Past
  <2> HIDE DEF Kept, Moved, Asked, Walked, Held
  <2> QED  BY <1>2, <1>3, <1>4, <1>5, <2>1, <2>2, <2>3
<1>9. CASE RequestClose \/ Closing \/ UndoCall \/ Undoing \/ UNCHANGED vars
  <2>1. /\ Kept /\ UNCHANGED <<request>> /\ UNCHANGED worker /\ cancelled \subseteq cancelled'
    BY <1>9 DEF RequestClose, Closing, CloseCancel, CloseRequest, CloseWait, TakeSession,
          Revoke, ReadActive, CloseLane, CloseUndo, UndoCall, Undoing, UndoLane, UndoReverse, vars,
          batchWork, working, steps, files, starting, service, RequestCancel
  <2>2. Moved /\ Held
    <3>1. CASE UndoReverse
      <4> DEFINE d == stack[Len(stack)]
      <4>1. /\ UNCHANGED <<close, cancelled>>
            /\ \/ moved' = [moved EXCEPT ![d] = {}] /\ stack' = SubSeq(stack, 1, Len(stack) - 1)
               \/ stack' = stack /\ \E left \in SUBSET moved[d] : moved' = [moved EXCEPT ![d] = left]
        BY <3>1 DEF UndoReverse, closing, service
      <4>2. stack \in Seq(Batches) /\ Len(stack) \in Nat /\ moved \in [Batches -> SUBSET Items]
        BY <1>1 DEF ControlInv, ControlTypes, ResultsFollowFiles, FileTypes
      <4>3. Moved
        <5> HIDE DEF d
        <5> QED  BY <4>1, <4>2
      <4>4. ASSUME NEW c \in Batches, OnStack(c), moved'[c] # {}
            PROVE  OnStack(c)'
        <5>1. CASE stack' = stack
          BY <4>4, <5>1 DEF OnStack
        <5>2. CASE moved' = [moved EXCEPT ![d] = {}] /\ stack' = SubSeq(stack, 1, Len(stack) - 1)
          <6>1. PICK k \in 1..Len(stack) : stack[k] = c
            BY <4>2, <4>4 DEF OnStack
          <6>2. c # d
            BY <4>2, <4>4, <5>2
          <6>3. k # Len(stack) /\ k \in 1..(Len(stack) - 1)
            BY <4>2, <6>1, <6>2
          <6>4. k \in DOMAIN stack' /\ stack'[k] = stack[k]
            BY <4>2, <5>2, <6>3
          <6> QED  BY <6>1, <6>4 DEF OnStack
        <5> QED  BY <4>1, <5>1, <5>2
      <4> HIDE DEF d
      <4> QED  BY <4>1, <4>3, <4>4
    <3>2. CASE CloseUndo
      BY <3>2, <2>1 DEF CloseUndo, batchWork, files
    <3>3. CASE ~UndoReverse /\ ~CloseUndo
      <4>1. UNCHANGED <<moved, stack>> /\ (close = "closed" => close' = "closed")
        BY <1>9, <3>3 DEF RequestClose, Closing, CloseCancel, CloseRequest, CloseWait, TakeSession,
          Revoke, ReadActive, CloseLane, UndoCall, Undoing, UndoLane, vars,
          batchWork, files, closing, undoing
      <4> QED  BY <2>1, <4>1 DEF OnStack
    <3> QED  BY <3>1, <3>2, <3>3
  <2> HIDE DEF Kept, Moved, Asked, Walked, Held
  <2> QED  BY <1>2, <1>4, <1>6, <2>1, <2>2
<1>10. ASSUME NEW b \in Batches, Summarise(b)
       PROVE  UndoInv'
  <2>1. /\ UNCHANGED <<results, item, groupRan, rows, then, component, moved, request, close, cancelled>>
        /\ worker[b] = "summarise" /\ worker' = [worker EXCEPT ![b] = "unregister"]
        /\ \/ /\ Undoable(b) /\ JournalClosed(b) /\ CompletedItems(b) # {}
              /\ stack' = Append(stack, b) /\ faults' = faults
           \/ /\ ~(Undoable(b) /\ JournalClosed(b) /\ CompletedItems(b) # {})
              /\ stack' = stack /\ faults' = faults
           \/ faults' = faults + 1 /\ stack' = stack
    BY <1>10 DEF Summarise, Fault, Goto, closing, starting, service, files, steps
  <2>2. stack \in Seq(Batches) /\ faults' \in Nat /\ (faults' = 0 => faults = 0)
    BY <1>1, <2>1 DEF ControlInv, ControlTypes
  <2>3. \A c \in Batches : OnStack(c) => OnStack(c)'
    <3>1. CASE stack' = stack
      BY <3>1 DEF OnStack
    <3>2. CASE stack' = Append(stack, b)
      BY <2>2, <3>2 DEF OnStack
    <3> QED  BY <2>1, <3>1, <3>2
  <2>4. ASSUME faults' = 0, Undoable(b), moved[b] # {}
        PROVE  OnStack(b)'
    <3>1. faults = 0 /\ faults' = faults
      BY <1>1, <2>1, <2>2, <2>4
    <3>2. UndoableOf(b)
      BY <1>1, <3>1 DEF JournalOf
    <3>3. CompletedItems(b) # {}
      BY <2>4, <3>2 DEF UndoableOf
    <3>4. \A i \in Items : i <= Len(results[b])
      <4>1. item[b] = N + 1
        BY <1>1, <2>1 DEF JournalOf
      <4>2. Len(results[b]) = item[b] - 1
        BY <1>1, <2>1 DEF ResultsFollowFiles, FilesOf
      <4> QED  BY <1>1, <4>1, <4>2, JournalTypes
    <3>5. JournalClosed(b)
      BY <2>4, <3>2, <3>4 DEF UndoableOf, JournalClosed
    <3>6. stack' = Append(stack, b)
      BY <1>1, <2>1, <2>4, <3>1, <3>3, <3>5
    <3> QED  BY <2>2, <3>6 DEF OnStack
  <2>5. ASSUME NEW c \in Batches
        PROVE  JournalOf(c)'
    <3>1. \/ worker'[c] = worker[c]
          \/ /\ worker[c] = "summarise" /\ worker'[c] = "unregister"
             /\ (faults' = 0 /\ Undoable(c) /\ moved[c] # {} => OnStack(c)')
      BY <1>1, <2>1, <2>4 DEF ControlInv, ControlTypes
    <3> QED  BY <1>1, <2>1, <2>2, <2>3, <3>1, OutsideKeepsJournal
  <2> QED  BY <2>2, <2>5 DEF UndoInv
<1>11. ASSUME NEW b \in Batches, InsideStep(b)
       PROVE  UndoInv'
  <2>1. JournalOf(b)' /\ faults' \in Nat /\ (faults' = 0 => faults = 0)
    BY <1>1, <1>11, StepsKeepJournal, PickKeepsJournal, GroupKeepsJournal, OutcomeKeepsJournal,
       RunKeepsJournal, BeginKeepsJournal, DrainKeepsJournal DEF InsideStep
  <2>2. /\ \A c \in Batches \ {b} : worker'[c] = worker[c] /\ then'[c] = then[c]
        /\ UNCHANGED <<close, stack, request>>
    BY <1>1, <1>11, InsideShape DEF ControlInv, outside, closing, undoing, starting
  <2>3. \A c \in Batches \ {b} : /\ results'[c] = results[c] /\ item'[c] = item[c]
                                 /\ groupRan'[c] = groupRan[c] /\ rows'[c] = rows[c]
                                 /\ moved'[c] = moved[c]
    <3>1. TrueOf(b)
      BY <1>1, TruthOfEach DEF IInv, ControlInv, DataTypes
    <3>2. CASE \/ Register(b) \/ SetShared(b) \/ Send(b) \/ Check(b) \/ PickComponent(b)
               \/ Report(b) \/ Unregister(b)
      BY <1>1, <3>1, <3>2, StepsKeepFiles
    <3>3. CASE Begin(b) \/ Drain(b)
      BY <1>1, <3>1, <3>3, BeginKeepsFiles, DrainKeepsFiles
    <3>4. CASE Run(b) \/ RenameComponent(b) \/ RenameOutcome(b)
      BY <1>1, <3>1, <3>4, RunKeepsFiles, RenameKeepsFiles
    <3> QED  BY <1>11, <3>2, <3>3, <3>4 DEF InsideStep
  <2>4. /\ cancelled \subseteq cancelled'
        /\ \A c \in Batches \ {b} : component'[c] = component[c]
    <3>1. CASE Register(b) \/ PickComponent(b)
      BY <1>1, <3>1 DEF Register, PickComponent, files, service, ResultsFollowFiles, FileTypes
    <3>2. CASE \/ SetShared(b) \/ Send(b) \/ Check(b) \/ Report(b) \/ Unregister(b) \/ Begin(b)
               \/ Drain(b) \/ Run(b) \/ RenameComponent(b) \/ RenameOutcome(b)
      BY <3>2 DEF SetShared, Send, Check, Report, Unregister, Begin, Drain, Run, RenameComponent,
                  RenameOutcome, files, service
    <3> QED  BY <1>11, <3>1, <3>2 DEF InsideStep
  <2>5. ASSUME NEW c \in Batches \ {b}
        PROVE  JournalOf(c)'
    <3>1. OnStack(c) => OnStack(c)'
      BY <2>2 DEF OnStack
    <3>2. moved'[c] \subseteq moved[c]
      BY <2>3
    <3> QED  BY <1>1, <2>1, <2>2, <2>3, <2>4, <3>1, <3>2, OutsideKeepsJournal
  <2> QED  BY <2>1, <2>5 DEF UndoInv
<1>12. ASSUME NEW b \in Batches, Executing(b)
       PROVE  InsideStep(b) \/ Validate(b) \/ TakeLane(b) \/ Summarise(b) \/ Return(b)
  BY <1>12 DEF Executing, InsideStep
<1> HIDE DEF Kept, Moved, Asked, Walked, Held
<1> QED  BY <1>7, <1>8, <1>9, <1>10, <1>11, <1>12 DEF Next

\* Without faults a batch that has moved files is on the undo stack from the end of its work
\* until the project closes or the batch is undone, wherever a cancellation stopped it
\* (service/undo.rs:34-40, execution.rs:859).
THEOREM MovedCanAlwaysBeUndone == Spec => []MovedCanBeUndone
<1>1. Init => UndoInv
  <2> SUFFICES ASSUME Init
               PROVE  UndoInv
    OBVIOUS
  <2>1. ASSUME NEW c \in Batches
        PROVE  JournalOf(c)
    <3>1. /\ component[c] = 0 /\ ~groupRan[c] /\ results[c] = <<>> /\ moved[c] = {}
          /\ \A i \in Items : rows[c][i] = "Absent"
          /\ request[c] = NoRequest /\ worker[c] = "off" /\ NoRequest.kind = "none" /\ Len(results[c]) = 0
      BY DEF Init, NoRequest
    <3>2. \A i \in Items : ~(i <= Len(results[c])) /\ ~(i <= 0)
      BY <3>1, RuntimeAssumption DEF Items
    <3>3. UndoableOf(c)
      BY <3>1, <3>2 DEF UndoableOf
    <3> QED  BY <3>1, <3>2, <3>3 DEF JournalOf
  <2>2. faults \in Nat
    BY DEF Init
  <2> QED  BY <2>1, <2>2 DEF UndoInv
<1>2. IInv /\ UndoInv /\ [Next]_vars => UndoInv'
  BY JournalStep
<1>3. IInv /\ UndoInv => MovedCanBeUndone
  <2> SUFFICES ASSUME IInv, UndoInv, NEW b \in Batches, Undoable(b),
                      worker[b] \in {"return", "join", "done"}, moved[b] # {}, close # "closed",
                      faults = 0
               PROVE  \E k \in DOMAIN stack : stack[k] = b
    BY DEF MovedCanBeUndone
  <2>1. Past(b) /\ UndoableOf(b)
    BY DEF Past, Ended, UndoInv, JournalOf
  <2> QED  BY <2>1 DEF UndoableOf, OnStack
<1> QED  BY <1>1, <1>2, <1>3, RuntimeInvariant, PTL DEF Spec

====
