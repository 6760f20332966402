--------------------------- MODULE VideoPlayback ---------------------------
(***************************************************************************)
(* One video on the screen: the open attempts of the view, which may be    *)
(* left before they are answered, the runtime whose transition lane orders *)
(* opens, commands, engine events and closes, the preview service with its *)
(* playback state, and the player with the thread that issues its seeks.   *)
(* Preview seeks do not take the lane, engine events wait in a queue for   *)
(* it, and the project may be closed at any time.                          *)
(*                                                                         *)
(* A position in the video is "mid" or "end": its end, and the last 150 ms *)
(* before it, in which a frame counts as the final one.  The player pauses *)
(* itself at the end.  Seek identifiers are the view's; a replay has its   *)
(* own.  An optional value is a set of at most one element.                *)
(***************************************************************************)
EXTENDS Naturals, Sequences

CONSTANTS
    Attempts,      \* the views of a video, numbered as they are shown
    Bounds         \* bounds: how many views are shown and how many are left,
                   \* how many transport commands (with the seeks that take
                   \* the lane), seek identifiers of one generation, failing
                   \* engine calls and closes of the project a behaviour has

ASSUME BoundsAssumption ==
    /\ Attempts \subseteq Nat \ {0}
    /\ Bounds \subseteq
           [views : Nat, leaves : Nat, commands : Nat, ids : Nat, faults : Nat,
            closes : Nat]

VARIABLES
    attempts,  \* the current open attempt and those that have ended
    open,      \* how far each video_open has come, its generation, and
               \* whether it broke
    lane,      \* the open attempt that holds the transition lane, or 0
    service,   \* the state of the preview service
    player,    \* the mounted player
    worker,    \* the state of the media command thread
    events,    \* engine events the runtime has not handled
    previews,  \* preview seeks that were admitted and not yet published
    used,      \* seek identifiers the view has used in this generation
    view,      \* what the view has left, and its calls that are under way
    project,   \* whether the project is open
    budget     \* the bounds of this behaviour: what is left of them

vars == <<attempts, open, lane, service, player, worker, events, previews,
          used, view, project, budget>>

None == 0
Positions == {"mid", "end"}
Replay == 0                    \* REPLAY_SEEK_REQUEST_ID
NoSeek == {}
Request(kind, id, pos) == [kind |-> kind, id |-> id, pos |-> pos]

NoPlayer == [up |-> FALSE, gen |-> None, playing |-> FALSE, pos |-> "mid",
             owed |-> FALSE, stepped |-> FALSE, shown |-> FALSE, gate |-> FALSE,
             halted |-> FALSE, unseen |-> FALSE, refused |-> FALSE]
\* A player that is told to play or to stand still, which makes its own halt void.
SetPlaying(p, on) == [p EXCEPT !.playing = on, !.halted = FALSE, !.unseen = FALSE,
                               !.refused = FALSE]
FreshWorker == [latest |-> 0, latestPreview |-> 0, preview |-> {}, commit |-> {},
                frame |-> "none", completing |-> {}, awaiting |-> FALSE,
                busy |-> {}]
\* resume and restart are what a completed seek does next.  Histories: overtaken,
\* the seek that is awaited was dropped for a later preview; and in the player
\* halted, it has paused itself, unseen, nothing is left that would tell so, and
\* refused, the pause at the end of the video failed.
Calm(s) == [s EXCEPT !.resume = FALSE, !.restart = FALSE, !.awaited = NoSeek]
Idle(s) == [Calm(s) EXCEPT !.session = None, !.state = "idle",
                           !.revealed = FALSE]
Stopped(s) == [s EXCEPT !.state = "failed"]

\* Engine calls fail now and then.
Fault ==
    /\ budget.faults > 0
    /\ budget' = [budget EXCEPT !.faults = @ - 1]

-----------------------------------------------------------------------------
(* The view shows one video after the other.  It may leave one at any time,*)
(* its calls travel separately.                                            *)

Sent(a) == open[a].pc # "unborn"

Mount(a) ==
    /\ ~Sent(a) /\ a <= budget.views
    /\ \A b \in Attempts : b < a => b \in view.left
    /\ open' = [open EXCEPT ![a].pc = "sent"]
    /\ UNCHANGED <<attempts, lane, service, player, worker, events, previews,
                   used, view, project, budget>>

Leave(a) ==
    /\ Sent(a) /\ a \notin view.left /\ a <= budget.leaves
    /\ view' = [view EXCEPT
                    !.left = @ \cup {a},
                    !.closes = IF open[a].pc = "opened" THEN @ \cup {open[a].gen}
                               ELSE @,
                    !.cancels = IF open[a].pc = "opened" THEN @ ELSE @ \cup {a}]
    /\ UNCHANGED <<attempts, open, lane, service, player, worker, events,
                   previews, used, project, budget>>

\* (mutant: an answer that comes after the view was left is dropped)
Answer_Dropped(a) ==
    /\ open[a].pc = "answered"
    /\ open' = [open EXCEPT ![a].pc = IF open[a].gen = None THEN "refused"
                                      ELSE "opened"]
    /\ UNCHANGED <<attempts, lane, service, player, worker, events, previews,
                   used, view, project, budget>>

\* The answer reaches the view, which closes a video it has left meanwhile.
Answer(a) ==
    /\ open[a].pc = "answered"
    /\ open' = [open EXCEPT ![a].pc = IF open[a].gen = None THEN "refused"
                                      ELSE "opened"]
    /\ view' = IF a \in view.left /\ open[a].gen # None
               THEN [view EXCEPT !.closes = @ \cup {open[a].gen}] ELSE view
    /\ UNCHANGED <<attempts, lane, service, player, worker, events, previews,
                   used, project, budget>>

\* An attempt that is cancelled before it begins will not begin.
CancelOpen(a) ==
    /\ a \in view.cancels
    /\ view' = [view EXCEPT !.cancels = @ \ {a}]
    /\ attempts' = [current |-> IF attempts.current = a THEN None
                                ELSE attempts.current,
                    ended |-> attempts.ended \cup {a}]
    /\ UNCHANGED <<open, lane, service, player, worker, events, previews, used,
                   project, budget>>

-----------------------------------------------------------------------------
(* Opening and closing                                                     *)

Wanted(a) == attempts.current = a
Goes(a, pc) == open' = [open EXCEPT ![a].pc = pc]
Breaks(a) == open' = [open EXCEPT ![a].pc = "finish", ![a].broke = TRUE]

\* The engine closes the player of the generation it is asked to close, or one
\* that has none yet; the service is idle in any case.
EngineClose(g) ==
    IF player.gen \in {None, g} THEN player' = NoPlayer /\ worker' = FreshWorker
    ELSE UNCHANGED <<player, worker>>

CloseActive ==
    IF service.session = None THEN UNCHANGED <<service, player, worker>>
    ELSE service' = Idle(service) /\ EngineClose(service.gen)

BeginOpen(a) ==
    /\ open[a].pc = "sent" /\ \A b \in Attempts : b < a => open[b].pc # "sent"
    /\ IF a \in attempts.ended
       THEN Goes(a, "answered") /\ UNCHANGED attempts
       ELSE /\ Goes(a, "lease")
            /\ attempts' = [current |-> a,
                            ended |-> attempts.ended
                                          \cup ({attempts.current} \ {None})]
    /\ UNCHANGED <<lane, service, player, worker, events, previews, used, view,
                   project, budget>>

\* The close of the project holds the gate until it has returned.
TakeLease(a) ==
    /\ open[a].pc = "lease" /\ project # "closing"
    /\ Goes(a, IF Wanted(a) THEN "resolve" ELSE "finish")
    /\ UNCHANGED <<attempts, lane, service, player, worker, events, previews,
                   used, view, project, budget>>

\* The entity may be gone, or not be a video that can be played.
Resolve(a) ==
    /\ open[a].pc = "resolve"
    /\ \/ Goes(a, IF Wanted(a) /\ project = "open" THEN "lane" ELSE "finish")
       \/ Wanted(a) /\ Breaks(a)
    /\ UNCHANGED <<attempts, lane, service, player, worker, events, previews,
                   used, view, project, budget>>

TakeLane(a) ==
    /\ open[a].pc = "lane" /\ lane = None
    /\ IF Wanted(a)
       THEN lane' = a /\ Goes(a, "prepare") /\ CloseActive
       ELSE Goes(a, "finish") /\ UNCHANGED <<lane, service, player, worker>>
    /\ UNCHANGED <<attempts, events, previews, used, view, project, budget>>

Prepare(a) ==
    /\ open[a].pc = "prepare"
    /\ \/ /\ Wanted(a)
          /\ player' = [NoPlayer EXCEPT !.up = TRUE] /\ worker' = FreshWorker
          /\ Goes(a, "start") /\ UNCHANGED <<lane, budget>>
       \/ /\ Wanted(a) /\ Fault
          /\ EngineClose(None)
          /\ Breaks(a) /\ lane' = None
       \/ /\ ~Wanted(a)
          /\ Goes(a, "finish") /\ lane' = None
          /\ UNCHANGED <<player, worker, budget>>
    /\ UNCHANGED <<attempts, service, events, previews, used, view, project>>

GenerationOpened(a) ==
    [gen |-> service.gen + 1, session |-> a, state |-> "ready",
     revealed |-> FALSE, resume |-> FALSE, restart |-> FALSE,
     awaited |-> NoSeek, overtaken |-> FALSE]

\* (mutant: an attempt cancelled while the surface was prepared keeps it)
Start_KeepsSurface(a) ==
    /\ open[a].pc = "start"
    /\ \/ /\ Wanted(a)
          /\ service' = GenerationOpened(a)
          /\ player' = [player EXCEPT !.gen = service.gen + 1, !.owed = TRUE]
          /\ used' = {}
          /\ Goes(a, "confirm") /\ UNCHANGED <<lane, worker, budget>>
       \/ /\ ~Wanted(a)
          /\ Goes(a, "finish") /\ lane' = None
          /\ UNCHANGED <<service, player, worker, used, budget>>
    /\ UNCHANGED <<attempts, events, previews, view, project>>

\* The service opens a generation and the player loads the file, paused.
Start(a) ==
    /\ open[a].pc = "start"
    /\ \/ /\ Wanted(a)
          /\ service' = GenerationOpened(a)
          /\ player' = [player EXCEPT !.gen = service.gen + 1, !.owed = TRUE]
          /\ used' = {}
          /\ Goes(a, "confirm") /\ UNCHANGED <<lane, worker, budget>>
       \/ /\ Wanted(a) /\ Fault
          /\ service' = Idle(GenerationOpened(a))
          /\ player' = NoPlayer /\ worker' = FreshWorker
          /\ Breaks(a) /\ lane' = None /\ UNCHANGED used
       \/ /\ ~Wanted(a)
          /\ EngineClose(None)
          /\ Goes(a, "finish") /\ lane' = None
          /\ UNCHANGED <<service, used, budget>>
    /\ UNCHANGED <<attempts, events, previews, view, project>>

Confirm(a) ==
    /\ open[a].pc = "confirm" /\ lane' = None
    /\ IF Wanted(a)
       THEN /\ open' = [open EXCEPT ![a].pc = "finish", ![a].gen = service.gen]
            /\ UNCHANGED <<service, player, worker>>
       ELSE Goes(a, "finish") /\ CloseActive
    /\ UNCHANGED <<attempts, events, previews, used, view, project, budget>>

FinishOpen(a) ==
    /\ open[a].pc = "finish" /\ Goes(a, "answered")
    /\ attempts' = IF Wanted(a)
                   THEN [current |-> None, ended |-> attempts.ended \cup {a}]
                   ELSE attempts
    /\ UNCHANGED <<lane, service, player, worker, events, previews, used, view,
                   project, budget>>

OpenStep(a) ==
    \/ BeginOpen(a) \/ TakeLease(a) \/ Resolve(a) \/ TakeLane(a)
    \/ Prepare(a) \/ Start(a) \/ Confirm(a) \/ FinishOpen(a)

CloseVideo(g) ==
    /\ g \in view.closes /\ lane = None
    /\ view' = [view EXCEPT !.closes = @ \ {g}]
    /\ IF service.gen = g THEN CloseActive
       ELSE UNCHANGED <<service, player, worker>>
    /\ UNCHANGED <<attempts, open, lane, events, previews, used, project, budget>>

Leased == {"resolve", "lane", "prepare", "start", "confirm"}

\* The close of the project waits for the opens that hold the gate.
CloseProject ==
    /\ budget.closes > 0
    /\ project = "open" /\ \A a \in Attempts : open[a].pc \notin Leased
    /\ project' = "closing"
    /\ UNCHANGED <<attempts, open, lane, service, player, worker, events,
                   previews, used, view, budget>>

CloseProjectVideo ==
    /\ project = "closing" /\ lane = None
    /\ project' = "closed" /\ CloseActive
    /\ UNCHANGED <<attempts, open, lane, events, previews, used, view, budget>>

-----------------------------------------------------------------------------
(* Commands.  Each takes the lane, checks the state of the service, calls  *)
(* the engine and settles the state; one whose engine call fails leaves    *)
(* the session failed.                                                     *)

Positionable == {"playing", "paused", "ended"}

Command ==
    /\ lane = None /\ service.session # None
    /\ budget.commands > 0
    /\ UNCHANGED <<attempts, open, lane, events, previews, view, project>>
Spend == budget' = [budget EXCEPT !.commands = @ - 1]
SpendAndFail ==
    /\ budget.faults > 0
    /\ budget' = [budget EXCEPT !.commands = @ - 1, !.faults = @ - 1]
    /\ service' = Stopped(service)

\* A commit supersedes the previews before it, and is dropped itself when it
\* arrives after a later request.
CommitPublished(w, r) ==
    IF r.id # Replay /\ r.id <= w.latest THEN w
    ELSE [w EXCEPT !.latest = IF r.id = Replay THEN @ ELSE r.id,
                   !.preview = {}, !.awaiting = FALSE, !.commit = {r}]

\* (mutant: the order of the identifiers is not looked at)
PreviewPublished_AnyOrder(w, r) ==
    [w EXCEPT !.latest = r.id, !.latestPreview = r.id, !.preview = {r},
              !.commit = {}, !.completing = {}, !.awaiting = FALSE]

\* A preview supersedes everything before it.
PreviewPublished(w, r) ==
    IF r.id <= w.latest THEN w
    ELSE [w EXCEPT !.latest = r.id, !.latestPreview = r.id,
                   !.preview = {r}, !.commit = {}, !.completing = {},
                   !.awaiting = FALSE]

Play ==
    /\ Command /\ UNCHANGED <<used, worker>>
    /\ service.state = "paused"
    /\ \/ /\ Spend
          /\ player' = SetPlaying(player, TRUE)
          /\ service' = [service EXCEPT !.state = "playing"]
       \/ SpendAndFail /\ UNCHANGED player

\* (mutant: the player is not restarted when the replay has arrived)
PlayAgain_NoRestart ==
    /\ Command /\ Spend /\ UNCHANGED <<used, player>>
    /\ service.state = "ended"
    /\ service' = [service EXCEPT !.state = "seeking", !.resume = TRUE,
                                  !.awaited = {Replay}, !.overtaken = FALSE]
    /\ worker' = CommitPublished(worker, Request("commit", Replay, "mid"))

\* Playing an ended video seeks to its start and plays from there.
PlayAgain ==
    /\ Command /\ Spend /\ UNCHANGED <<used, player>>
    /\ service.state = "ended"
    /\ service' = [service EXCEPT !.state = "seeking", !.resume = TRUE,
                                  !.restart = TRUE, !.awaited = {Replay},
                                  !.overtaken = FALSE]
    /\ worker' = CommitPublished(worker, Request("commit", Replay, "mid"))

Pause ==
    /\ Command /\ UNCHANGED <<used, worker>>
    /\ service.state = "playing"
    /\ \/ /\ Spend
          /\ player' = SetPlaying(player, FALSE)
          /\ service' = [service EXCEPT !.state = "paused"]
       \/ SpendAndFail /\ UNCHANGED player

Seek(id, pos) ==
    /\ Command /\ Spend /\ UNCHANGED player
    /\ id \notin used /\ used' = used \cup {id}
    /\ service.state \in Positionable
    /\ service' = [service EXCEPT !.state = "seeking",
                                  !.resume = service.state = "playing",
                                  !.restart = FALSE, !.awaited = {id},
                                  !.overtaken = id <= worker.latest]
    /\ worker' = CommitPublished(worker, Request("commit", id, pos))

Step(pos) ==
    /\ Command /\ UNCHANGED <<used, worker>>
    /\ service.state \in Positionable
    /\ \/ /\ Spend
          /\ player' = [SetPlaying(player, FALSE) EXCEPT !.stepped = TRUE,
                                                         !.owed = TRUE, !.pos = pos]
          /\ service' = [service EXCEPT !.state = "stepping"]
       \/ /\ SpendAndFail
          /\ \E on \in {FALSE, player.playing} :
                player' = [player EXCEPT !.playing = on]

\* A preview seek is admitted under the service's own lock and published to
\* the thread of the player after it.
AdmitPreview(id, pos) ==
    /\ service.session # None /\ service.state \in Positionable
    /\ id \notin used /\ used' = used \cup {id}
    /\ previews' = previews \cup {[gen |-> service.gen, id |-> id, pos |-> pos]}
    /\ UNCHANGED <<attempts, open, lane, service, player, worker, events, view,
                   project, budget>>

PublishPreview(p) ==
    /\ p \in previews /\ previews' = previews \ {p}
    /\ IF player.up /\ player.gen = p.gen
       THEN /\ worker' = PreviewPublished(worker, Request("preview", p.id, p.pos))
            /\ service' = [service EXCEPT !.overtaken =
                               \/ @
                               \/ /\ service.state = "seeking"
                                  /\ p.id > worker.latest]
       ELSE service' = Stopped(service) /\ UNCHANGED worker
    /\ UNCHANGED <<attempts, open, lane, player, events, used, view, project,
                   budget>>

Commands ==
    \/ Play \/ PlayAgain \/ Pause
    \/ \E pos \in Positions :
          \/ Step(pos)
          \/ \E id \in 1 .. budget.ids : Seek(id, pos) \/ AdmitPreview(id, pos)

-----------------------------------------------------------------------------
(* The player draws frames and its thread issues seeks, previews first, and*)
(* looks at the playback when a frame was drawn.                           *)

Alive == player.up /\ player.gen # None
Event(kind, id) == [gen |-> player.gen, kind |-> kind, id |-> id]

\* A frame is due after a load, a seek or a step, and while the video plays.
DrawFrame ==
    /\ Alive
    /\ player.owed \/ (player.playing /\ player.pos = "mid")
    /\ player' = [player EXCEPT !.owed = FALSE]
    /\ worker' = [worker EXCEPT !.frame = "new"]
    /\ UNCHANGED <<attempts, open, lane, service, events, previews, used, view,
                   project, budget>>

\* A video that shows a frame in its last 150 ms.
PlayOn ==
    /\ Alive /\ player.playing /\ player.pos = "mid"
    /\ player' = [player EXCEPT !.pos = "end", !.owed = TRUE]
    /\ UNCHANGED <<attempts, open, lane, service, worker, events, previews,
                   used, view, project, budget>>

\* At its end the player pauses itself (keep-open-pause).  Nobody learns of that when
\* no frame is left to look at, because the last one came earlier, or when the end
\* was announced before and no frame of before it has been looked at since.
ReachEnd ==
    /\ Alive /\ player.playing
    /\ LET due == player.owed \/ worker.frame # "none"
           told == \E i \in DOMAIN events :
                      events[i].gen = player.gen /\ events[i].kind = "ended"
       IN player' = [player EXCEPT !.playing = FALSE, !.halted = TRUE, !.pos = "end",
                                   !.unseen = ~told /\ (player.gate \/ ~due)]
    /\ UNCHANGED <<attempts, open, lane, service, worker, events, previews,
                   used, view, project, budget>>

TakeSeek ==
    /\ Alive /\ worker.busy = {}
    /\ \/ /\ worker.preview # {}
          /\ worker' = [worker EXCEPT !.busy = worker.preview, !.preview = {},
                            !.frame = IF @ = "new" THEN "old" ELSE @]
       \/ /\ worker.preview = {} /\ worker.commit # {} /\ ~worker.awaiting
          /\ worker' = [worker EXCEPT !.busy = worker.commit, !.commit = {}]
    /\ UNCHANGED <<attempts, open, lane, service, player, events, previews,
                   used, view, project, budget>>

\* A preview makes later commits wait for its frame, unless a later request
\* has superseded it; a commit waits for a frame at its target.
Issued(w, r) ==
    IF r.kind = "preview"
    THEN [w EXCEPT !.busy = {},
                   !.awaiting = \/ @
                                \/ w.latestPreview = r.id /\ w.latest = r.id]
    ELSE [w EXCEPT !.busy = {}, !.completing = {r}]

SeekIssued ==
    /\ Alive
    /\ \E r \in worker.busy :
          \/ /\ player' = [player EXCEPT !.pos = r.pos, !.owed = TRUE]
             /\ worker' = Issued(worker, r)
             /\ UNCHANGED <<events, budget>>
          \/ /\ Fault
             /\ events' = Append(events, Event("failed", NoSeek))
             /\ worker' = [worker EXCEPT !.busy = {}] /\ UNCHANGED player
    /\ UNCHANGED <<attempts, open, lane, service, previews, used, view, project>>

\* The seeks that the position seen now completes: that of a paused player
\* which has drawn its frame does, a playing one may be beyond it already.
Completions ==
    LET there == {r \in worker.completing : r.pos = player.pos}
    IN IF player.playing \/ player.owed THEN {{}, there} ELSE {there}

\* A frame is looked at: the first one is announced, a step is done, the
\* final frame is announced once, and a seek that has arrived is completed.
LookAtFrame ==
    /\ Alive /\ worker.busy = {} /\ worker.preview = {}
    /\ worker.awaiting \/ worker.commit = {}
    /\ worker.frame # "none"
    /\ \/ \E done \in Completions :
             LET atEnd == player.pos = "end"
                 Told(kind, if) == IF if THEN <<Event(kind, NoSeek)>> ELSE <<>>
             IN /\ events' = events
                       \o Told("first", ~player.shown) \o Told("stepped", player.stepped)
                       \o Told("ended", atEnd /\ ~player.gate)
                       \o IF done = {} THEN <<>>
                          ELSE <<Event("seeked", {r.id : r \in done})>>
                /\ player' = [player EXCEPT !.shown = TRUE, !.stepped = FALSE,
                                            !.gate = atEnd]
                /\ worker' = [worker EXCEPT
                                 !.frame = "none",
                                 !.awaiting = @ /\ worker.frame # "new",
                                 !.completing = @ \ done]
                /\ UNCHANGED budget
       \/ /\ Fault
          /\ events' = Append(events, Event("failed", NoSeek))
          /\ worker' = [worker EXCEPT !.frame = "none"] /\ UNCHANGED player
    /\ UNCHANGED <<attempts, open, lane, service, previews, used, view, project>>

MediaThread == TakeSeek \/ SeekIssued \/ LookAtFrame

-----------------------------------------------------------------------------
(* Engine events, one after the other and each with the lane in hand       *)

FirstFrame ==
    IF service.revealed \/ service.state # "ready"
    THEN UNCHANGED <<service, player, budget>>
    ELSE \/ /\ service' = [service EXCEPT !.state = "playing", !.revealed = TRUE]
            /\ player' = SetPlaying(player, TRUE) /\ UNCHANGED budget
         \/ /\ Fault /\ UNCHANGED player
            /\ \E r \in BOOLEAN :
                  service' = [Stopped(service) EXCEPT !.revealed = r]

\* (mutant: a pause that fails is an error)
Ended_PauseMustSucceed ==
    IF service.state \in {"ended", "failed"}
    THEN UNCHANGED <<service, player, budget>>
    ELSE \/ /\ service' = [service EXCEPT !.state = "ended"]
            /\ player' = SetPlaying(player, FALSE) /\ UNCHANGED budget
         \/ Fault /\ player' = [player EXCEPT !.refused = TRUE] /\ UNCHANGED service

Ended ==
    IF service.state \in {"ended", "failed"}
    THEN UNCHANGED <<service, player, budget>>
    ELSE /\ service' = [service EXCEPT !.state = "ended"]
         /\ \/ /\ player' = SetPlaying(player, FALSE)
               /\ UNCHANGED budget
            \/ Fault /\ player' = [player EXCEPT !.refused = TRUE]

FrameStepped ==
    /\ service' = IF service.state # "stepping" THEN service
                  ELSE [service EXCEPT !.state = "paused"]
    /\ UNCHANGED <<player, budget>>

SeekCompleted(done) ==
    IF service.state # "seeking" \/ service.awaited # done
    THEN UNCHANGED <<service, player, budget>>
    ELSE \/ /\ service' = [Calm(service) EXCEPT
                              !.state = IF service.resume THEN "playing"
                                        ELSE "paused"]
            /\ player' = IF service.restart THEN SetPlaying(player, TRUE) ELSE player
            /\ UNCHANGED budget
         \/ /\ service.restart /\ Fault
            /\ service' = Stopped(Calm(service)) /\ UNCHANGED player

Failed ==
    service' = Stopped(Calm(service)) /\ UNCHANGED <<player, budget>>

HandleEvent ==
    /\ lane = None /\ events # <<>> /\ events' = Tail(events)
    /\ LET e == Head(events)
       IN IF service.session = None \/ service.gen # e.gen
          THEN UNCHANGED <<service, player, budget>>
          ELSE CASE e.kind = "first" -> FirstFrame
                 [] e.kind = "ended" -> Ended
                 [] e.kind = "stepped" -> FrameStepped
                 [] e.kind = "seeked" -> SeekCompleted(e.id)
                 [] e.kind = "failed" -> Failed
    /\ UNCHANGED <<attempts, open, lane, worker, previews, used, view, project>>

-----------------------------------------------------------------------------
Init ==
    /\ attempts = [current |-> None, ended |-> {}]
    /\ open = [a \in Attempts |-> [pc |-> "unborn", gen |-> None, broke |-> FALSE]]
    /\ lane = None
    /\ service = [gen |-> 0, session |-> None, state |-> "idle",
                  revealed |-> FALSE, resume |-> FALSE, restart |-> FALSE,
                  awaited |-> NoSeek, overtaken |-> FALSE]
    /\ player = NoPlayer /\ worker = FreshWorker
    /\ events = <<>> /\ previews = {} /\ used = {}
    /\ view = [left |-> {}, cancels |-> {}, closes |-> {}]
    /\ project = "open"
    /\ budget \in Bounds

Next ==
    \/ \E a \in Attempts :
          Mount(a) \/ Leave(a) \/ Answer(a) \/ CancelOpen(a) \/ OpenStep(a)
    \/ \E g \in view.closes : CloseVideo(g)
    \/ \E p \in previews : PublishPreview(p)
    \/ CloseProject \/ CloseProjectVideo
    \/ Commands \/ MediaThread \/ DrawFrame \/ PlayOn \/ ReachEnd \/ HandleEvent

\* Every task that has begun goes on: tokio's locks are first in, first out,
\* the player draws the frames that are due and a playing video goes on.  The
\* user has to do nothing.
Spec ==
    /\ Init /\ [][Next]_vars
    /\ \A a \in Attempts : WF_vars(OpenStep(a) \/ Answer(a) \/ CancelOpen(a))
    /\ WF_vars(\E g \in view.closes : CloseVideo(g))
    /\ WF_vars(\E p \in previews : PublishPreview(p))
    /\ WF_vars(CloseProjectVideo) /\ WF_vars(HandleEvent)
    /\ WF_vars(MediaThread) /\ WF_vars(DrawFrame) /\ WF_vars(PlayOn \/ ReachEnd)

-----------------------------------------------------------------------------
(* Properties                                                              *)

\* While no open has the lane, a player is mounted exactly for the session
\* the service knows, with its generation: no way out of an open, a close or
\* a failure leaves a player on the screen that nobody can close, and a
\* closed project has none.
PlayerBelongsToSession ==
    /\ lane = None => /\ player.up <=> service.session # None
                      /\ player.up => player.gen = service.gen
    /\ project = "closed" => service.session = None /\ ~player.up

\* What the view is told of the playback is what the player does, although
\* commands, seeks that complete, final frames and steps arrive in any order:
\* it plays when the state says so, or has paused itself at the end of the video,
\* stands still when it is paused, stepping or ended, and was revealed before it
\* played.  (A pause that the engine refuses at the end is ignored, see
\* handle_engine_event.)
StateMatchesPlayer ==
    /\ service.state = "playing" => player.playing \/ player.halted
    /\ service.state \in {"paused", "stepping", "ended"} =>
           ~player.playing \/ player.refused
    /\ service.state \in Positionable \cup {"seeking", "stepping"} =>
           service.revealed

\* A seek ends: once its target has been shown, or the video has ended or
\* failed, the session can be controlled again.  (A preview that is published
\* while the commit of an earlier identifier is under way may break this, and so
\* may an end that nothing can tell of: see the README.)
SeekEnds ==
    []<>(service.state = "seeking" =>
             service.overtaken \/ player.unseen)

\* A video that has come to its end does not stay "playing", whatever commands,
\* seeks and previews are under way: the final frame is looked at, the end announced
\* and handled, also when the engine refuses the pause of a player that has paused
\* itself.  (Exempt are a player taken back from the end before that, and an end that
\* nothing can tell of: see the README.)
EndIsTold ==
    []<>(service.state = "playing" =>
             player.playing \/ player.pos = "mid" \/ player.unseen)

\* The player follows the view: a video that was left is closed in the end,
\* whether it was left before its open began, while it was under way or after
\* it was answered; and a video the user stays with is opened, whatever
\* happens to the calls for the one before.
PlayerFollowsView ==
    \A a \in Attempts :
        /\ []<>(a \in view.left => service.session # a)
        /\ []<>(Sent(a) => \/ open[a].pc = "opened" \/ a \in view.left
                           \/ open[a].broke \/ project # "open")

=============================================================================
