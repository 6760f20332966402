------------------------- MODULE VideoPlayback_proofs -------------------------
(***************************************************************************)
(* Theorems about VideoPlayback, for any number of views, generations,      *)
(* commands, seeks and failing engine calls: a player is mounted exactly    *)
(* for the session the service knows, and it does what the state says.      *)
(***************************************************************************)
EXTENDS VideoPlayback, SequenceTheorems, TLAPS

Places == {"unborn", "sent", "lease", "resolve", "lane", "prepare", "start", "confirm", "finish",
           "answered", "opened", "refused"}
States == {"idle", "ready", "playing", "paused", "ended", "seeking", "stepping", "failed"}
Kinds == {"first", "stepped", "ended", "seeked", "failed"}
SeekRequests == [kind : {"preview", "commit"}, id : Int, pos : Positions]
Services == [gen : Nat, session : Attempts \cup {None}, state : States, revealed : BOOLEAN,
             resume : BOOLEAN, restart : BOOLEAN, awaited : SUBSET Int, overtaken : BOOLEAN]
Players == [up : BOOLEAN, gen : Nat, playing : BOOLEAN, pos : Positions, owed : BOOLEAN,
            stepped : BOOLEAN, shown : BOOLEAN, gate : BOOLEAN, halted : BOOLEAN,
            unseen : BOOLEAN, refused : BOOLEAN]
Workers == [latest : Int, latestPreview : Int, preview : SUBSET SeekRequests,
            commit : SUBSET SeekRequests, frame : {"none", "old", "new"},
            completing : SUBSET SeekRequests, awaiting : BOOLEAN, busy : SUBSET SeekRequests]
EngineEvents == [gen : Nat, kind : Kinds, id : SUBSET Int]

\* The shape of the state.
Types ==
    /\ attempts \in [current : Attempts \cup {None}, ended : SUBSET Attempts]
    /\ open \in [Attempts -> [pc : Places, gen : Nat, broke : BOOLEAN]]
    /\ lane \in Attempts \cup {None}
    /\ service \in Services /\ player \in Players /\ worker \in Workers
    /\ events \in Seq(EngineEvents)
    /\ previews \in SUBSET [gen : Nat, id : Int, pos : Positions] /\ used \subseteq Int
    /\ view \in [left : SUBSET Attempts, cancels : SUBSET Attempts, closes : SUBSET Nat]
    /\ project \in {"open", "closing", "closed"}
    /\ budget \in [views : Nat, leaves : Nat, commands : Nat, ids : Nat, faults : Nat, closes : Nat]

Opening == {"prepare", "start", "confirm"}

\* Between the preparation of the surface and the load of the file there is a player of no
\* generation; otherwise the player and the session of the service come and go together.
OpensInTheLane ==
    /\ \A a \in Attempts : open[a].pc \in Opening <=> lane = a
    /\ \A a \in Attempts : open[a].pc = "start" =>
          service.session = None /\ player = [NoPlayer EXCEPT !.up = TRUE]
    /\ \A a \in Attempts : open[a].pc = "prepare" => service.session = None
    /\ service.session # None => player.up /\ player.gen = service.gen
    /\ service.session = None /\ (\A a \in Attempts : open[a].pc # "start") => player = NoPlayer

\* The close of the project waits for the opens that hold the gate, and keeps later ones out.
ClosedToOpens ==
    /\ project = "closing" => \A a \in Attempts : open[a].pc \notin Leased
    /\ project = "closed" =>
          /\ \A a \in Attempts : open[a].pc \notin Leased \ {"resolve"}
          /\ service.session = None

\* A seek that will resume a playing video has left it playing, unless the player has come to
\* the end and paused itself, one that will not has found it standing still, and only a replay
\* starts the player again.
SeeksKnowThePlayer ==
    service.state = "seeking" =>
        /\ service.restart => service.resume
        /\ service.resume /\ ~service.restart => player.playing \/ player.halted
        /\ ~service.resume => ~player.playing \/ player.refused

Says(i, kind) == events[i].gen = service.gen /\ events[i].kind = kind

\* Until the first frame of a generation is handled its announcement is ahead of that of the
\* final frame, or neither has been sent.
FirstFrameFirst ==
    /\ \A i \in 1..Len(events) : events[i].gen <= service.gen
    /\ service.session = None => service.state \in {"idle", "failed"}
    /\ service.session # None => service.state # "idle"
    /\ service.state = "ready" =>
          /\ ~service.revealed
          /\ \/ ~player.shown /\ \A i \in 1..Len(events) : ~Says(i, "first") /\ ~Says(i, "ended")
             \/ \E j \in 1..Len(events) : Says(j, "first") /\ \A i \in 1..j : ~Says(i, "ended")

IInv == /\ Types /\ OpensInTheLane /\ ClosedToOpens /\ SeeksKnowThePlayer /\ FirstFrameFirst
        /\ StateMatchesPlayer

-----------------------------------------------------------------------------
(* The helpers of the model. *)

\* What the service's transitions leave of its state.
LEMMA ServiceUpdates ==
    ASSUME NEW s \in Services
    PROVE  /\ Calm(s) \in Services /\ Calm(s).gen = s.gen /\ Calm(s).session = s.session
           /\ Calm(s).state = s.state /\ Calm(s).revealed = s.revealed
           /\ Idle(s) \in Services /\ Idle(s).gen = s.gen /\ Idle(s).session = None
           /\ Idle(s).state = "idle"
           /\ Stopped(s) \in Services /\ Stopped(s).gen = s.gen
           /\ Stopped(s).session = s.session /\ Stopped(s).state = "failed"
<1>1. Calm(s) \in Services /\ Calm(s).gen = s.gen /\ Calm(s).session = s.session
      /\ Calm(s).state = s.state /\ Calm(s).revealed = s.revealed
  BY DEF Calm, Services, NoSeek
<1>2. Idle(s) \in Services /\ Idle(s).gen = s.gen /\ Idle(s).session = None
      /\ Idle(s).state = "idle"
  BY <1>1 DEF Idle, Services, States
<1>3. Stopped(s) \in Services /\ Stopped(s).gen = s.gen
      /\ Stopped(s).session = s.session /\ Stopped(s).state = "failed"
  BY DEF Stopped, Services, States
<1> QED  BY <1>1, <1>2, <1>3

\* A player that is not mounted, and the media thread of one that is just mounted.
LEMMA NothingMounted ==
    /\ NoPlayer \in Players /\ ~NoPlayer.up /\ ~NoPlayer.playing /\ NoPlayer.gen = None
    /\ [NoPlayer EXCEPT !.up = TRUE] \in Players /\ FreshWorker \in Workers
    /\ [NoPlayer EXCEPT !.up = TRUE].gen = None /\ ~[NoPlayer EXCEPT !.up = TRUE].shown
    /\ [NoPlayer EXCEPT !.up = TRUE].up /\ ~[NoPlayer EXCEPT !.up = TRUE].playing
<1>1. /\ NoPlayer \in Players /\ ~NoPlayer.up /\ ~NoPlayer.playing /\ NoPlayer.gen = None
      /\ ~NoPlayer.shown
  BY DEF NoPlayer, Players, Positions, None
<1>2. FreshWorker \in Workers
  BY DEF FreshWorker, Workers
<1>3. ASSUME NEW q \in Players
      PROVE  LET r == [q EXCEPT !.up = TRUE]
             IN  r \in Players /\ r.gen = q.gen /\ r.shown = q.shown /\ r.up /\ r.playing = q.playing
  BY DEF Players
<1> QED  BY <1>1, <1>2, <1>3

\* A player that is told to play, or not to, does so, and its own halt is void.
LEMMA SetPlayingUpdates ==
    ASSUME NEW p \in Players, NEW on \in BOOLEAN
    PROVE  /\ SetPlaying(p, on) \in Players /\ SetPlaying(p, on).up = p.up
           /\ SetPlaying(p, on).gen = p.gen /\ SetPlaying(p, on).playing = on
           /\ SetPlaying(p, on).shown = p.shown
BY DEF SetPlaying, Players

\* An open that goes on is the only one that does.
LEMMA OpenUpdates ==
    ASSUME open \in [Attempts -> [pc : Places, gen : Nat, broke : BOOLEAN]], NEW a \in Attempts,
           NEW pc \in Places
    PROVE  /\ Goes(a, pc) => /\ open' \in [Attempts -> [pc : Places, gen : Nat, broke : BOOLEAN]]
                             /\ open'[a].pc = pc /\ \A c \in Attempts \ {a} : open'[c] = open[c]
           /\ Breaks(a) => /\ open' \in [Attempts -> [pc : Places, gen : Nat, broke : BOOLEAN]]
                          /\ open'[a].pc = "finish"
                          /\ \A c \in Attempts \ {a} : open'[c] = open[c]
           /\ \A g \in Nat : open' = [open EXCEPT ![a].pc = pc, ![a].gen = g] =>
                          /\ open' \in [Attempts -> [pc : Places, gen : Nat, broke : BOOLEAN]]
                          /\ open'[a].pc = pc /\ \A c \in Attempts \ {a} : open'[c] = open[c]
<1> DEFINE R == [pc : Places, gen : Nat, broke : BOOLEAN]
<1>1. ASSUME NEW q \in R, open' = [open EXCEPT ![a] = q]
      PROVE  /\ open' \in [Attempts -> R] /\ open'[a] = q
             /\ \A c \in Attempts \ {a} : open'[c] = open[c]
  BY <1>1
<1>2. /\ [open[a] EXCEPT !.pc = pc] \in R /\ [open[a] EXCEPT !.pc = pc].pc = pc
      /\ [open[a] EXCEPT !.pc = "finish", !.broke = TRUE] \in R
      /\ [open[a] EXCEPT !.pc = "finish", !.broke = TRUE].pc = "finish"
      /\ \A g \in Nat : /\ [open[a] EXCEPT !.pc = pc, !.gen = g] \in R
                         /\ [open[a] EXCEPT !.pc = pc, !.gen = g].pc = pc
  BY DEF Places
<1>3. Goes(a, pc) => open' = [open EXCEPT ![a] = [open[a] EXCEPT !.pc = pc]]
  BY DEF Goes
<1>4. Breaks(a) => open' = [open EXCEPT ![a] = [open[a] EXCEPT !.pc = "finish", !.broke = TRUE]]
  BY DEF Breaks
<1>5. ASSUME NEW g \in Nat
      PROVE  open' = [open EXCEPT ![a].pc = pc, ![a].gen = g] =>
                open' = [open EXCEPT ![a] = [open[a] EXCEPT !.pc = pc, !.gen = g]]
  OBVIOUS
<1> DEFINE Now(q) == /\ q \in R /\ open' = [open EXCEPT ![a] = q]
<1>6. \A q : Now(q) => /\ open' \in [Attempts -> R] /\ open'[a] = q
                       /\ \A c \in Attempts \ {a} : open'[c] = open[c]
  BY <1>1
<1>7. Goes(a, pc) => Now([open[a] EXCEPT !.pc = pc])
  BY <1>2, <1>3
<1>8. Breaks(a) => Now([open[a] EXCEPT !.pc = "finish", !.broke = TRUE])
  BY <1>2, <1>4
<1>9. \A g \in Nat : open' = [open EXCEPT ![a].pc = pc, ![a].gen = g] =>
                       Now([open[a] EXCEPT !.pc = pc, !.gen = g])
  BY <1>2, <1>5
<1> HIDE DEF Now
<1>10. Goes(a, pc) => /\ open' \in [Attempts -> R] /\ open'[a].pc = pc
                     /\ \A c \in Attempts \ {a} : open'[c] = open[c]
  BY <1>2, <1>6, <1>7
<1>11. Breaks(a) => /\ open' \in [Attempts -> R] /\ open'[a].pc = "finish"
                   /\ \A c \in Attempts \ {a} : open'[c] = open[c]
  BY <1>2, <1>6, <1>8
<1>12. ASSUME NEW g \in Nat, open' = [open EXCEPT ![a].pc = pc, ![a].gen = g]
       PROVE  /\ open' \in [Attempts -> R] /\ open'[a].pc = pc
              /\ \A c \in Attempts \ {a} : open'[c] = open[c]
  <2>1. Now([open[a] EXCEPT !.pc = pc, !.gen = g])
    BY <1>9, <1>12
  <2>2. [open[a] EXCEPT !.pc = pc, !.gen = g].pc = pc
    BY <1>2
  <2> QED  BY <1>6, <2>1, <2>2
<1> QED  BY <1>10, <1>11, <1>12

\* Closing what is active leaves neither session nor player.
LEMMA CloseActiveClears ==
    ASSUME Types, OpensInTheLane, \A a \in Attempts : open[a].pc # "start", CloseActive
    PROVE  /\ service' \in Services /\ player' = NoPlayer /\ worker' \in Workers
           /\ service'.session = None /\ service'.gen = service.gen
           /\ service' = service \/ service'.state = "idle"
<1>1. service \in Services /\ worker \in Workers
  BY DEF Types
<1>2. CASE service.session = None
  BY <1>1, <1>2 DEF CloseActive, OpensInTheLane
<1>3. CASE service.session # None
  <2>1. service' = Idle(service) /\ player' = NoPlayer /\ worker' = FreshWorker
    BY <1>3 DEF CloseActive, EngineClose, OpensInTheLane
  <2> QED  BY <1>1, <2>1, ServiceUpdates, NothingMounted
<1> QED  BY <1>2, <1>3

\* A step that leaves the playback alone keeps what is known of it.
LEMMA SamePlayback ==
    ASSUME SeeksKnowThePlayer, FirstFrameFirst, StateMatchesPlayer,
           UNCHANGED <<service, player, events>>
    PROVE  SeeksKnowThePlayer' /\ FirstFrameFirst' /\ StateMatchesPlayer'
BY DEF SeeksKnowThePlayer, FirstFrameFirst, StateMatchesPlayer, Says

\* A service with no session that has settled has nothing to match.
LEMMA SettledPlayback ==
    ASSUME Types, FirstFrameFirst, UNCHANGED events,
           service'.session = None, service'.state \in {"idle", "failed"},
           service'.gen \in Nat, service'.gen >= service.gen
    PROVE  SeeksKnowThePlayer' /\ FirstFrameFirst' /\ StateMatchesPlayer'
<1>1. \A i \in 1..Len(events) : events[i].gen \in Nat /\ service.gen \in Nat
  <2>1. events \in Seq(EngineEvents) /\ service.gen \in Nat
    BY DEF Types, Services
  <2>2. \A i \in 1..Len(events) : events[i] \in EngineEvents
    BY <2>1
  <2> QED  BY <2>1, <2>2 DEF EngineEvents
<1>2. \A i \in 1..Len(events) : events[i].gen <= service'.gen
  BY <1>1 DEF FirstFrameFirst
<1>3. FirstFrameFirst'
  BY <1>2 DEF FirstFrameFirst
<1> QED  BY <1>3 DEF SeeksKnowThePlayer, StateMatchesPlayer, Positionable

-----------------------------------------------------------------------------
(* The view and the opens. *)

ViewStep(a) ==
    \/ Mount(a) \/ Leave(a) \/ Answer(a) \/ CancelOpen(a)
    \/ BeginOpen(a) \/ TakeLease(a) \/ Resolve(a) \/ FinishOpen(a)

\* What happens away from the lane moves opens that are not in it.
LEMMA ViewKeeps ==
    ASSUME IInv, NEW a \in Attempts, ViewStep(a)
    PROVE  IInv'
<1>1. /\ Types /\ OpensInTheLane /\ ClosedToOpens
      /\ SeeksKnowThePlayer /\ FirstFrameFirst /\ StateMatchesPlayer
  BY DEF IInv
<1>2. UNCHANGED <<lane, service, player, worker, events, previews, used, project, budget>>
  BY DEF ViewStep, Mount, Leave, Answer, CancelOpen, BeginOpen, TakeLease, Resolve, FinishOpen
<1>3. /\ open' \in [Attempts -> [pc : Places, gen : Nat, broke : BOOLEAN]]
      /\ \A c \in Attempts \ {a} : open'[c] = open[c]
      /\ \/ open' = open
         \/ /\ open[a].pc \notin Opening /\ open'[a].pc \notin Opening
            /\ project = "open" \/ open'[a].pc \notin Leased
               \/ (project = "closed" /\ open'[a].pc = "resolve")
  <2>1. /\ open \in [Attempts -> [pc : Places, gen : Nat, broke : BOOLEAN]]
        /\ project \in {"open", "closing", "closed"}
    BY <1>1 DEF Types
  <2>2. \/ UNCHANGED open
        \/ /\ open[a].pc \notin Opening
           /\ \E pc \in Places \ Opening :
                 /\ Goes(a, pc) \/ (pc = "finish" /\ Breaks(a))
                 /\ project = "open" \/ pc \notin Leased \/ (project = "closed" /\ pc = "resolve")
    <3>1. CASE Mount(a)
      <4>1. open[a].pc = "unborn" /\ Goes(a, "sent")
        BY <3>1 DEF Mount, Sent, Goes
      <4> QED  BY <4>1 DEF Places, Opening, Leased
    <3>2. CASE Leave(a) \/ CancelOpen(a)
      BY <3>2 DEF Leave, CancelOpen
    <3>3. CASE Answer(a)
      <4>1. open[a].pc = "answered" /\ (Goes(a, "refused") \/ Goes(a, "opened"))
        BY <3>3 DEF Answer, Goes
      <4> QED  BY <4>1 DEF Places, Opening, Leased
    <3>4. CASE BeginOpen(a) \/ FinishOpen(a)
      BY <3>4 DEF BeginOpen, FinishOpen, Places, Opening, Leased
    <3>5. CASE TakeLease(a)
      BY <2>1, <3>5 DEF TakeLease, Places, Opening, Leased
    <3>6. CASE Resolve(a)
      <4>1. /\ {"lane", "finish"} \subseteq Places \ Opening /\ "finish" \notin Leased
            /\ open[a].pc \notin Opening
        BY <3>6 DEF Resolve, Places, Opening, Leased
      <4>2. \/ Goes(a, "lane") /\ project = "open"
            \/ Goes(a, "finish")
            \/ Breaks(a)
        BY <3>6 DEF Resolve
      <4> QED  BY <4>1, <4>2
    <3> QED  BY <3>1, <3>2, <3>3, <3>4, <3>5, <3>6 DEF ViewStep
  <2>3. CASE UNCHANGED open
    BY <2>1, <2>3
  <2>4. CASE ~UNCHANGED open
    <3>1. PICK pc \in Places \ Opening :
              /\ Goes(a, pc) \/ (pc = "finish" /\ Breaks(a))
              /\ project = "open" \/ pc \notin Leased \/ (project = "closed" /\ pc = "resolve")
      BY <2>2, <2>4
    <3>2. /\ open' \in [Attempts -> [pc : Places, gen : Nat, broke : BOOLEAN]]
          /\ open'[a].pc = pc /\ \A c \in Attempts \ {a} : open'[c] = open[c]
      BY <2>1, <3>1, OpenUpdates
    <3> QED  BY <2>2, <2>4, <3>1, <3>2
  <2> QED  BY <2>3, <2>4
<1>4. Types'
  <2>1. attempts' \in [current : Attempts \cup {None}, ended : SUBSET Attempts]
    BY <1>1 DEF ViewStep, Mount, Leave, Answer, CancelOpen, BeginOpen, TakeLease, Resolve,
                FinishOpen, Types
  <2>2. view' \in [left : SUBSET Attempts, cancels : SUBSET Attempts, closes : SUBSET Nat]
    <3>1. \A g \in Nat : view.closes \cup {g} \in SUBSET Nat
      BY <1>1 DEF Types
    <3>2. open[a].gen \in Nat /\ view \in [left : SUBSET Attempts, cancels : SUBSET Attempts,
                                          closes : SUBSET Nat]
      BY <1>1 DEF Types
    <3>3. CASE Leave(a)
      BY <3>1, <3>2, <3>3 DEF Leave
    <3>4. CASE Answer(a)
      BY <3>1, <3>2, <3>4 DEF Answer
    <3>5. CASE CancelOpen(a)
      BY <3>2, <3>5 DEF CancelOpen
    <3>6. CASE ~Leave(a) /\ ~Answer(a) /\ ~CancelOpen(a)
      BY <3>2, <3>6 DEF ViewStep, Mount, BeginOpen, TakeLease, Resolve, FinishOpen
    <3> QED  BY <3>3, <3>4, <3>5, <3>6
  <2> QED  BY <1>1, <1>2, <1>3, <2>1, <2>2 DEF Types
<1>5. OpensInTheLane'
  <2>1. \A c \in Attempts : \/ open'[c].pc = open[c].pc
                            \/ open[c].pc \notin Opening /\ open'[c].pc \notin Opening
    BY <1>3
  <2> QED  BY <1>1, <1>2, <2>1 DEF OpensInTheLane, Opening
<1>6. ClosedToOpens'
  BY <1>1, <1>2, <1>3 DEF ClosedToOpens, Leased
<1> QED  BY <1>1, <1>2, <1>4, <1>5, <1>6, SamePlayback DEF IInv

-----------------------------------------------------------------------------
(* The opens in the lane, and the closes. *)

\* What a behaviour spends of its bounds.
LEMMA BudgetUpdates ==
    ASSUME Types
    PROVE  LET B == [views : Nat, leaves : Nat, commands : Nat, ids : Nat, faults : Nat, closes : Nat]
           IN  /\ Fault => budget' \in B
               /\ budget.commands > 0 /\ Spend => budget' \in B
               /\ budget.commands > 0 /\ SpendAndFail => budget' \in B
<1>1. budget \in [views : Nat, leaves : Nat, commands : Nat, ids : Nat, faults : Nat, closes : Nat]
  BY DEF Types
<1>2. budget.faults > 0 => budget.faults - 1 \in Nat
  BY <1>1
<1>3. budget.commands > 0 => budget.commands - 1 \in Nat
  BY <1>1
<1> QED  BY <1>1, <1>2, <1>3 DEF Fault, Spend, SpendAndFail

\* The open that has the lane goes on, with the player that belongs to where it is.
LEMMA LaneKeeps ==
    ASSUME IInv, NEW a \in Attempts, TakeLane(a) \/ Prepare(a) \/ Start(a) \/ Confirm(a)
    PROVE  IInv'
<1>1. /\ Types /\ OpensInTheLane /\ ClosedToOpens
      /\ SeeksKnowThePlayer /\ FirstFrameFirst /\ StateMatchesPlayer
  BY DEF IInv
<1>2. /\ a # None /\ a \in Nat /\ None \notin Attempts
      /\ open \in [Attempts -> [pc : Places, gen : Nat, broke : BOOLEAN]]
      /\ service \in Services /\ worker \in Workers /\ player \in Players /\ service.gen \in Nat
      /\ lane \in Attempts \cup {None}
  BY <1>1, BoundsAssumption DEF Types, Services, None
<1>3. /\ UNCHANGED <<attempts, events, previews, view, project>>
      /\ open[a].pc \in {"lane", "prepare", "start", "confirm"}
      /\ project = "open"
  BY <1>1 DEF TakeLane, Prepare, Start, Confirm, ClosedToOpens, Leased, Types
<1>4. \A c \in Attempts \ {a} : open[c].pc \notin Opening
  <2>1. lane = a \/ lane = None
    <3>1. CASE TakeLane(a)
      BY <3>1 DEF TakeLane
    <3>2. CASE ~TakeLane(a)
      BY <1>1, <3>2 DEF Prepare, Start, Confirm, OpensInTheLane, Opening
    <3> QED  BY <3>1, <3>2
  <2> QED  BY <1>1, <1>2, <2>1 DEF OpensInTheLane
<1>5. ASSUME service' \in Services, player' \in Players, worker' \in Workers,
             used' \in SUBSET Int, lane' \in Attempts \cup {None}, NEW pc \in Places,
             open' \in [Attempts -> [pc : Places, gen : Nat, broke : BOOLEAN]], open'[a].pc = pc,
             \A c \in Attempts \ {a} : open'[c] = open[c],
             budget' \in [views : Nat, leaves : Nat, commands : Nat, ids : Nat, faults : Nat, closes : Nat],
             lane' = IF pc \in Opening THEN a ELSE None,
             pc = "start" => service'.session = None /\ player' = [NoPlayer EXCEPT !.up = TRUE],
             pc = "prepare" => service'.session = None,
             service'.session # None => player'.up /\ player'.gen = service'.gen,
             service'.session = None /\ pc # "start" => player' = NoPlayer,
             SeeksKnowThePlayer' /\ FirstFrameFirst' /\ StateMatchesPlayer'
      PROVE  IInv'
  <2>1. Types'
    BY <1>1, <1>3, <1>5 DEF Types
  <2>2. \A c \in Attempts : /\ open'[c].pc \in Opening <=> lane' = c
                            /\ open'[c].pc \in {"start", "prepare"} => c = a
    BY <1>2, <1>4, <1>5 DEF Opening
  <2>3. OpensInTheLane'
    BY <1>5, <2>2 DEF OpensInTheLane
  <2>4. ClosedToOpens'
    BY <1>3 DEF ClosedToOpens
  <2> QED  BY <1>5, <2>1, <2>3, <2>4 DEF IInv
<1>6. service.session = None => service.state \in {"idle", "failed"}
  BY <1>1 DEF FirstFrameFirst
<1>7. budget \in [views : Nat, leaves : Nat, commands : Nat, ids : Nat, faults : Nat, closes : Nat] /\ used \in SUBSET Int
  BY <1>1 DEF Types
<1>8. UNCHANGED <<service, player>> => SeeksKnowThePlayer' /\ FirstFrameFirst' /\ StateMatchesPlayer'
  BY <1>1, <1>3, SamePlayback
<1>9. ASSUME service'.session = None, service'.state \in {"idle", "failed"}, service' \in Services,
             service'.gen >= service.gen
      PROVE  SeeksKnowThePlayer' /\ FirstFrameFirst' /\ StateMatchesPlayer'
  <2>1. service'.gen \in Nat /\ UNCHANGED events
    BY <1>3, <1>9 DEF Services
  <2> QED  BY <1>1, <1>9, <2>1, SettledPlayback
<1>10. CASE TakeLane(a)
  <2>1. lane = None /\ UNCHANGED <<used, budget>> /\ \A c \in Attempts : open[c].pc \notin Opening
    BY <1>1, <1>2, <1>10 DEF TakeLane, OpensInTheLane
  <2>2. CASE Wanted(a)
    <3>1. lane' = a /\ Goes(a, "prepare") /\ CloseActive
      BY <1>10, <2>2 DEF TakeLane
    <3>2. /\ service' \in Services /\ player' = NoPlayer /\ worker' \in Workers
          /\ service'.session = None /\ service'.gen = service.gen
          /\ service' = service \/ service'.state = "idle"
      BY <1>1, <2>1, <3>1, CloseActiveClears DEF Opening
    <3>3. SeeksKnowThePlayer' /\ FirstFrameFirst' /\ StateMatchesPlayer'
      BY <1>2, <1>6, <1>9, <3>2
    <3> DEFINE pc == "prepare"
    <3>4. /\ pc \in Places /\ open'[a].pc = pc
          /\ open' \in [Attempts -> [pc : Places, gen : Nat, broke : BOOLEAN]]
          /\ \A c \in Attempts \ {a} : open'[c] = open[c]
      BY <1>2, <3>1, OpenUpdates DEF Places
    <3> QED  BY <1>2, <1>5, <1>7, <2>1, <3>1, <3>2, <3>3, <3>4, NothingMounted DEF Opening
  <2>3. CASE ~Wanted(a)
    <3>1. Goes(a, "finish") /\ UNCHANGED <<lane, service, player, worker>>
      BY <1>10, <2>3 DEF TakeLane
    <3>2. /\ "finish" \in Places /\ open'[a].pc = "finish"
          /\ open' \in [Attempts -> [pc : Places, gen : Nat, broke : BOOLEAN]]
          /\ \A c \in Attempts \ {a} : open'[c] = open[c]
      BY <1>2, <3>1, OpenUpdates DEF Places
    <3>3. /\ service.session # None => player.up /\ player.gen = service.gen
          /\ service.session = None => player = NoPlayer
      BY <1>1, <2>1 DEF OpensInTheLane, Opening
    <3> QED  BY <1>2, <1>5, <1>7, <1>8, <2>1, <3>1, <3>2, <3>3 DEF Opening
  <2> QED  BY <2>2, <2>3
<1>11. CASE Prepare(a)
  <2>1. /\ open[a].pc = "prepare" /\ UNCHANGED <<service, used>> /\ lane = a
        /\ service.session = None /\ player = NoPlayer
    BY <1>1, <1>4, <1>11 DEF Prepare, OpensInTheLane, Opening
  <2>2. SeeksKnowThePlayer' /\ FirstFrameFirst' /\ StateMatchesPlayer'
    BY <1>2, <1>6, <1>9, <2>1
  <2>3. CASE /\ player' = [NoPlayer EXCEPT !.up = TRUE] /\ worker' = FreshWorker
             /\ Goes(a, "start") /\ UNCHANGED <<lane, budget>>
    <3>1. /\ player' = [NoPlayer EXCEPT !.up = TRUE] /\ worker' = FreshWorker
          /\ Goes(a, "start") /\ UNCHANGED <<lane, budget>>
      BY <2>3
    <3>2. /\ "start" \in Places /\ open'[a].pc = "start"
          /\ open' \in [Attempts -> [pc : Places, gen : Nat, broke : BOOLEAN]]
          /\ \A c \in Attempts \ {a} : open'[c] = open[c]
      BY <1>2, <3>1, OpenUpdates DEF Places
    <3> QED  BY <1>2, <1>5, <1>7, <2>1, <2>2, <3>1, <3>2, NothingMounted DEF Opening
  <2>4. CASE \/ Fault /\ EngineClose(None) /\ Breaks(a) /\ lane' = None
             \/ Goes(a, "finish") /\ lane' = None /\ UNCHANGED <<player, worker, budget>>
    <3>1. /\ lane' = None /\ player' = NoPlayer /\ worker' \in Workers
          /\ UNCHANGED budget \/ Fault
          /\ Breaks(a) \/ Goes(a, "finish")
      <4>1. EngineClose(None) => player' = NoPlayer /\ worker' = FreshWorker
        BY <2>1, NothingMounted DEF EngineClose
      <4> QED  BY <1>2, <2>1, <2>4, <4>1, NothingMounted
    <3>2. /\ "finish" \in Places /\ open'[a].pc = "finish"
          /\ open' \in [Attempts -> [pc : Places, gen : Nat, broke : BOOLEAN]]
          /\ \A c \in Attempts \ {a} : open'[c] = open[c]
      BY <1>2, <3>1, OpenUpdates DEF Places
    <3>3. budget' \in [views : Nat, leaves : Nat, commands : Nat, ids : Nat, faults : Nat, closes : Nat]
      BY <1>1, <1>7, <3>1, BudgetUpdates
    <3> QED  BY <1>2, <1>5, <1>7, <2>1, <2>2, <3>1, <3>2, <3>3, NothingMounted DEF Opening
  <2> QED  BY <1>11, <2>3, <2>4 DEF Prepare
<1>12. CASE Start(a)
  <2>1. /\ open[a].pc = "start" /\ lane = a
        /\ service.session = None /\ player = [NoPlayer EXCEPT !.up = TRUE]
    BY <1>1, <1>12 DEF Start, OpensInTheLane, Opening
  <2>2. /\ GenerationOpened(a) \in Services /\ GenerationOpened(a).gen = service.gen + 1
        /\ GenerationOpened(a).session = a /\ GenerationOpened(a).state = "ready"
        /\ ~GenerationOpened(a).revealed
    BY <1>2 DEF GenerationOpened, Services, States, NoSeek
  <2>3. CASE /\ service' = GenerationOpened(a)
             /\ player' = [player EXCEPT !.gen = service.gen + 1, !.owed = TRUE]
             /\ used' = {} /\ Goes(a, "confirm") /\ UNCHANGED <<lane, worker, budget>>
    <3>1. /\ player' \in Players /\ player'.up /\ player'.gen = service.gen + 1 /\ ~player'.shown
      <4>1. player \in Players /\ player.up /\ ~player.shown
        BY <1>2, <2>1, NothingMounted
      <4>2. ASSUME NEW q \in Players, q.up, ~q.shown, NEW g \in Nat
            PROVE  LET r == [q EXCEPT !.gen = g, !.owed = TRUE]
                   IN  r \in Players /\ r.up /\ r.gen = g /\ ~r.shown
        BY <4>2 DEF Players
      <4>3. service.gen + 1 \in Nat
        BY <1>2
      <4> QED  BY <2>3, <4>1, <4>2, <4>3
    <3>2. /\ "confirm" \in Places /\ open'[a].pc = "confirm"
          /\ open' \in [Attempts -> [pc : Places, gen : Nat, broke : BOOLEAN]]
          /\ \A c \in Attempts \ {a} : open'[c] = open[c]
      BY <1>2, <2>3, OpenUpdates DEF Places
    <3>3. FirstFrameFirst'
      <4>1. \A i \in 1..Len(events) : events[i].gen \in Nat /\ events[i].gen <= service.gen
        <5>1. events \in Seq(EngineEvents)
          BY <1>1 DEF Types
        <5>2. \A i \in 1..Len(events) : events[i] \in EngineEvents
          BY <5>1
        <5> QED  BY <1>1, <5>2 DEF EngineEvents, FirstFrameFirst
      <4>2. \A i \in 1..Len(events) : events[i].gen <= service'.gen /\ events[i].gen # service'.gen
        BY <1>2, <2>2, <2>3, <4>1
      <4>3. UNCHANGED events
        BY <1>3
      <4> QED  BY <1>2, <2>2, <2>3, <3>1, <4>2, <4>3 DEF FirstFrameFirst, Says
    <3>4. SeeksKnowThePlayer' /\ StateMatchesPlayer'
      BY <2>2, <2>3 DEF SeeksKnowThePlayer, StateMatchesPlayer, Positionable
    <3> QED  BY <1>2, <1>5, <1>7, <2>1, <2>2, <2>3, <3>1, <3>2, <3>3, <3>4 DEF Opening
  <2>4. CASE /\ Fault /\ service' = Idle(GenerationOpened(a))
             /\ player' = NoPlayer /\ worker' = FreshWorker
             /\ Breaks(a) /\ lane' = None /\ UNCHANGED used
    <3>1. /\ service' \in Services /\ service'.session = None /\ service'.state = "idle"
          /\ service'.gen = service.gen + 1
      BY <2>2, <2>4, ServiceUpdates
    <3>2. SeeksKnowThePlayer' /\ FirstFrameFirst' /\ StateMatchesPlayer'
      BY <1>2, <1>9, <3>1
    <3>3. /\ "finish" \in Places /\ open'[a].pc = "finish"
          /\ open' \in [Attempts -> [pc : Places, gen : Nat, broke : BOOLEAN]]
          /\ \A c \in Attempts \ {a} : open'[c] = open[c]
      BY <1>2, <2>4, OpenUpdates DEF Places
    <3>4. budget' \in [views : Nat, leaves : Nat, commands : Nat, ids : Nat, faults : Nat, closes : Nat]
      BY <1>1, <2>4, BudgetUpdates
    <3> QED  BY <1>2, <1>5, <1>7, <2>4, <3>1, <3>2, <3>3, <3>4, NothingMounted DEF Opening
  <2>5. CASE EngineClose(None) /\ Goes(a, "finish") /\ lane' = None /\ UNCHANGED <<service, used, budget>>
    <3>1. player' = NoPlayer /\ worker' = FreshWorker
      BY <2>1, <2>5, NothingMounted DEF EngineClose
    <3>2. SeeksKnowThePlayer' /\ FirstFrameFirst' /\ StateMatchesPlayer'
      BY <1>2, <1>6, <1>9, <2>1, <2>5
    <3>3. /\ "finish" \in Places /\ open'[a].pc = "finish"
          /\ open' \in [Attempts -> [pc : Places, gen : Nat, broke : BOOLEAN]]
          /\ \A c \in Attempts \ {a} : open'[c] = open[c]
      BY <1>2, <2>5, OpenUpdates DEF Places
    <3> QED  BY <1>2, <1>5, <1>7, <2>1, <2>5, <3>1, <3>2, <3>3, NothingMounted DEF Opening
  <2> QED  BY <1>12, <2>3, <2>4, <2>5 DEF Start
<1>13. CASE Confirm(a)
  <2>1. /\ lane' = None /\ UNCHANGED <<used, budget>> /\ lane = a
        /\ \A c \in Attempts : open[c].pc # "start"
    BY <1>1, <1>4, <1>13 DEF Confirm, OpensInTheLane, Opening
  <2>2. CASE Wanted(a)
    <3>1. /\ open' = [open EXCEPT ![a].pc = "finish", ![a].gen = service.gen]
          /\ UNCHANGED <<service, player, worker>>
      BY <1>13, <2>2 DEF Confirm
    <3>2. /\ "finish" \in Places /\ open'[a].pc = "finish"
          /\ open' \in [Attempts -> [pc : Places, gen : Nat, broke : BOOLEAN]]
          /\ \A c \in Attempts \ {a} : open'[c] = open[c]
      <4>1. "finish" \in Places
        BY DEF Places
      <4> QED  BY <1>2, <3>1, <4>1, OpenUpdates
    <3>3. /\ service.session # None => player.up /\ player.gen = service.gen
          /\ service.session = None => player = NoPlayer
      BY <1>1, <2>1 DEF OpensInTheLane
    <3> QED  BY <1>2, <1>5, <1>7, <1>8, <2>1, <3>1, <3>2, <3>3 DEF Opening
  <2>3. CASE ~Wanted(a)
    <3>1. Goes(a, "finish") /\ CloseActive
      BY <1>13, <2>3 DEF Confirm
    <3>2. /\ service' \in Services /\ player' = NoPlayer /\ worker' \in Workers
          /\ service'.session = None /\ service'.gen = service.gen
          /\ service' = service \/ service'.state = "idle"
      BY <1>1, <2>1, <3>1, CloseActiveClears
    <3>3. SeeksKnowThePlayer' /\ FirstFrameFirst' /\ StateMatchesPlayer'
      BY <1>2, <1>6, <1>9, <3>2
    <3>4. /\ "finish" \in Places /\ open'[a].pc = "finish"
          /\ open' \in [Attempts -> [pc : Places, gen : Nat, broke : BOOLEAN]]
          /\ \A c \in Attempts \ {a} : open'[c] = open[c]
      BY <1>2, <3>1, OpenUpdates DEF Places
    <3> QED  BY <1>2, <1>5, <1>7, <2>1, <3>1, <3>2, <3>3, <3>4, NothingMounted DEF Opening
  <2> QED  BY <2>2, <2>3
<1> QED  BY <1>10, <1>11, <1>12, <1>13

\* A close leaves nothing on the screen, and the project is closed with no video open.
LEMMA CloseKeeps ==
    ASSUME IInv, CloseProject \/ CloseProjectVideo \/ \E g \in view.closes : CloseVideo(g)
    PROVE  IInv'
<1>1. /\ Types /\ OpensInTheLane /\ ClosedToOpens
      /\ SeeksKnowThePlayer /\ FirstFrameFirst /\ StateMatchesPlayer
  BY DEF IInv
<1>2. /\ service \in Services /\ worker \in Workers /\ player \in Players /\ service.gen \in Nat
  BY <1>1 DEF Types, Services
<1>3. /\ UNCHANGED <<attempts, open, lane, events, previews, used, budget>>
      /\ project' \in {"open", "closing", "closed"}
      /\ view' \in [left : SUBSET Attempts, cancels : SUBSET Attempts, closes : SUBSET Nat]
      /\ project' # project => \A a \in Attempts : open[a].pc \notin Leased
  <2>1. \A g : view.closes \ {g} \in SUBSET Nat
    BY <1>1 DEF Types
  <2>2. view \in [left : SUBSET Attempts, cancels : SUBSET Attempts, closes : SUBSET Nat]
        /\ project \in {"open", "closing", "closed"}
    BY <1>1 DEF Types
  <2> QED  BY <1>1, <2>1, <2>2 DEF CloseProject, CloseProjectVideo, CloseVideo, ClosedToOpens
<1>4. CASE UNCHANGED <<service, player, worker>> /\ (project' # "closed" \/ UNCHANGED project)
  <2>1. Types' /\ OpensInTheLane'
    BY <1>1, <1>3, <1>4 DEF Types, OpensInTheLane
  <2>2. ClosedToOpens'
    BY <1>1, <1>3, <1>4 DEF ClosedToOpens
  <2> QED  BY <1>1, <1>3, <1>4, <2>1, <2>2, SamePlayback DEF IInv
<1>5. CASE lane = None /\ CloseActive
  <2>1. \A a \in Attempts : open[a].pc \notin Opening
    BY <1>1, <1>5, BoundsAssumption DEF OpensInTheLane, None
  <2>2. /\ service' \in Services /\ player' = NoPlayer /\ worker' \in Workers
        /\ service'.session = None /\ service'.gen = service.gen
        /\ service' = service \/ service'.state = "idle"
    BY <1>1, <1>5, <2>1, CloseActiveClears DEF Opening
  <2>3. SeeksKnowThePlayer' /\ FirstFrameFirst' /\ StateMatchesPlayer'
    BY <1>1, <1>2, <1>3, <2>2, SettledPlayback DEF FirstFrameFirst
  <2>4. Types'
    BY <1>1, <1>3, <2>2, NothingMounted DEF Types
  <2>5. OpensInTheLane'
    BY <1>1, <1>3, <2>1, <2>2 DEF OpensInTheLane, Opening
  <2>6. ClosedToOpens'
    BY <1>1, <1>3, <2>2 DEF ClosedToOpens
  <2> QED  BY <2>3, <2>4, <2>5, <2>6 DEF IInv
<1> QED  BY <1>4, <1>5 DEF CloseProject, CloseProjectVideo, CloseVideo

-----------------------------------------------------------------------------
(* Commands, seeks, frames and events. *)

\* What the media command thread does with a seek.
LEMMA WorkerUpdates ==
    ASSUME NEW w \in Workers, NEW r \in SeekRequests
    PROVE  /\ CommitPublished(w, r) \in Workers /\ PreviewPublished(w, r) \in Workers
           /\ Issued(w, r) \in Workers
<1>1. {r} \in SUBSET SeekRequests /\ {} \in SUBSET SeekRequests /\ r.id \in Int
      /\ w.latest \in Int /\ w.latestPreview \in Int /\ w.awaiting \in BOOLEAN
  BY DEF SeekRequests, Workers
<1>2. CommitPublished(w, r) \in Workers
  BY <1>1 DEF CommitPublished, Workers
<1>3. PreviewPublished(w, r) \in Workers
  BY <1>1 DEF PreviewPublished, Workers
<1>4. Issued(w, r) \in Workers
  BY <1>1 DEF Issued, Workers
<1> QED  BY <1>2, <1>3, <1>4

\* While a video is on the screen its session and its player stay the same.
LEMMA PlaybackKeeps ==
    ASSUME IInv, UNCHANGED <<attempts, open, lane, view, project>>,
           service' \in Services, player' \in Players, worker' \in Workers,
           events' \in Seq(EngineEvents), used' \subseteq Int,
           previews' \in SUBSET [gen : Nat, id : Int, pos : Positions],
           budget' \in [views : Nat, leaves : Nat, commands : Nat, ids : Nat, faults : Nat, closes : Nat],
           service'.gen = service.gen, service'.session = service.session,
           player'.up = player.up, player'.gen = player.gen,
           service.session # None \/ UNCHANGED player,
           SeeksKnowThePlayer', FirstFrameFirst', StateMatchesPlayer'
    PROVE  IInv'
<1>1. Types /\ OpensInTheLane /\ ClosedToOpens
  BY DEF IInv
<1>2. Types'
  BY <1>1 DEF Types
<1>3. OpensInTheLane'
  BY <1>1 DEF OpensInTheLane
<1>4. ClosedToOpens'
  BY <1>1 DEF ClosedToOpens
<1> QED  BY <1>2, <1>3, <1>4 DEF IInv

\* The commands of the user.
LEMMA CommandsKeep ==
    ASSUME IInv, Commands
    PROVE  IInv'
<1>1. /\ Types /\ OpensInTheLane /\ ClosedToOpens
      /\ SeeksKnowThePlayer /\ FirstFrameFirst /\ StateMatchesPlayer
  BY DEF IInv
<1>2. /\ service \in Services /\ worker \in Workers /\ player \in Players /\ used \subseteq Int
      /\ service.gen \in Nat
      /\ events \in Seq(EngineEvents) /\ previews \in SUBSET [gen : Nat, id : Int, pos : Positions]
      /\ budget \in [views : Nat, leaves : Nat, commands : Nat, ids : Nat, faults : Nat, closes : Nat]
  BY <1>1 DEF Types, Services
<1>3. ASSUME NEW id \in 1..budget.ids, NEW pos \in Positions, AdmitPreview(id, pos)
      PROVE  IInv'
  <2>1. UNCHANGED <<attempts, open, lane, service, player, worker, events, view, project, budget>>
    BY <1>3 DEF AdmitPreview
  <2>2. used' \subseteq Int /\ previews' \in SUBSET [gen : Nat, id : Int, pos : Positions]
    <3>1. id \in Int /\ [gen |-> service.gen, id |-> id, pos |-> pos] \in [gen : Nat, id : Int, pos : Positions]
      BY <1>2
    <3> QED  BY <1>2, <1>3, <3>1 DEF AdmitPreview
  <2> QED  BY <1>1, <1>2, <2>1, <2>2, SamePlayback, PlaybackKeeps
<1>4. ASSUME NEW more \in BOOLEAN, NEW again \in BOOLEAN, NEW awaits \in SUBSET Int, NEW over \in BOOLEAN,
             service' = [service EXCEPT !.state = "seeking", !.resume = more, !.restart = again,
                                       !.awaited = awaits, !.overtaken = over]
      PROVE  /\ service' \in Services /\ service'.gen = service.gen /\ service'.state = "seeking"
             /\ service'.session = service.session /\ service'.revealed = service.revealed
             /\ service'.resume = more /\ service'.restart = again
  BY <1>2, <1>4 DEF Services, States
<1>5. ASSUME service' \in Services, service'.gen = service.gen,
             service'.session = service.session, service'.state \notin {"idle", "ready"},
             player' \in Players, player'.up = player.up, player'.gen = player.gen,
             worker' \in Workers, used' \subseteq Int, Command,
             budget' \in [views : Nat, leaves : Nat, commands : Nat, ids : Nat, faults : Nat, closes : Nat],
             SeeksKnowThePlayer', StateMatchesPlayer'
      PROVE  IInv'
  <2>1. /\ UNCHANGED <<attempts, open, lane, events, previews, view, project>>
        /\ service.session # None
    BY <1>5 DEF Command
  <2>2. FirstFrameFirst'
    BY <1>1, <1>5, <2>1 DEF FirstFrameFirst, Says
  <2> QED  BY <1>2, <1>5, <2>1, <2>2, PlaybackKeeps
<1>6. Command /\ (Spend \/ SpendAndFail) =>
          budget' \in [views : Nat, leaves : Nat, commands : Nat, ids : Nat, faults : Nat, closes : Nat]
  BY <1>1, BudgetUpdates DEF Command
<1>7. SpendAndFail => /\ service' \in Services /\ service'.gen = service.gen
                      /\ service'.session = service.session /\ service'.state = "failed"
  BY <1>2, ServiceUpdates DEF SpendAndFail
<1>8. \A on \in BOOLEAN : /\ [player EXCEPT !.playing = on] \in Players
                          /\ [player EXCEPT !.playing = on].up = player.up
                          /\ [player EXCEPT !.playing = on].gen = player.gen
  BY <1>2 DEF Players
<1>9. service'.state = "failed" => SeeksKnowThePlayer' /\ StateMatchesPlayer'
  BY DEF SeeksKnowThePlayer, StateMatchesPlayer, Positionable
<1>10. CASE Play \/ Pause
  <2>1. /\ Command /\ UNCHANGED <<used, worker>> /\ service.state \in {"paused", "playing"}
        /\ \/ /\ Spend
              /\ \E on \in BOOLEAN :
                    /\ player' = SetPlaying(player, on)
                    /\ service' = [service EXCEPT !.state = IF on THEN "playing" ELSE "paused"]
           \/ SpendAndFail /\ UNCHANGED player
    BY <1>10 DEF Play, Pause
  <2>2. CASE SpendAndFail /\ UNCHANGED player
    BY <1>2, <1>5, <1>6, <1>7, <1>9, <2>1, <2>2
  <2>3. CASE Spend /\ ~(SpendAndFail /\ UNCHANGED player)
    <3>1. PICK on \in BOOLEAN : /\ player' = SetPlaying(player, on)
                               /\ service' = [service EXCEPT !.state = IF on THEN "playing" ELSE "paused"]
      BY <2>1, <2>3
    <3> DEFINE s == IF on THEN "playing" ELSE "paused"
    <3>2. s \in States \ {"idle", "ready"} /\ service' = [service EXCEPT !.state = s]
      BY <3>1 DEF States
    <3>3. /\ service' \in Services /\ service'.gen = service.gen /\ service'.state = s
          /\ service'.session = service.session /\ service'.revealed = service.revealed
      BY <1>2, <3>2 DEF Services
    <3>4. service.revealed
      BY <1>1, <2>1 DEF StateMatchesPlayer, Positionable
    <3>5. /\ player' \in Players /\ player'.up = player.up /\ player'.gen = player.gen
          /\ player'.playing = on
      BY <1>2, <3>1, SetPlayingUpdates
    <3>6. SeeksKnowThePlayer' /\ StateMatchesPlayer'
      BY <3>3, <3>4, <3>5 DEF SeeksKnowThePlayer, StateMatchesPlayer, Positionable
    <3> QED  BY <1>2, <1>5, <1>6, <2>1, <2>3, <3>1, <3>2, <3>3, <3>5, <3>6
  <2> QED  BY <2>1, <2>2, <2>3
<1>11. CASE PlayAgain
  <2>1. /\ Command /\ Spend /\ UNCHANGED <<used, player>> /\ service.state = "ended"
        /\ service' = [service EXCEPT !.state = "seeking", !.resume = TRUE, !.restart = TRUE,
                                     !.awaited = {Replay}, !.overtaken = FALSE]
        /\ worker' = CommitPublished(worker, Request("commit", Replay, "mid"))
    BY <1>11 DEF PlayAgain
  <2>2. /\ service' \in Services /\ service'.gen = service.gen /\ service'.state = "seeking"
        /\ service'.session = service.session /\ service'.revealed = service.revealed
        /\ service'.resume /\ service'.restart
    <3>1. {Replay} \in SUBSET Int /\ TRUE \in BOOLEAN /\ FALSE \in BOOLEAN
      BY DEF Replay
    <3> QED  BY <1>4, <2>1, <3>1
  <2>3. worker' \in Workers
    <3>1. Request("commit", Replay, "mid") \in SeekRequests
      BY DEF Request, Replay, SeekRequests, Positions
    <3> QED  BY <1>2, <2>1, <3>1, WorkerUpdates
  <2>4. SeeksKnowThePlayer' /\ StateMatchesPlayer'
    BY <1>1, <2>1, <2>2 DEF SeeksKnowThePlayer, StateMatchesPlayer, Positionable
  <2> QED  BY <1>2, <1>5, <1>6, <2>1, <2>2, <2>3, <2>4
<1>12. ASSUME NEW id \in 1..budget.ids, NEW pos \in Positions, Seek(id, pos)
       PROVE  IInv'
  <2>1. /\ Command /\ Spend /\ UNCHANGED player /\ service.state \in Positionable
        /\ used' = used \cup {id}
        /\ service' = [service EXCEPT !.state = "seeking", !.resume = service.state = "playing",
                            !.restart = FALSE, !.awaited = {id}, !.overtaken = id <= worker.latest]
        /\ worker' = CommitPublished(worker, Request("commit", id, pos))
    BY <1>12 DEF Seek
  <2>2. id \in Int /\ used' \subseteq Int
    BY <1>2, <2>1
  <2>3. /\ service' \in Services /\ service'.gen = service.gen /\ service'.state = "seeking"
        /\ service'.session = service.session /\ service'.revealed = service.revealed
        /\ service'.resume = (service.state = "playing") /\ ~service'.restart
    <3>1. PICK more \in BOOLEAN, over \in BOOLEAN :
             /\ more = (service.state = "playing")
             /\ service' = [service EXCEPT !.state = "seeking", !.resume = more, !.restart = FALSE,
                                       !.awaited = {id}, !.overtaken = over]
      <4> DEFINE m == service.state = "playing"
                 o == id <= worker.latest
      <4>1. m \in BOOLEAN /\ o \in BOOLEAN
        OBVIOUS
      <4> WITNESS m \in BOOLEAN, o \in BOOLEAN
      <4> QED  BY <2>1
    <3>2. {id} \in SUBSET Int /\ FALSE \in BOOLEAN
      BY <2>2
    <3>3. /\ service' \in Services /\ service'.gen = service.gen /\ service'.state = "seeking"
          /\ service'.session = service.session /\ service'.revealed = service.revealed
          /\ service'.resume = more /\ service'.restart = FALSE
      BY <1>4, <3>1, <3>2
    <3> QED  BY <3>1, <3>3
  <2>4. worker' \in Workers
    <3>1. Request("commit", id, pos) \in SeekRequests
      BY <2>2 DEF Request, SeekRequests
    <3> QED  BY <1>2, <2>1, <3>1, WorkerUpdates
  <2>5. SeeksKnowThePlayer' /\ StateMatchesPlayer'
    BY <1>1, <2>1, <2>3 DEF SeeksKnowThePlayer, StateMatchesPlayer, Positionable
  <2> QED  BY <1>2, <1>5, <1>6, <2>1, <2>2, <2>3, <2>4, <2>5
<1>13. ASSUME NEW pos \in Positions, Step(pos)
       PROVE  IInv'
  <2>1. Command /\ UNCHANGED <<used, worker>> /\ service.state \in Positionable
    BY <1>13 DEF Step
  <2>2. CASE Spend /\ player' = [SetPlaying(player, FALSE) EXCEPT !.stepped = TRUE, !.owed = TRUE, !.pos = pos]
             /\ service' = [service EXCEPT !.state = "stepping"]
    <3>1. /\ player' \in Players /\ player'.up = player.up /\ player'.gen = player.gen
          /\ ~player'.playing
      <4>1. \A q \in Players :
               LET t == [q EXCEPT !.stepped = TRUE, !.owed = TRUE, !.pos = pos]
               IN  t \in Players /\ t.up = q.up /\ t.gen = q.gen /\ t.playing = q.playing
        BY DEF Players
      <4> QED  BY <1>2, <2>2, <4>1, SetPlayingUpdates
    <3>2. /\ service' \in Services /\ service'.gen = service.gen /\ service'.state = "stepping"
          /\ service'.session = service.session /\ service'.revealed = service.revealed
      BY <1>2, <2>2 DEF Services, States
    <3>3. SeeksKnowThePlayer' /\ StateMatchesPlayer'
      BY <1>1, <2>1, <3>1, <3>2 DEF SeeksKnowThePlayer, StateMatchesPlayer, Positionable
    <3> QED  BY <1>2, <1>5, <1>6, <2>1, <2>2, <3>1, <3>2, <3>3
  <2>3. CASE SpendAndFail /\ \E on \in {FALSE, player.playing} : player' = [player EXCEPT !.playing = on]
    <3>1. player.playing \in BOOLEAN
      BY <1>2 DEF Players
    <3> QED  BY <1>2, <1>5, <1>6, <1>7, <1>8, <1>9, <2>1, <2>3, <3>1
  <2> QED  BY <1>13, <2>2, <2>3 DEF Step
<1> QED  BY <1>3, <1>10, <1>11, <1>12, <1>13 DEF Commands

\* What is told when something has to be told.
LEMMA Telling ==
    ASSUME NEW s \in Seq(EngineEvents), NEW e \in EngineEvents, NEW told \in BOOLEAN, NEW t,
           t = s \o (IF told THEN <<e>> ELSE <<>>)
    PROVE  /\ t \in Seq(EngineEvents) /\ Len(t) = IF told THEN Len(s) + 1 ELSE Len(s)
           /\ \A i \in 1..Len(s) : t[i] = s[i]
           /\ \A i \in 1..Len(t) : i > Len(s) => t[i] = e
<1>1. CASE told
  <2>1. t = s \o <<e>>
    BY <1>1
  <2>2. <<e>> \in Seq(EngineEvents) /\ Len(<<e>>) = 1 /\ <<e>>[1] = e
    OBVIOUS
  <2> QED  BY <1>1, <2>1, <2>2
<1>2. CASE ~told
  <2>1. t = s \o <<>>
    BY <1>2
  <2>2. <<>> \in Seq(EngineEvents)
    BY EmptySeq
  <2> QED  BY <1>2, <2>1, <2>2
<1> QED  BY <1>1, <1>2

\* What the player announces comes after what it has announced, and the first frame before
\* anything else.
LEMMA EventsGrow ==
    ASSUME Types, FirstFrameFirst, UNCHANGED service, events' \in Seq(EngineEvents),
           Len(events') >= Len(events), \A i \in 1..Len(events) : events'[i] = events[i],
           \A i \in 1..Len(events') : i > Len(events) => events'[i].gen = service.gen,
           \/ /\ UNCHANGED player.shown
              /\ player.shown \/ \A i \in 1..Len(events') : i > Len(events) =>
                                     events'[i].kind \notin {"first", "ended"}
           \/ /\ ~player.shown /\ Len(events') > Len(events)
              /\ events'[Len(events) + 1].kind = "first"
    PROVE  FirstFrameFirst'
<1> DEFINE old == Len(events)
           new == Len(events')
<1>1. /\ old \in Nat /\ new \in Nat /\ old <= new /\ service.gen \in Nat
      /\ \A i \in 1..new : i \in 1..old \/ i > old
      /\ \A i \in 1..old : i \in 1..new
  BY DEF Types, Services
<1>2. \A i \in 1..old : (Says(i, "first")' <=> Says(i, "first")) /\ (Says(i, "ended")' <=> Says(i, "ended"))
  BY DEF Says
<1>3. \A i \in 1..new : events'[i].gen <= service'.gen
  BY <1>1 DEF FirstFrameFirst
<1>4. ASSUME service.state = "ready"
      PROVE  \/ ~player'.shown /\ \A i \in 1..new : ~Says(i, "first")' /\ ~Says(i, "ended")'
             \/ \E j \in 1..new : Says(j, "first")' /\ \A i \in 1..j : ~Says(i, "ended")'
  <2>1. CASE \E j \in 1..old : Says(j, "first") /\ \A i \in 1..j : ~Says(i, "ended")
    <3>1. PICK j \in 1..old : Says(j, "first") /\ \A i \in 1..j : ~Says(i, "ended")
      BY <2>1
    <3>2. j \in 1..new /\ \A i \in 1..j : i \in 1..old
      BY <1>1
    <3> QED  BY <1>2, <3>1, <3>2
  <2>2. CASE ~player.shown /\ \A i \in 1..old : ~Says(i, "first") /\ ~Says(i, "ended")
    <3>1. CASE /\ UNCHANGED player.shown
               /\ \A i \in 1..new : i > old => events'[i].kind \notin {"first", "ended"}
      <4>1. \A i \in 1..new : i > old => ~Says(i, "first")' /\ ~Says(i, "ended")'
        BY <3>1 DEF Says
      <4> QED  BY <1>1, <1>2, <2>2, <3>1, <4>1
    <3>2. CASE new > old /\ events'[old + 1].kind = "first"
      <4>1. PICK k : k = old + 1
        OBVIOUS
      <4>2. /\ k \in 1..new /\ k > old /\ events'[k].kind = "first" /\ events'[k].gen = service.gen
            /\ \A i \in 1..k : i \in 1..old \/ i = k
        BY <1>1, <3>2, <4>1
      <4>3. Says(k, "first")' /\ ~Says(k, "ended")'
        BY <4>2 DEF Says
      <4>4. \A i \in 1..k : ~Says(i, "ended")'
        BY <1>2, <2>2, <4>2, <4>3
      <4> QED  BY <4>2, <4>3, <4>4
    <3> QED  BY <2>2, <3>1, <3>2
  <2> QED  BY <1>4, <2>1, <2>2 DEF FirstFrameFirst
<1> QED  BY <1>3, <1>4 DEF FirstFrameFirst

\* The player draws, plays on and comes to its end, its thread issues seeks and looks at
\* frames, and a preview is published: what the state says of the player stays true.
LEMMA PlayerKeeps ==
    ASSUME IInv, MediaThread \/ DrawFrame \/ PlayOn \/ ReachEnd \/ \E p \in previews : PublishPreview(p)
    PROVE  IInv'
<1>1. /\ Types /\ OpensInTheLane /\ ClosedToOpens
      /\ SeeksKnowThePlayer /\ FirstFrameFirst /\ StateMatchesPlayer
  BY DEF IInv
<1>2. /\ service \in Services /\ worker \in Workers /\ player \in Players /\ used \subseteq Int
      /\ service.gen \in Nat
      /\ events \in Seq(EngineEvents) /\ previews \in SUBSET [gen : Nat, id : Int, pos : Positions]
      /\ budget \in [views : Nat, leaves : Nat, commands : Nat, ids : Nat, faults : Nat, closes : Nat]
  BY <1>1 DEF Types, Services
<1>3. Alive => service.session # None /\ player.gen = service.gen
  <2>1. NoPlayer.gen = None /\ [NoPlayer EXCEPT !.up = TRUE].gen = None
    BY NothingMounted
  <2> QED  BY <1>1, <2>1 DEF Alive, OpensInTheLane
<1>4. ASSUME NEW p \in previews, PublishPreview(p)
      PROVE  IInv'
  <2>1. /\ UNCHANGED <<attempts, open, lane, player, events, used, view, project, budget>>
        /\ previews' \in SUBSET [gen : Nat, id : Int, pos : Positions]
    BY <1>2, <1>4 DEF PublishPreview
  <2>2. CASE service' = Stopped(service) /\ UNCHANGED worker
    <3>1. /\ service' \in Services /\ service'.gen = service.gen /\ service'.state = "failed"
          /\ service'.session = service.session
      BY <1>2, <2>2, ServiceUpdates
    <3>2. SeeksKnowThePlayer' /\ FirstFrameFirst' /\ StateMatchesPlayer'
      BY <1>1, <2>1, <3>1 DEF SeeksKnowThePlayer, FirstFrameFirst, StateMatchesPlayer, Positionable, Says
    <3> QED  BY <1>2, <2>1, <2>2, <3>1, <3>2, PlaybackKeeps
  <2>3. CASE /\ worker' = PreviewPublished(worker, Request("preview", p.id, p.pos))
             /\ \E over \in BOOLEAN : service' = [service EXCEPT !.overtaken = over]
    <3>1. /\ service' \in Services /\ service'.gen = service.gen /\ service'.state = service.state
          /\ service'.session = service.session /\ service'.revealed = service.revealed
          /\ service'.resume = service.resume /\ service'.restart = service.restart
      BY <1>2, <2>3 DEF Services
    <3>2. worker' \in Workers
      <4>1. Request("preview", p.id, p.pos) \in SeekRequests
        BY <1>2 DEF Request, SeekRequests
      <4> QED  BY <1>2, <2>3, <4>1, WorkerUpdates
    <3>3. SeeksKnowThePlayer' /\ FirstFrameFirst' /\ StateMatchesPlayer'
      BY <1>1, <2>1, <3>1 DEF SeeksKnowThePlayer, FirstFrameFirst, StateMatchesPlayer, Says
    <3> QED  BY <1>2, <2>1, <3>1, <3>2, <3>3, PlaybackKeeps
  <2>4. \/ service' = Stopped(service) /\ UNCHANGED worker
        \/ /\ worker' = PreviewPublished(worker, Request("preview", p.id, p.pos))
           /\ service' = [service EXCEPT !.overtaken = service.overtaken \/ (service.state = "seeking" /\ p.id > worker.latest)]
    BY <1>4 DEF PublishPreview
  <2>5. service' = [service EXCEPT !.overtaken = service.overtaken \/ (service.state = "seeking" /\ p.id > worker.latest)]
          => \E over \in BOOLEAN : service' = [service EXCEPT !.overtaken = over]
    <3> DEFINE o == service.overtaken \/ (service.state = "seeking" /\ p.id > worker.latest)
    <3>1. o \in BOOLEAN
      OBVIOUS
    <3> HIDE DEF o
    <3>2. service' = [service EXCEPT !.overtaken = o] => \E over \in BOOLEAN : service' = [service EXCEPT !.overtaken = over]
      BY <3>1
    <3> QED  BY <3>2 DEF o
  <2> QED  BY <2>2, <2>3, <2>4, <2>5
<1>5. ASSUME UNCHANGED <<attempts, open, lane, service, previews, used, view, project>>,
             Alive, player' \in Players, worker' \in Workers, events' \in Seq(EngineEvents),
             budget' \in [views : Nat, leaves : Nat, commands : Nat, ids : Nat, faults : Nat, closes : Nat],
             player'.up = player.up, player'.gen = player.gen, player'.refused = player.refused,
             \/ player'.playing = player.playing /\ player'.halted = player.halted
             \/ ~player'.playing /\ player'.halted,
             Len(events') >= Len(events), \A i \in 1..Len(events) : events'[i] = events[i],
             \A i \in 1..Len(events') : i > Len(events) => events'[i].gen = service.gen,
             \/ /\ UNCHANGED player.shown
                /\ player.shown \/ \A i \in 1..Len(events') : i > Len(events) =>
                                       events'[i].kind \notin {"first", "ended"}
             \/ /\ ~player.shown /\ Len(events') > Len(events)
                /\ events'[Len(events) + 1].kind = "first"
      PROVE  IInv'
  <2>1. FirstFrameFirst'
    BY <1>1, <1>5, EventsGrow
  <2>2. SeeksKnowThePlayer' /\ StateMatchesPlayer'
    BY <1>1, <1>5 DEF SeeksKnowThePlayer, StateMatchesPlayer
  <2> QED  BY <1>2, <1>3, <1>5, <2>1, <2>2, PlaybackKeeps
<1>6. /\ Len(events) \in Nat /\ Len(events) >= Len(events)
      /\ \A i \in 1..Len(events) : ~(i > Len(events))
  BY <1>2
<1>7. CASE DrawFrame
  <2>1. /\ UNCHANGED <<attempts, open, lane, service, events, previews, used, view, project, budget>>
        /\ Alive
        /\ player' = [player EXCEPT !.owed = FALSE] /\ worker' = [worker EXCEPT !.frame = "new"]
    BY <1>7 DEF DrawFrame
  <2>2. /\ player' \in Players /\ player'.up = player.up /\ player'.gen = player.gen
        /\ player'.playing = player.playing /\ player'.refused = player.refused
        /\ player'.halted = player.halted
        /\ player'.shown = player.shown /\ worker' \in Workers
    BY <1>2, <2>1 DEF Players, Workers
  <2> QED  BY <1>2, <1>5, <1>6, <2>1, <2>2
<1>8. CASE PlayOn
  <2>1. /\ UNCHANGED <<attempts, open, lane, service, events, previews, used, view, project, budget, worker>>
        /\ Alive
        /\ player' = [player EXCEPT !.pos = "end", !.owed = TRUE]
    BY <1>8 DEF PlayOn
  <2>2. /\ player' \in Players /\ player'.up = player.up /\ player'.gen = player.gen
        /\ player'.playing = player.playing /\ player'.refused = player.refused
        /\ player'.halted = player.halted
        /\ player'.shown = player.shown
    BY <1>2, <2>1 DEF Players, Positions
  <2> QED  BY <1>2, <1>5, <1>6, <2>1, <2>2
<1>14. CASE ReachEnd
  <2>1. /\ UNCHANGED <<attempts, open, lane, service, events, previews, used, view, project, budget, worker>>
        /\ Alive
        /\ \E lost \in BOOLEAN :
              player' = [player EXCEPT !.playing = FALSE, !.halted = TRUE, !.pos = "end",
                                       !.unseen = lost]
    <3> DEFINE due == player.owed \/ worker.frame # "none"
               told == \E i \in DOMAIN events :
                          events[i].gen = player.gen /\ events[i].kind = "ended"
               lost == ~told /\ (player.gate \/ ~due)
    <3>1. /\ UNCHANGED <<attempts, open, lane, service, events, previews, used, view, project, budget, worker>>
          /\ Alive
          /\ player' = [player EXCEPT !.playing = FALSE, !.halted = TRUE, !.pos = "end",
                                      !.unseen = lost]
      BY <1>14 DEF ReachEnd
    <3>2. lost \in BOOLEAN
      OBVIOUS
    <3> HIDE DEF lost
    <3> QED  BY <3>1, <3>2
  <2>2. /\ player' \in Players /\ player'.up = player.up /\ player'.gen = player.gen
        /\ ~player'.playing /\ player'.halted /\ player'.refused = player.refused
        /\ player'.shown = player.shown
    <3>1. PICK lost \in BOOLEAN :
             player' = [player EXCEPT !.playing = FALSE, !.halted = TRUE, !.pos = "end",
                                      !.unseen = lost]
      BY <2>1
    <3>2. "end" \in Positions
      BY DEF Positions
    <3> QED  BY <1>2, <3>1, <3>2 DEF Players
  <2> QED  BY <1>2, <1>5, <1>6, <2>1, <2>2
<1>9. CASE TakeSeek
  <2>1. /\ UNCHANGED <<attempts, open, lane, service, player, events, previews, used, view, project, budget>>
        /\ Alive
    BY <1>9 DEF TakeSeek
  <2>2. worker' \in Workers
    <3>1. {} \in SUBSET SeekRequests /\ worker.preview \in SUBSET SeekRequests
          /\ worker.commit \in SUBSET SeekRequests
          /\ (IF worker.frame = "new" THEN "old" ELSE worker.frame) \in {"none", "old", "new"}
      BY <1>2 DEF Workers
    <3>2. worker \in Workers
      BY <1>2
    <3> DEFINE frame == IF worker.frame = "new" THEN "old" ELSE worker.frame
    <3>3. CASE worker' = [worker EXCEPT !.busy = worker.preview, !.preview = {}, !.frame = frame]
      <4> HIDE DEF frame
      <4> QED  BY <3>1, <3>2, <3>3 DEF frame, Workers
    <3>4. CASE worker' = [worker EXCEPT !.busy = worker.commit, !.commit = {}]
      BY <3>1, <3>2, <3>4 DEF Workers
    <3>5. \/ worker' = [worker EXCEPT !.busy = worker.preview, !.preview = {}, !.frame = frame]
          \/ worker' = [worker EXCEPT !.busy = worker.commit, !.commit = {}]
      BY <1>9 DEF TakeSeek
    <3> QED  BY <3>3, <3>4, <3>5
  <2> QED  BY <1>2, <1>5, <1>6, <2>1, <2>2
<1>10. ASSUME NEW kind \in Kinds, NEW id \in SUBSET Int
       PROVE  /\ Event(kind, id) \in EngineEvents /\ Event(kind, id).gen = player.gen
              /\ Event(kind, id).kind = kind
  BY <1>2 DEF Event, EngineEvents, Players
<1>11. ASSUME events' = Append(events, Event("failed", NoSeek)), Alive
       PROVE  /\ events' \in Seq(EngineEvents) /\ Len(events') >= Len(events)
              /\ \A i \in 1..Len(events) : events'[i] = events[i]
              /\ \A i \in 1..Len(events') : i > Len(events) => events'[i].gen = service.gen
              /\ \A i \in 1..Len(events') : i > Len(events) => events'[i].kind \notin {"first", "ended"}
  <2> DEFINE e == Event("failed", NoSeek)
  <2>1. e \in EngineEvents /\ e.gen = service.gen /\ e.kind = "failed"
    <3>1. NoSeek \in SUBSET Int /\ "failed" \in Kinds
      BY DEF NoSeek, Kinds
    <3> QED  BY <1>3, <1>10, <1>11, <3>1
  <2> HIDE DEF e
  <2>2. /\ Append(events, e) \in Seq(EngineEvents) /\ Len(Append(events, e)) = Len(events) + 1
        /\ \A i \in 1..Len(events) : Append(events, e)[i] = events[i]
        /\ Append(events, e)[Len(events) + 1] = e
    BY <1>2, <2>1
  <2>3. events' = Append(events, e)
    BY <1>11 DEF e
  <2>4. \A i \in 1..Len(events') : i > Len(events) => i = Len(events) + 1
    BY <1>6, <2>2, <2>3
  <2> QED  BY <1>6, <2>1, <2>2, <2>3, <2>4
<1>12. CASE SeekIssued
  <2>1. /\ UNCHANGED <<attempts, open, lane, service, previews, used, view, project>> /\ Alive
    BY <1>12 DEF SeekIssued
  <2>2. PICK r \in worker.busy :
          \/ /\ player' = [player EXCEPT !.pos = r.pos, !.owed = TRUE]
             /\ worker' = Issued(worker, r) /\ UNCHANGED <<events, budget>>
          \/ /\ Fault /\ events' = Append(events, Event("failed", NoSeek))
             /\ worker' = [worker EXCEPT !.busy = {}] /\ UNCHANGED player
    BY <1>12 DEF SeekIssued
  <2>3. r \in SeekRequests
    BY <1>2 DEF Workers
  <2>4. CASE /\ player' = [player EXCEPT !.pos = r.pos, !.owed = TRUE]
             /\ worker' = Issued(worker, r) /\ UNCHANGED <<events, budget>>
    <3>1. r.pos \in Positions
      BY <2>3 DEF SeekRequests
    <3>2. /\ player' \in Players /\ player'.up = player.up /\ player'.gen = player.gen
          /\ player'.playing = player.playing /\ player'.refused = player.refused
          /\ player'.halted = player.halted
          /\ player'.shown = player.shown
      BY <1>2, <2>4, <3>1 DEF Players
    <3>3. worker' \in Workers
      BY <1>2, <2>3, <2>4, WorkerUpdates
    <3> QED  BY <1>2, <1>5, <1>6, <2>1, <2>4, <3>2, <3>3
  <2>5. CASE /\ Fault /\ events' = Append(events, Event("failed", NoSeek))
             /\ worker' = [worker EXCEPT !.busy = {}] /\ UNCHANGED player
    <3>1. worker' \in Workers
      BY <1>2, <2>5 DEF Workers
    <3>2. budget' \in [views : Nat, leaves : Nat, commands : Nat, ids : Nat, faults : Nat, closes : Nat]
      BY <1>1, <2>5, BudgetUpdates
    <3> QED  BY <1>2, <1>5, <1>11, <2>1, <2>5, <3>1, <3>2
  <2> QED  BY <2>2, <2>4, <2>5
<1>13. CASE LookAtFrame
  <2>1. UNCHANGED <<attempts, open, lane, service, previews, used, view, project>> /\ Alive
    BY <1>13 DEF LookAtFrame
  <2>2. CASE /\ Fault /\ events' = Append(events, Event("failed", NoSeek))
             /\ worker' = [worker EXCEPT !.frame = "none"] /\ UNCHANGED player
    <3>1. worker' \in Workers
      BY <1>2, <2>2 DEF Workers
    <3>2. budget' \in [views : Nat, leaves : Nat, commands : Nat, ids : Nat, faults : Nat, closes : Nat]
      BY <1>1, <2>2, BudgetUpdates
    <3> QED  BY <1>2, <1>5, <1>11, <2>1, <2>2, <3>1, <3>2
  <2>3. ASSUME NEW done \in Completions,
               /\ events' = events
                     \o (IF ~player.shown THEN <<Event("first", NoSeek)>> ELSE <<>>)
                     \o (IF player.stepped THEN <<Event("stepped", NoSeek)>> ELSE <<>>)
                     \o (IF player.pos = "end" /\ ~player.gate THEN <<Event("ended", NoSeek)>> ELSE <<>>)
                     \o (IF done = {} THEN <<>> ELSE <<Event("seeked", {r.id : r \in done})>>),
               player' = [player EXCEPT !.shown = TRUE, !.stepped = FALSE, !.gate = player.pos = "end"],
               worker' = [worker EXCEPT !.frame = "none",
                                        !.awaiting = worker.awaiting /\ worker.frame # "new",
                                        !.completing = worker.completing \ done],
               UNCHANGED budget
        PROVE  IInv'
    <3>1. done \in SUBSET SeekRequests /\ worker.completing \ done \in SUBSET SeekRequests
      BY <1>2 DEF Completions, Workers
    <3>2. /\ player' \in Players /\ player'.up = player.up /\ player'.gen = player.gen
          /\ player'.playing = player.playing /\ player'.refused = player.refused
          /\ player'.halted = player.halted
          /\ player'.shown
      BY <1>2, <2>3 DEF Players
    <3>3. worker' \in Workers
      <4>1. (worker.awaiting /\ worker.frame # "new") \in BOOLEAN
        OBVIOUS
      <4> QED  BY <1>2, <2>3, <3>1, <4>1 DEF Workers
    <3> DEFINE e1 == Event("first", NoSeek)
               e2 == Event("stepped", NoSeek)
               e3 == Event("ended", NoSeek)
               e4 == Event("seeked", {r.id : r \in done})
               c1 == ~player.shown
               c2 == player.stepped
               c3 == player.pos = "end" /\ ~player.gate
               c4 == done # {}
               s1 == events \o (IF c1 THEN <<e1>> ELSE <<>>)
               s2 == s1 \o (IF c2 THEN <<e2>> ELSE <<>>)
               s3 == s2 \o (IF c3 THEN <<e3>> ELSE <<>>)
               s4 == s3 \o (IF c4 THEN <<e4>> ELSE <<>>)
    <3>4. /\ e1 \in EngineEvents /\ e1.gen = service.gen /\ e1.kind = "first"
          /\ e2 \in EngineEvents /\ e2.gen = service.gen
          /\ e3 \in EngineEvents /\ e3.gen = service.gen
          /\ e4 \in EngineEvents /\ e4.gen = service.gen
      <4>1. NoSeek \in SUBSET Int /\ {r.id : r \in done} \in SUBSET Int
            /\ {"first", "stepped", "ended", "seeked"} \subseteq Kinds
        BY <3>1 DEF NoSeek, SeekRequests, Kinds
      <4> QED  BY <1>3, <1>10, <2>1, <4>1
    <3>5. c1 \in BOOLEAN /\ c2 \in BOOLEAN /\ c3 \in BOOLEAN /\ c4 \in BOOLEAN
      BY <1>2 DEF Players
    <3>6. events' = s4
      BY <2>3
    <3> HIDE DEF e1, e2, e3, e4, c1, c2, c3, c4
    <3>7. /\ s1 \in Seq(EngineEvents) /\ Len(s1) = IF c1 THEN Len(events) + 1 ELSE Len(events)
          /\ \A i \in 1..Len(events) : s1[i] = events[i]
          /\ \A i \in 1..Len(s1) : i > Len(events) => s1[i] = e1
      <4>1. events \in Seq(EngineEvents)
        BY <1>2
      <4>2. \A t : t = events \o (IF c1 THEN <<e1>> ELSE <<>>) =>
                /\ t \in Seq(EngineEvents) /\ Len(t) = IF c1 THEN Len(events) + 1 ELSE Len(events)
                /\ \A i \in 1..Len(events) : t[i] = events[i]
                /\ \A i \in 1..Len(t) : i > Len(events) => t[i] = e1
        BY <3>4, <3>5, <4>1, Telling
      <4> QED  BY <4>2
    <3> HIDE DEF s1
    <3>8. /\ s2 \in Seq(EngineEvents) /\ Len(s2) = IF c2 THEN Len(s1) + 1 ELSE Len(s1)
          /\ \A i \in 1..Len(s1) : s2[i] = s1[i]
          /\ \A i \in 1..Len(s2) : i > Len(s1) => s2[i] = e2
      BY <3>4, <3>5, <3>7, Telling
    <3> HIDE DEF s2
    <3>9. /\ s3 \in Seq(EngineEvents) /\ Len(s3) = IF c3 THEN Len(s2) + 1 ELSE Len(s2)
          /\ \A i \in 1..Len(s2) : s3[i] = s2[i]
          /\ \A i \in 1..Len(s3) : i > Len(s2) => s3[i] = e3
      BY <3>4, <3>5, <3>8, Telling
    <3> HIDE DEF s3
    <3>10. /\ s4 \in Seq(EngineEvents) /\ Len(s4) = IF c4 THEN Len(s3) + 1 ELSE Len(s3)
           /\ \A i \in 1..Len(s3) : s4[i] = s3[i]
           /\ \A i \in 1..Len(s4) : i > Len(s3) => s4[i] = e4
      BY <3>4, <3>5, <3>9, Telling
    <3> HIDE DEF s4
    <3>11. /\ Len(events) \in Nat /\ Len(s1) \in Nat /\ Len(s2) \in Nat /\ Len(s3) \in Nat
           /\ Len(s4) \in Nat /\ Len(events) <= Len(s1) /\ Len(s1) <= Len(s2)
           /\ Len(s2) <= Len(s3) /\ Len(s3) <= Len(s4)
      <4>1. Len(events) \in Nat
        BY <1>2
      <4>2. Len(s1) \in Nat /\ Len(events) <= Len(s1)
        BY <3>7, <4>1
      <4>3. Len(s2) \in Nat /\ Len(s1) <= Len(s2)
        BY <3>8, <4>2
      <4>4. Len(s3) \in Nat /\ Len(s2) <= Len(s3)
        BY <3>9, <4>3
      <4>5. Len(s4) \in Nat /\ Len(s3) <= Len(s4)
        BY <3>10, <4>4
      <4> QED  BY <4>1, <4>2, <4>3, <4>4, <4>5
    <3>12. \A i \in 1..Len(s1) : s4[i] = s1[i]
      <4> SUFFICES ASSUME NEW i \in 1..Len(s1) PROVE s4[i] = s1[i]
        OBVIOUS
      <4>1. i \in 1..Len(s2) /\ i \in 1..Len(s3)
        BY <3>11
      <4>2. s2[i] = s1[i] /\ s3[i] = s2[i] /\ s4[i] = s3[i]
        BY <3>8, <3>9, <3>10, <4>1
      <4> QED  BY <4>2
    <3>13. \A i \in 1..Len(events) : s4[i] = events[i]
      BY <3>7, <3>11, <3>12
    <3>14. ASSUME NEW i \in 1..Len(s4), i > Len(events)
           PROVE  s4[i].gen = service.gen
      <4>1. s4[i] \in {e1, e2, e3, e4}
        <5>1. CASE i > Len(s3)
          BY <3>10, <5>1
        <5>2. CASE i > Len(s2) /\ i <= Len(s3)
          BY <3>9, <3>10, <3>11, <5>2
        <5>3. CASE i > Len(s1) /\ i <= Len(s2)
          BY <3>8, <3>9, <3>10, <3>11, <5>3
        <5>4. CASE i <= Len(s1)
          BY <3>7, <3>11, <3>12, <3>14, <5>4
        <5> QED  BY <3>11, <5>1, <5>2, <5>3, <5>4
      <4> QED  BY <3>4, <4>1
    <3>15. c1 => Len(s4) > Len(events) /\ s4[Len(events) + 1].kind = "first"
      BY <3>4, <3>7, <3>11, <3>12
    <3>16. /\ c1 <=> ~player.shown
           /\ ~c1 => player'.shown = player.shown
      BY <1>2, <3>2 DEF c1, Players
    <3>17. /\ events' \in Seq(EngineEvents) /\ Len(events') >= Len(events)
           /\ \A i \in 1..Len(events) : events'[i] = events[i]
           /\ \A i \in 1..Len(events') : i > Len(events) => events'[i].gen = service.gen
           /\ \/ UNCHANGED player.shown /\ player.shown
              \/ /\ ~player.shown /\ Len(events') > Len(events)
                 /\ events'[Len(events) + 1].kind = "first"
      <4>1. /\ events' \in Seq(EngineEvents) /\ Len(events') >= Len(events)
            /\ \A i \in 1..Len(events) : events'[i] = events[i]
        BY <3>6, <3>10, <3>11, <3>13
      <4>2. \A i \in 1..Len(events') : i > Len(events) => events'[i].gen = service.gen
        BY <3>6, <3>14
      <4>3. CASE c1
        BY <3>6, <3>15, <3>16, <4>1, <4>2, <4>3
      <4>4. CASE ~c1
        BY <3>16, <4>1, <4>2, <4>4
      <4> QED  BY <4>3, <4>4
    <3>18. budget' \in [views : Nat, leaves : Nat, commands : Nat, ids : Nat, faults : Nat, closes : Nat]
      BY <1>2, <2>3
    <3> QED  BY <1>5, <2>1, <3>2, <3>3, <3>17, <3>18
  <2> QED  BY <1>13, <2>2, <2>3 DEF LookAtFrame
<1> QED  BY <1>4, <1>7, <1>8, <1>9, <1>12, <1>13, <1>14 DEF MediaThread

\* An event that is handled and does not end the wait for the first frame leaves its
\* announcement where it is in the queue.
LEMMA TailKeeps ==
    ASSUME Types, FirstFrameFirst, events # <<>>, events' = Tail(events),
           service'.gen = service.gen, service'.session = service.session,
           service.session # None => service'.state # "idle",
           service.session = None => UNCHANGED service,
           service'.state = "ready" => UNCHANGED <<service, player>> /\ ~Says(1, "first")
    PROVE  FirstFrameFirst'
<1>1. /\ events' \in Seq(EngineEvents) /\ Len(events) \in Nat \ {0} /\ Len(events') = Len(events) - 1
      /\ \A i \in 1..Len(events') : events'[i] = events[i + 1]
  BY DEF Types
<1>2. \A i \in 1..Len(events') : i + 1 \in 1..Len(events)
  BY <1>1
<1>3. \A i \in 1..Len(events') : /\ Says(i, "first")' <=> Says(i + 1, "first")
                                 /\ Says(i, "ended")' <=> Says(i + 1, "ended")
  BY <1>1 DEF Says
<1>4. \A i \in 1..Len(events') : events'[i].gen <= service'.gen
  BY <1>1, <1>2 DEF FirstFrameFirst
<1>5. ASSUME service'.state = "ready"
      PROVE  \/ ~player'.shown /\ \A i \in 1..Len(events') : ~Says(i, "first")' /\ ~Says(i, "ended")'
             \/ \E j \in 1..Len(events') : Says(j, "first")' /\ \A i \in 1..j : ~Says(i, "ended")'
  <2>1. CASE ~player.shown /\ \A i \in 1..Len(events) : ~Says(i, "first") /\ ~Says(i, "ended")
    BY <1>2, <1>3, <1>5, <2>1
  <2>2. CASE \E j \in 1..Len(events) : Says(j, "first") /\ \A i \in 1..j : ~Says(i, "ended")
    <3>1. PICK j \in 1..Len(events) : Says(j, "first") /\ \A i \in 1..j : ~Says(i, "ended")
      BY <2>2
    <3>2. j # 1
      BY <1>5, <3>1
    <3>3. PICK k \in 1..Len(events') : k + 1 = j
      <4>1. j - 1 \in 1..Len(events') /\ (j - 1) + 1 = j
        BY <1>1, <3>2
      <4> QED  BY <4>1
    <3>4. \A i \in 1..k : i \in 1..Len(events') /\ i + 1 \in 1..j
      BY <1>1, <3>3
    <3> QED  BY <1>3, <3>1, <3>3, <3>4
  <2> QED  BY <1>5, <2>1, <2>2 DEF FirstFrameFirst
<1> QED  BY <1>4, <1>5 DEF FirstFrameFirst

\* Whatever is announced, and in whatever state, the state keeps saying what the player does.
LEMMA EventKeeps ==
    ASSUME IInv, HandleEvent
    PROVE  IInv'
<1>1. /\ Types /\ OpensInTheLane /\ ClosedToOpens
      /\ SeeksKnowThePlayer /\ FirstFrameFirst /\ StateMatchesPlayer
  BY DEF IInv
<1>2. /\ service \in Services /\ worker \in Workers /\ player \in Players /\ used \subseteq Int
      /\ service.gen \in Nat
      /\ events \in Seq(EngineEvents) /\ previews \in SUBSET [gen : Nat, id : Int, pos : Positions]
      /\ budget \in [views : Nat, leaves : Nat, commands : Nat, ids : Nat, faults : Nat, closes : Nat]
  BY <1>1 DEF Types, Services
<1>3. /\ UNCHANGED <<attempts, open, lane, worker, previews, used, view, project>>
      /\ events # <<>> /\ events' = Tail(events) /\ Head(events) = events[1]
  BY <1>2 DEF HandleEvent
<1>4. events' \in Seq(EngineEvents) /\ 1 \in 1..Len(events)
  BY <1>2, <1>3
<1>5. Fault => budget' \in [views : Nat, leaves : Nat, commands : Nat, ids : Nat, faults : Nat, closes : Nat]
  BY <1>1, BudgetUpdates
<1>6. ASSUME service' \in Services, service'.gen = service.gen, service'.session = service.session,
             player' \in Players, player'.up = player.up, player'.gen = player.gen,
             service.session # None, service'.state \notin {"idle", "ready"},
             UNCHANGED budget \/ Fault,
             SeeksKnowThePlayer', StateMatchesPlayer'
      PROVE  IInv'
  <2>1. FirstFrameFirst'
    BY <1>1, <1>3, <1>6, TailKeeps
  <2> QED  BY <1>2, <1>3, <1>4, <1>5, <1>6, <2>1, PlaybackKeeps
<1>7. ASSUME UNCHANGED <<service, player, budget>>, ~Says(1, "first") \/ service.state # "ready"
      PROVE  IInv'
  <2>1. SeeksKnowThePlayer' /\ StateMatchesPlayer'
    BY <1>1, <1>7 DEF SeeksKnowThePlayer, StateMatchesPlayer
  <2>2. FirstFrameFirst'
    <3>1. service.session # None => service.state # "idle"
      BY <1>1 DEF FirstFrameFirst
    <3> QED  BY <1>1, <1>3, <1>7, <3>1, TailKeeps
  <2> QED  BY <1>2, <1>3, <1>4, <1>7, <2>1, <2>2, PlaybackKeeps
<1>8. \A s \in States : /\ [service EXCEPT !.state = s] \in Services
                        /\ [service EXCEPT !.state = s].gen = service.gen
                        /\ [service EXCEPT !.state = s].session = service.session
                        /\ [service EXCEPT !.state = s].state = s
                        /\ [service EXCEPT !.state = s].revealed = service.revealed
  BY <1>2 DEF Services
<1>9. \A on \in BOOLEAN : /\ SetPlaying(player, on) \in Players
                          /\ SetPlaying(player, on).up = player.up
                          /\ SetPlaying(player, on).gen = player.gen
                          /\ SetPlaying(player, on).playing = on
  BY <1>2, SetPlayingUpdates
<1>10. service'.state = "failed" => SeeksKnowThePlayer' /\ StateMatchesPlayer'
  BY DEF SeeksKnowThePlayer, StateMatchesPlayer, Positionable
<1>11. {"playing", "paused", "ended", "failed"} \subseteq States
  BY DEF States
<1>12. CASE service.session = None \/ service.gen # Head(events).gen
  <2>1. UNCHANGED <<service, player, budget>>
    BY <1>12 DEF HandleEvent
  <2>2. service.session = None => service.state # "ready"
    BY <1>1 DEF FirstFrameFirst
  <2> QED  BY <1>3, <1>7, <1>12, <2>1, <2>2 DEF Says
<1>13. CASE service.session # None /\ service.gen = Head(events).gen
  <2> DEFINE kind == Head(events).kind
  <2>1. /\ service.state # "idle" /\ events[1].gen = service.gen /\ events[1].kind = kind
    BY <1>1, <1>3, <1>13 DEF FirstFrameFirst
  <2>2. \/ kind = "first" /\ FirstFrame
        \/ kind = "ended" /\ Ended
        \/ kind = "stepped" /\ FrameStepped
        \/ kind = "seeked" /\ SeekCompleted(Head(events).id)
        \/ kind = "failed" /\ Failed
    <3>1. kind \in Kinds
      <4>1. events[1] \in EngineEvents
        BY <1>2, <1>4
      <4> QED  BY <1>3, <4>1 DEF EngineEvents
    <3> QED  BY <1>13, <3>1 DEF HandleEvent, Kinds
  <2> HIDE DEF kind
  <2>3. CASE kind = "first" /\ FirstFrame
    <3>1. CASE service.state # "ready"
      BY <1>7, <2>3, <3>1 DEF FirstFrame
    <3>2. CASE service.state = "ready"
      <4>1. ~service.revealed
        BY <1>1, <3>2 DEF FirstFrameFirst
      <4>2. CASE /\ service' = [service EXCEPT !.state = "playing", !.revealed = TRUE]
                 /\ player' = SetPlaying(player, TRUE) /\ UNCHANGED budget
        <5>1. /\ service' \in Services /\ service'.gen = service.gen
              /\ service'.session = service.session /\ service'.state = "playing" /\ service'.revealed
          BY <1>2, <1>11, <4>2 DEF Services
        <5>2. SeeksKnowThePlayer' /\ StateMatchesPlayer'
          BY <1>9, <4>2, <5>1 DEF SeeksKnowThePlayer, StateMatchesPlayer, Positionable
        <5> QED  BY <1>6, <1>9, <1>13, <4>2, <5>1, <5>2
      <4>3. CASE /\ Fault /\ UNCHANGED player
                 /\ \E r \in BOOLEAN : service' = [Stopped(service) EXCEPT !.revealed = r]
        <5>1. /\ Stopped(service) \in Services /\ Stopped(service).gen = service.gen
              /\ Stopped(service).session = service.session /\ Stopped(service).state = "failed"
          BY <1>2, ServiceUpdates
        <5>2. /\ service' \in Services /\ service'.gen = service.gen
              /\ service'.session = service.session /\ service'.state = "failed"
          BY <4>3, <5>1 DEF Services
        <5> QED  BY <1>2, <1>6, <1>10, <1>13, <4>3, <5>2
      <4> QED  BY <2>3, <3>2, <4>1, <4>2, <4>3 DEF FirstFrame
    <3> QED  BY <3>1, <3>2
  <2>4. CASE kind = "ended" /\ Ended
    <3>1. CASE service.state \in {"ended", "failed"}
      BY <1>7, <2>4, <3>1 DEF Ended
    <3>2. CASE service.state \notin {"ended", "failed"}
      <4>1. service' = [service EXCEPT !.state = "ended"]
            /\ \/ player' = SetPlaying(player, FALSE) /\ UNCHANGED budget
               \/ Fault /\ player' = [player EXCEPT !.refused = TRUE]
        BY <2>4, <3>2 DEF Ended
      <4>2. service.state # "ready"
        <5>1. Says(1, "ended")
          BY <2>1, <2>4 DEF Says
        <5>2. \A j \in 1..Len(events) : 1 \in 1..j
          BY <1>4
        <5> QED  BY <1>1, <1>4, <5>1, <5>2 DEF FirstFrameFirst
      <4>3. service.revealed
        BY <1>1, <1>2, <2>1, <3>2, <4>2 DEF StateMatchesPlayer, Positionable, Services, States
      <4>4. /\ player' \in Players /\ player'.up = player.up /\ player'.gen = player.gen
            /\ ~player'.playing \/ player'.refused
        <5>1. CASE player' = SetPlaying(player, FALSE)
          BY <1>9, <5>1
        <5>2. CASE player' = [player EXCEPT !.refused = TRUE]
          BY <1>2, <5>2 DEF Players
        <5> QED  BY <4>1, <5>1, <5>2
      <4>5. /\ service' \in Services /\ service'.gen = service.gen /\ service'.state = "ended"
            /\ service'.session = service.session /\ service'.revealed
        BY <1>8, <1>11, <4>1, <4>3
      <4>6. SeeksKnowThePlayer' /\ StateMatchesPlayer'
        BY <4>4, <4>5 DEF SeeksKnowThePlayer, StateMatchesPlayer, Positionable
      <4> QED  BY <1>6, <1>13, <4>1, <4>4, <4>5, <4>6
    <3> QED  BY <3>1, <3>2
  <2>5. CASE kind = "stepped" /\ FrameStepped
    <3>1. ~Says(1, "first")
      BY <2>1, <2>5 DEF Says
    <3>2. CASE service.state # "stepping"
      BY <1>7, <2>5, <3>1, <3>2 DEF FrameStepped
    <3>3. CASE service.state = "stepping"
      <4>1. service' = [service EXCEPT !.state = "paused"] /\ UNCHANGED <<player, budget>>
        BY <2>5, <3>3 DEF FrameStepped
      <4>2. /\ service' \in Services /\ service'.gen = service.gen /\ service'.state = "paused"
            /\ service'.session = service.session /\ service'.revealed = service.revealed
        BY <1>8, <1>11, <4>1
      <4>3. SeeksKnowThePlayer' /\ StateMatchesPlayer'
        BY <1>1, <3>3, <4>1, <4>2 DEF SeeksKnowThePlayer, StateMatchesPlayer, Positionable
      <4> QED  BY <1>2, <1>6, <1>13, <4>1, <4>2, <4>3
    <3> QED  BY <3>2, <3>3
  <2>6. CASE kind = "seeked" /\ SeekCompleted(Head(events).id)
    <3>1. ~Says(1, "first")
      BY <2>1, <2>6 DEF Says
    <3>2. CASE UNCHANGED <<service, player, budget>>
      BY <1>7, <3>1, <3>2
    <3>3. /\ Calm(service) \in Services /\ Calm(service).gen = service.gen
          /\ Calm(service).session = service.session /\ Calm(service).revealed = service.revealed
          /\ player.playing \in BOOLEAN /\ service.resume \in BOOLEAN /\ service.restart \in BOOLEAN
      BY <1>2, ServiceUpdates DEF Players, Services
    <3>4. CASE /\ service.state = "seeking"
               /\ service' = [Calm(service) EXCEPT !.state = IF service.resume THEN "playing" ELSE "paused"]
               /\ player' = IF service.restart THEN SetPlaying(player, TRUE) ELSE player
               /\ UNCHANGED budget
      <4> DEFINE s == IF service.resume THEN "playing" ELSE "paused"
      <4>1. s \in States
        BY <1>11
      <4>2. \A q \in Services, t \in States :
                /\ [q EXCEPT !.state = t] \in Services /\ [q EXCEPT !.state = t].gen = q.gen
                /\ [q EXCEPT !.state = t].session = q.session /\ [q EXCEPT !.state = t].state = t
                /\ [q EXCEPT !.state = t].revealed = q.revealed
        BY DEF Services
      <4>3. service' = [Calm(service) EXCEPT !.state = s]
        BY <3>4
      <4>4. /\ service' \in Services /\ service'.gen = service.gen /\ service'.state = s
            /\ service'.session = service.session /\ service'.revealed = service.revealed
        <5> HIDE DEF s
        <5> QED  BY <3>3, <4>1, <4>2, <4>3
      <4>5. /\ service.revealed
            /\ service.restart => service.resume
            /\ service.resume /\ ~service.restart => player.playing \/ player.halted
            /\ ~service.resume => ~player.playing \/ player.refused
        BY <1>1, <3>4 DEF StateMatchesPlayer, SeeksKnowThePlayer
      <4>6. /\ player' \in Players /\ player'.up = player.up /\ player'.gen = player.gen
            /\ service.restart => player'.playing
            /\ ~service.restart => player' = player
        BY <1>2, <1>9, <3>4
      <4>7. /\ service.resume => player'.playing \/ player'.halted
            /\ ~service.resume => ~player'.playing \/ player'.refused
        BY <4>5, <4>6
      <4>8. SeeksKnowThePlayer' /\ StateMatchesPlayer'
        <5>1. s = "playing" \/ s = "paused"
          OBVIOUS
        <5>2. s = "playing" <=> service.resume
          OBVIOUS
        <5> HIDE DEF s
        <5> QED  BY <4>4, <4>5, <4>7, <5>1, <5>2
                 DEF SeeksKnowThePlayer, StateMatchesPlayer, Positionable
      <4>9. service'.state \notin {"idle", "ready"}
        BY <4>4
      <4> QED  BY <1>6, <1>13, <3>4, <4>4, <4>6, <4>8, <4>9
    <3>5. CASE Fault /\ service' = Stopped(Calm(service)) /\ UNCHANGED player
      <4>1. /\ service' \in Services /\ service'.gen = service.gen /\ service'.state = "failed"
            /\ service'.session = service.session
        BY <3>3, <3>5, ServiceUpdates
      <4> QED  BY <1>2, <1>6, <1>10, <1>13, <3>5, <4>1
    <3> QED  BY <2>6, <3>2, <3>4, <3>5 DEF SeekCompleted
  <2>7. CASE kind = "failed" /\ Failed
    <3>1. /\ service' = Stopped(Calm(service)) /\ UNCHANGED <<player, budget>>
      BY <2>7 DEF Failed
    <3>2. /\ service' \in Services /\ service'.gen = service.gen /\ service'.state = "failed"
          /\ service'.session = service.session
      BY <1>2, <3>1, ServiceUpdates
    <3> QED  BY <1>2, <1>6, <1>10, <1>13, <3>1, <3>2
  <2> QED  BY <2>2, <2>3, <2>4, <2>5, <2>6, <2>7
<1> QED  BY <1>12, <1>13

-----------------------------------------------------------------------------
(* The invariant and the theorems. *)

\* The inductive invariant of the playback: the open that has the lane and the player that
\* belongs to where it is, what a seek knows of the player, and the first frame of a
\* generation ahead of its final one (runtime.rs, engine.rs).
THEOREM PlaybackInvariant == Spec => []IInv
<1>1. Init => IInv
  <2> SUFFICES ASSUME Init
               PROVE  IInv
    OBVIOUS
  <2>1. Types
    <3>1. service \in Services
      BY DEF Init, Services, States, NoSeek, None
    <3>2. open \in [Attempts -> [pc : Places, gen : Nat, broke : BOOLEAN]]
      BY DEF Init, Places, None
    <3>3. budget \in [views : Nat, leaves : Nat, commands : Nat, ids : Nat, faults : Nat, closes : Nat]
      BY BoundsAssumption DEF Init
    <3>4. events \in Seq(EngineEvents)
      BY EmptySeq DEF Init
    <3> QED  BY <3>1, <3>2, <3>3, <3>4, NothingMounted DEF Init, Types
  <2>2. OpensInTheLane
    BY BoundsAssumption DEF Init, OpensInTheLane, Opening, None
  <2>3. ClosedToOpens /\ SeeksKnowThePlayer /\ StateMatchesPlayer
    BY DEF Init, ClosedToOpens, SeeksKnowThePlayer, StateMatchesPlayer, Positionable
  <2>4. FirstFrameFirst
    <3>1. Len(events) = 0 /\ service.state = "idle" /\ service.session = None
      BY DEF Init
    <3> QED  BY <3>1 DEF FirstFrameFirst
  <2> QED  BY <2>1, <2>2, <2>3, <2>4 DEF IInv
<1>2. IInv /\ [Next]_vars => IInv'
  <2> SUFFICES ASSUME IInv, [Next]_vars
               PROVE  IInv'
    OBVIOUS
  <2>1. ASSUME NEW a \in Attempts,
               Mount(a) \/ Leave(a) \/ Answer(a) \/ CancelOpen(a) \/ OpenStep(a)
        PROVE  IInv'
    BY <2>1, ViewKeeps, LaneKeeps DEF OpenStep, ViewStep
  <2>2. CASE UNCHANGED vars
    <3>1. UNCHANGED <<attempts, open, lane, service, player, worker, events, previews, used, view,
                      project, budget>>
      BY <2>2 DEF vars
    <3> QED  BY <3>1, SamePlayback DEF IInv, Types, OpensInTheLane, ClosedToOpens
  <2> QED  BY <2>1, <2>2, CloseKeeps, CommandsKeep, PlayerKeeps, EventKeeps DEF Next
<1> QED  BY <1>1, <1>2, PTL DEF Spec

\* While no open has the lane there is a player exactly for the session the service knows,
\* and none in a closed project.
THEOREM PlayerAlwaysBelongs == Spec => []PlayerBelongsToSession
<1>1. IInv => PlayerBelongsToSession
  <2> SUFFICES ASSUME IInv
               PROVE  PlayerBelongsToSession
    OBVIOUS
  <2>1. Types /\ OpensInTheLane /\ ClosedToOpens
    BY DEF IInv
  <2>2. ~NoPlayer.up
    BY NothingMounted
  <2>3. lane = None => \A a \in Attempts : open[a].pc # "start"
    BY <2>1, BoundsAssumption DEF OpensInTheLane, Opening, None
  <2>4. project = "closed" => \A a \in Attempts : open[a].pc # "start"
    BY <2>1 DEF ClosedToOpens, Leased
  <2> QED  BY <2>1, <2>2, <2>3, <2>4 DEF PlayerBelongsToSession, OpensInTheLane, ClosedToOpens
<1> QED  BY <1>1, PlaybackInvariant, PTL

\* What the view is told of the playback is what the player does.
THEOREM StateAlwaysMatches == Spec => []StateMatchesPlayer
<1>1. IInv => StateMatchesPlayer
  BY DEF IInv
<1> QED  BY <1>1, PlaybackInvariant, PTL

=============================================================================
