----------------------------- MODULE VisibleImages -----------------------------
(***************************************************************************)
(* Rendering what the user sees (src-tauri state/preview.rs): an image takes *)
(* a decode ticket, then, holding it, a permit for visible derived work, and *)
(* renders.  Folder queries and video probes compete for the permits.        *)
(* Requests can be cancelled only while they wait for their ticket.          *)
(***************************************************************************)
EXTENDS Naturals, FiniteSets, Sequences

CONSTANTS
    Images, Interactive,    \* image requests, and those that are not prefetched
    Others, ClassOf,        \* the other users of permits, and the class of every task
    Default, Limits, MaxLimit, MaxChanges

VARIABLES limit, inFlight, waiters, ticket, notified, resizing, changes,
          waiting, running, permit, woken

Decode == INSTANCE DecodeScheduler WITH Requests <- Images
Derived == INSTANCE DerivedWorkScheduler WITH Tasks <- Images \cup Others

ASSUME VisibleAssumption ==
    /\ Decode!DecodeConstants /\ Derived!DerivedConstants
    /\ Images \cap Others = {}
    /\ \A i \in Images : ClassOf[i] = "VisibleDerived"

decodeVars == <<limit, inFlight, waiters, ticket, notified, resizing, changes>>
derivedVars == <<waiting, running, permit, woken>>
vars == <<decodeVars, derivedVars>>

Init == Decode!Init /\ Derived!Init

\* render_visible_image.
Request(i) == Decode!Enqueue(i) /\ UNCHANGED derivedVars
Cancel(i) == Decode!Abandon(i) /\ UNCHANGED derivedVars
AwaitTicket(i) == Decode!Advance(i) /\ UNCHANGED derivedVars

WantPermit(i) == ticket[i] = "held" /\ Derived!Register(i) /\ UNCHANGED decodeVars
AwaitPermit(t) == Derived!Advance(t) /\ UNCHANGED decodeVars
Rendered(i) == Derived!Release(i) /\ UNCHANGED decodeVars

\* The permit is dropped before the ticket.
DropTicket(i) == permit[i] = "done" /\ Decode!Release(i) /\ UNCHANGED derivedVars

\* folder_tree, query_folder_projection, probe_video_nodes.
OtherStarts(t) == Derived!Register(t) /\ UNCHANGED decodeVars
OtherEnds(t) == Derived!Release(t) /\ UNCHANGED decodeVars

\* Of these only a video probe selects on its cancellation while it waits.
ProbeGivesUp(t) == ClassOf[t] = "VideoProbe" /\ Derived!Abandon(t) /\ UNCHANGED decodeVars

\* Memory pressure.
Pressure(l) == Decode!SetLimit(l) /\ UNCHANGED derivedVars
PressureNotifies == Decode!NotifyResized /\ UNCHANGED derivedVars

Rendering(i) ==
    AwaitTicket(i) \/ WantPermit(i) \/ AwaitPermit(i) \/ Rendered(i) \/ DropTicket(i)
Working(t) == AwaitPermit(t) \/ OtherEnds(t)

Next ==
    \/ \E i \in Images : Request(i) \/ Cancel(i) \/ Rendering(i)
    \/ \E t \in Others : OtherStarts(t) \/ ProbeGivesUp(t) \/ Working(t)
    \/ \E l \in Limits : Pressure(l)
    \/ PressureNotifies

\* Every task that can go on is polled in the end, renders and queries end, and
\* set_limit returns.
Fairness ==
    /\ \A i \in Images : WF_vars(Rendering(i))
    /\ \A t \in Others : WF_vars(Working(t))
    /\ WF_vars(PressureNotifies)

Spec == Init /\ [][Next]_vars /\ Fairness

-----------------------------------------------------------------------------
TypeOK == Decode!TypeOK /\ Derived!TypeOK

\* The gate in front (see DecodeScheduler).
TicketQueueIsExact == Decode!QueueIsExact /\ Decode!SlotsAreHeld
NoImageIsForgotten == Decode!NobodyIsForgotten

\* The permits behind it (see DerivedWorkScheduler).
PermitCountsAreExact == Derived!CountsAreExact
NoTaskSleepsInVain == Derived!SleepersCannotStart

\* No wake-up is missed at either: neither a request whose turn it is sleeps beside a
\* free slot nor a task that could start beside a free permit, with nobody left to wake
\* it (both register before they look, both destructors notify).
NoWakeUpIsMissed == NoImageIsForgotten /\ NoTaskSleepsInVain

\* However many images are requested, only those with a ticket take up places of the
\* visible class, where they would hold back indexing, probing and fingerprints.
VisibleIsBounded ==
    waiting["VisibleDerived"] + running["VisibleDerived"]
        <= inFlight + Cardinality({t \in Others : ClassOf[t] = "VisibleDerived"})

\* What the user looks at is rendered, unless cancelled: under any memory pressure,
\* behind any prefetch, whatever else runs.  Prefetches are rendered too, unless memory
\* pressure stops them, and after it.
ImagesAreAnswered ==
    /\ \A i \in Interactive : ticket[i] # "idle" ~> ticket[i] = "done"
    /\ \A i \in Images : ticket[i] # "idle" ~> ticket[i] = "done" \/ limit = 0
=============================================================================
