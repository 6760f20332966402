---------------------------- MODULE DecodeScheduler ----------------------------
(***************************************************************************)
(* The gate of the pixel pipeline (viewer-infrastructure decode_scheduler):  *)
(* requests queue for a bounded number of decode tickets, interactive ones  *)
(* before prefetched ones, and memory pressure changes the bound.           *)
(*                                                                         *)
(* A waiting request registers with a Notify before it looks at the state   *)
(* under the lock, and sleeps when it is not its turn.  Whoever changes the *)
(* state under the lock notifies after it has dropped the lock.             *)
(***************************************************************************)
EXTENDS Naturals, FiniteSets, SequencesExt

CONSTANTS
    Requests,       \* one acquire each
    Interactive,    \* those for what the user is looking at
    Default,        \* DEFAULT_DECODE_CONCURRENCY
    Limits,         \* what set_limit is called with
    MaxLimit,       \* MAX_DECODE_CONCURRENCY, 16 in the code
    MaxChanges      \* calls of set_limit

DecodeConstants ==
    /\ IsFiniteSet(Requests) /\ Interactive \subseteq Requests
    /\ Limits \subseteq Nat
    /\ {Default, MaxLimit, MaxChanges} \subseteq Nat

VARIABLES
    limit, inFlight, waiters,   \* DecodeSchedulerState
    ticket,                     \* where each request is
    notified,                   \* registered requests that have been notified
    resizing, changes           \* set_limit calls that still have to notify, and all

decodeVars == <<limit, inFlight, waiters, ticket, notified, resizing, changes>>

Capped(l) == IF l < MaxLimit THEN l ELSE MaxLimit

Init ==
    /\ limit = Capped(Default)
    /\ inFlight = 0 /\ waiters = <<>>
    /\ ticket = [r \in Requests |-> "idle"]
    /\ notified = {} /\ resizing = 0 /\ changes = 0

Move(r, place) == ticket' = [ticket EXCEPT ![r] = place]
Registered == {r \in Requests : ticket[r] \in {"armed", "asleep"}}
Waiting == {r \in Requests : ticket[r] \in {"arming", "armed", "asleep"}}

Enqueue(r) ==
    /\ ticket[r] = "idle"
    /\ waiters' = Append(waiters, r)
    /\ Move(r, "arming")
    /\ UNCHANGED <<limit, inFlight, notified, resizing, changes>>

\* enable: from here on a notification is not missed.
Arm(r) ==
    /\ ticket[r] = "arming"
    /\ Move(r, "armed")
    /\ UNCHANGED <<limit, inFlight, waiters, notified, resizing, changes>>

\* Mutant: interactive requests keep no slot of their own.
EffectiveLimit_NoReserve(r) == limit

\* An interactive request always has one slot.
EffectiveLimit(r) == IF r \in Interactive /\ limit = 0 THEN 1 ELSE limit

\* The oldest waiter of the highest priority.
IsCandidate(r) ==
    \E i \in DOMAIN waiters :
        /\ waiters[i] = r
        /\ \A j \in DOMAIN waiters :
              (waiters[j] \in Interactive) = (r \in Interactive) => i <= j
        /\ r \notin Interactive => \A j \in DOMAIN waiters : waiters[j] \notin Interactive

Admissible(r) == inFlight < EffectiveLimit(r) /\ IsCandidate(r)

\* Admission itself notifies nobody.
Check(r) ==
    /\ ticket[r] = "armed"
    /\ IF Admissible(r)
       THEN /\ waiters' = RemoveFirst(waiters, r) /\ inFlight' = inFlight + 1
            /\ Move(r, "held") /\ notified' = notified \ {r}
       ELSE /\ Move(r, "asleep") /\ UNCHANGED <<waiters, inFlight, notified>>
    /\ UNCHANGED <<limit, resizing, changes>>

Wake(r) ==
    /\ ticket[r] = "asleep" /\ r \in notified
    /\ Move(r, "arming") /\ notified' = notified \ {r}
    /\ UNCHANGED <<limit, inFlight, waiters, resizing, changes>>

\* The request is cancelled while it waits: its registration is dropped.
Abandon(r) ==
    /\ ticket[r] = "asleep"
    /\ waiters' = RemoveFirst(waiters, r)
    /\ Move(r, "left") /\ notified' = notified \ {r}
    /\ UNCHANGED <<limit, inFlight, resizing, changes>>

\* The ticket is dropped.
Release(r) ==
    /\ ticket[r] = "held"
    /\ inFlight' = IF inFlight = 0 THEN 0 ELSE inFlight - 1
    /\ Move(r, "freed")
    /\ UNCHANGED <<limit, waiters, notified, resizing, changes>>

\* notify_waiters, at the end of either drop.
Notify(r) ==
    /\ ticket[r] \in {"freed", "left"}
    /\ notified' = notified \cup Registered
    /\ Move(r, "done")
    /\ UNCHANGED <<limit, inFlight, waiters, resizing, changes>>

SetLimit(l) ==
    /\ changes < MaxChanges
    /\ limit' = Capped(l) /\ changes' = changes + 1 /\ resizing' = resizing + 1
    /\ UNCHANGED <<inFlight, waiters, ticket, notified>>

NotifyResized ==
    /\ resizing > 0
    /\ resizing' = resizing - 1
    /\ notified' = notified \cup Registered
    /\ UNCHANGED <<limit, inFlight, waiters, ticket, changes>>

Advance(r) == Arm(r) \/ Check(r) \/ Wake(r) \/ Notify(r)

Next ==
    \/ \E r \in Requests : Enqueue(r) \/ Advance(r) \/ Abandon(r) \/ Release(r)
    \/ \E l \in Limits : SetLimit(l)
    \/ NotifyResized

Spec == Init /\ [][Next]_decodeVars

-----------------------------------------------------------------------------
TypeOK ==
    /\ limit \in 0..MaxLimit /\ inFlight \in Nat
    /\ waiters \in Seq(Requests)
    /\ ticket \in [Requests -> {"idle", "arming", "armed", "asleep", "held", "freed",
                                "left", "done"}]
    /\ notified \subseteq Registered
    /\ resizing \in Nat /\ changes \in 0..MaxChanges

\* The queue holds every request that waits, once, and nobody else: a place that a
\* cancelled request leaves behind would block everyone after it.
QueueIsExact ==
    /\ {waiters[i] : i \in DOMAIN waiters} = Waiting
    /\ \A i, j \in DOMAIN waiters : waiters[i] = waiters[j] => i = j

\* Every slot in use is used by a request that holds a ticket.
SlotsAreHeld == inFlight = Cardinality({r \in Requests : ticket[r] = "held"})

\* The request whose turn it is sleeps beside a free slot only while someone else is
\* bound to wake it: a ticket is out, or a notification is under way.  (Admission does
\* not wake the next one, so a ticket out is all it can rely on.)
NobodyIsForgotten ==
    \A r \in Requests :
        ticket[r] = "asleep" /\ r \notin notified /\ Admissible(r) =>
            \/ resizing > 0
            \/ \E q \in Requests : ticket[q] \in {"held", "freed", "left"}
=============================================================================
