------------------------- MODULE DerivedWorkScheduler -------------------------
(***************************************************************************)
(* Which kind of derived work may run (viewer-application scheduler.rs): a   *)
(* class starts only while no class of a higher priority runs or waits.  A  *)
(* waiting task registers with a Notify before it looks at the counts.      *)
(***************************************************************************)
EXTENDS Naturals, FiniteSets

CONSTANTS
    Tasks,      \* one acquire each
    ClassOf     \* the class of each task

Priority == [CurrentQuery |-> 1, FolderPublication |-> 1, VisibleDerived |-> 2,
             TextIndex |-> 3, VideoProbe |-> 4, Fingerprint |-> 5]
Classes == DOMAIN Priority

DerivedConstants == IsFiniteSet(Tasks) /\ ClassOf \in [Tasks -> Classes]

VARIABLES
    waiting, running,   \* DerivedSchedulerState
    permit,             \* where each task is
    woken               \* registered tasks that have been notified

derivedVars == <<waiting, running, permit, woken>>

Init ==
    /\ waiting = [c \in Classes |-> 0] /\ running = [c \in Classes |-> 0]
    /\ permit = [t \in Tasks |-> "idle"] /\ woken = {}

Go(t, place) == permit' = [permit EXCEPT ![t] = place]
Fewer(count, c) == [count EXCEPT ![c] = IF @ = 0 THEN 0 ELSE @ - 1]
Sleepers == {t \in Tasks : permit[t] \in {"armed", "asleep"}}

Register(t) ==
    /\ permit[t] = "idle"
    /\ waiting' = [waiting EXCEPT ![ClassOf[t]] = @ + 1]
    /\ Go(t, "arming")
    /\ UNCHANGED <<running, woken>>

\* enable: from here on a notification is not missed.
Arm(t) ==
    /\ permit[t] = "arming"
    /\ Go(t, "armed")
    /\ UNCHANGED <<waiting, running, woken>>

CanStart(c) ==
    /\ c = "VideoProbe" => running[c] < 1
    /\ \A h \in Classes : Priority[h] < Priority[c] => waiting[h] = 0 /\ running[h] = 0

Check(t) ==
    /\ permit[t] = "armed"
    /\ IF CanStart(ClassOf[t])
       THEN /\ waiting' = Fewer(waiting, ClassOf[t])
            /\ running' = [running EXCEPT ![ClassOf[t]] = @ + 1]
            /\ Go(t, "running") /\ woken' = woken \ {t}
       ELSE Go(t, "asleep") /\ UNCHANGED <<waiting, running, woken>>

Wake(t) ==
    /\ permit[t] = "asleep" /\ t \in woken
    /\ Go(t, "arming") /\ woken' = woken \ {t}
    /\ UNCHANGED <<waiting, running>>

\* The task is dropped while it waits.
Abandon(t) ==
    /\ permit[t] = "asleep"
    /\ waiting' = Fewer(waiting, ClassOf[t])
    /\ Go(t, "left") /\ woken' = woken \ {t}
    /\ UNCHANGED running

\* Mutant: nobody is told of the permit.
Release_Silently(t) ==
    /\ permit[t] = "running"
    /\ running' = Fewer(running, ClassOf[t])
    /\ Go(t, "done")
    /\ UNCHANGED <<waiting, woken>>

\* The permit is dropped.
Release(t) ==
    /\ permit[t] = "running"
    /\ running' = Fewer(running, ClassOf[t])
    /\ Go(t, "freed")
    /\ UNCHANGED <<waiting, woken>>

\* notify_waiters, at the end of either drop.
Notify(t) ==
    /\ permit[t] \in {"freed", "left"}
    /\ woken' = woken \cup Sleepers
    /\ Go(t, "done")
    /\ UNCHANGED <<waiting, running>>

Advance(t) == Arm(t) \/ Check(t) \/ Wake(t) \/ Notify(t)

Next == \E t \in Tasks : Register(t) \/ Advance(t) \/ Abandon(t) \/ Release(t)

Spec == Init /\ [][Next]_derivedVars

-----------------------------------------------------------------------------
TypeOK ==
    /\ waiting \in [Classes -> Nat] /\ running \in [Classes -> Nat]
    /\ permit \in [Tasks -> {"idle", "arming", "armed", "asleep", "running", "freed",
                             "left", "done"}]
    /\ woken \subseteq Sleepers

\* The counts are those of the tasks: one too many would shut out every lower class.
CountsAreExact ==
    \A c \in Classes :
        /\ waiting[c] = Cardinality({t \in Tasks :
              ClassOf[t] = c /\ permit[t] \in {"arming", "armed", "asleep"}})
        /\ running[c] = Cardinality({t \in Tasks : ClassOf[t] = c /\ permit[t] = "running"})

\* No task sleeps while it could start, unless a notification is under way.
SleepersCannotStart ==
    \A t \in Tasks :
        permit[t] = "asleep" /\ t \notin woken /\ CanStart(ClassOf[t]) =>
            \E s \in Tasks : permit[s] \in {"freed", "left"}
=============================================================================
