-------------------------- MODULE MCVideoPlayback --------------------------
EXTENDS VideoPlayback

Bound(views, leaves, commands, ids, faults, closes) ==
    [views |-> views, leaves |-> leaves, commands |-> commands, ids |-> ids,
     faults |-> faults, closes |-> closes]

\* A second view, with a fault and the close of the project or with a command;
\* replays and steps; a seek with others before, beside and after it, three of
\* them only in a view that stays.
MCBounds == {Bound(2, 2, 0, 0, 1, 1), Bound(2, 2, 1, 0, 0, 0),
             Bound(1, 1, 3, 0, 1, 0), Bound(1, 1, 2, 1, 0, 0),
             Bound(1, 1, 1, 1, 1, 0), Bound(1, 0, 1, 2, 0, 0)}

=============================================================================
