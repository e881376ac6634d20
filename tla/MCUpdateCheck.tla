--------------------------- MODULE MCUpdateCheck ----------------------------
(* Model-checking instances of UpdateCheck.                                 *)
EXTENDS UpdateCheck, TLC

CONSTANTS d1, d2, a1, a2

V1 == <<1, 0, 0>>
V2 == <<1, 0, 1>>
V3 == <<1, 1>>
V4 == <<1, 1, 1>>
BetweenV2AndV3 == <<1, 0, 2>>
Unreadable == <<1, NotANumber>>

\* The device falls outside a share of 50.
MCBucket1 == d1 :> 70

Full(v)      == [version |-> v, incremental |-> FALSE, minVersion |-> NoVersion]
Increment(v) == [version |-> v, incremental |-> TRUE, minVersion |-> BetweenV2AndV3]

Mixed     == {Full(V1), Increment(V3), Full(V4)}
Increments == {Full(V2), Increment(V3)}

Publish  == [status |-> 1]
Unpublish == [status |-> 0]
Start(p) == [grayEnabled |-> TRUE, grayPercent |-> p, grayStatus |-> 1]
Widen    == [grayPercent |-> 101]
Pause    == [grayStatus |-> 3]
PausedAt(p) == [status |-> 1, grayEnabled |-> TRUE, grayPercent |-> p, grayStatus |-> 3]
Complete == [grayStatus |-> 2]
ToFull   == [incremental |-> FALSE]
Lift     == [minVersion |-> Unreadable]
WithLog  == [status |-> 1, changelog |-> TRUE]

Releases == {Publish, Unpublish, Start(50), PausedAt(101), WithLog, Lift}
Few      == {Publish, Start(50), ToFull, Widen, Complete}

\* Rows of a database that somebody filled: one that has been published, and
\* two drafts that have not.
Record(body, status) ==
    [NewRow(body) EXCEPT !.status = status, !.published = (status = 1)]

Filled == <<Record(Full(V1), 1), Record(Increment(V3), 0), Record(Full(V4), 0)>>
Empty  == <<>>

Odd    == {V2, Unreadable}
=============================================================================
