----------------------------- MODULE ParseLoop ------------------------------
(* The loop of parseVersionCode, one iteration per step, next to the closed *)
(* form of module VersionCode that the other modules use in its place.      *)
EXTENDS VersionCode

CONSTANT Inputs       \* the version strings the loop is run on

ASSUME InputsAssumption == Inputs \subseteq VersionString

VARIABLES
    version,          \* the argument, split
    i,                \* index of the part to read next (the code's i + 1)
    code, multiplier, \* the accumulator and the weight of the next part
    pc                \* "loop", or the way the call returned: "ok", "err"

vars == <<version, i, code, multiplier, pc>>

Init ==
    /\ version \in Inputs
    /\ i = 1
    /\ code = 0
    /\ multiplier = 1000000
    /\ pc = IF Len(version) \in 2..4 THEN "loop" ELSE "err"

\* Mutant: all four parts are read.
InRangeOfFour == i <= Len(version)

InRange == i <= Len(version) /\ i < 4

\* Mutants: the weight the comment above the function suggests, an upper bound
\* that is off by one.
AccumulateByHundreds ==
    /\ pc = "loop" /\ InRange
    /\ version[i] \in Int /\ version[i] <= 999
    /\ code' = code + version[i] * multiplier
    /\ multiplier' = multiplier \div 100
    /\ i' = i + 1
    /\ UNCHANGED <<version, pc>>

AccumulateThousand ==
    /\ pc = "loop" /\ InRange
    /\ version[i] \in Int /\ version[i] <= 1000
    /\ code' = code + version[i] * multiplier
    /\ multiplier' = multiplier \div 1000
    /\ i' = i + 1
    /\ UNCHANGED <<version, pc>>

Accumulate ==
    /\ pc = "loop" /\ InRange
    /\ version[i] \in Int /\ version[i] <= 999
    /\ code' = code + version[i] * multiplier
    /\ multiplier' = multiplier \div 1000
    /\ i' = i + 1
    /\ UNCHANGED <<version, pc>>

Reject ==
    /\ pc = "loop" /\ InRange
    /\ version[i] \in Int => version[i] > 999
    /\ pc' = "err"
    /\ UNCHANGED <<version, i, code, multiplier>>

Return ==
    /\ pc = "loop" /\ ~InRange
    /\ pc' = "ok"
    /\ UNCHANGED <<version, i, code, multiplier>>

Next == Accumulate \/ Reject \/ Return

Spec == Init /\ [][Next]_vars

-----------------------------------------------------------------------------
\* Type invariant of the loop.
TypeOK ==
    /\ version \in Inputs
    /\ i \in 1..4
    /\ code \in Int
    /\ multiplier \in {1000000, 1000, 1, 0}
    /\ pc \in {"loop", "ok", "err"}

\* The loop computes the closed form: when parseVersionCode returns, its
\* result is ParseVersionCode of the argument, error flag included.  This is
\* what allows the other modules to use the closed form for the loop.
LoopComputesCode ==
    pc # "loop" =>
        LET result == [err  |-> pc = "err",
                       code |-> IF pc = "err" THEN 0 ELSE code]
        IN  result = ParseVersionCode(version)

\* Comparing codes compares versions: for two version numbers without
\* negative parts the code that was computed is the smaller one exactly when
\* the number comes first in the order of version numbers, so that the
\* ORDER BY version_code of the update check finds the newest version
\* (the column's comment: "for comparison", internal/model/models.go:43).
CodesOrderVersions ==
    (pc = "ok" /\ Numbered(version)) =>
        \A w \in Inputs :
            Numbered(w) => /\ code < ParseVersionCode(w).code <=> Before(version, w)
                           /\ code > ParseVersionCode(w).code <=> Before(w, version)
=============================================================================
