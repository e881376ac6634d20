---------------------------- MODULE VersionCode ----------------------------
(* Version strings and the integer the server orders them by:              *)
(* parseVersionCode in internal/service/update.go.                          *)
(*                                                                          *)
(* A version string is represented by the sequence strings.Split(v, ".")    *)
(* yields, each part being the integer strconv.Atoi makes of it or          *)
(* NotANumber.  The empty string, which the code tests for before it        *)
(* parses a minimum version, is the empty sequence.  Parts are unbounded    *)
(* integers here: for a part below -9223372036854 the product in Go wraps,  *)
(* which this module does not represent.                                    *)
EXTENDS Integers, Sequences

CONSTANT NotANumber   \* a part that strconv.Atoi rejects

ASSUME NotANumberAssumption == NotANumber \notin Int

Part == Int \cup {NotANumber}

VersionString == Seq(Part)

NoVersion == <<>>     \* the empty string

-----------------------------------------------------------------------------
\* Two to four parts, of which the loop reads the first three.  There is no
\* lower bound on a part, and the fourth is not even converted.
WellFormed(v) ==
    /\ Len(v) \in 2..4
    /\ \A i \in 1..3 : i <= Len(v) => v[i] \in Int /\ v[i] <= 999

Component(v, i) == IF i <= Len(v) THEN v[i] ELSE 0

CodeOf(v) == Component(v, 1) * 1000000 + Component(v, 2) * 1000 + Component(v, 3)

\* What the function returns: (0, error) or (code, nil).  CheckUpdate drops
\* the error of a minimum version and goes on with the 0.
ParseVersionCode(v) ==
    [err  |-> ~WellFormed(v),
     code |-> IF WellFormed(v) THEN CodeOf(v) ELSE 0]

-----------------------------------------------------------------------------
\* The order a reader of version numbers expects, on the parts that count.
Numbered(v) == WellFormed(v) /\ \A i \in 1..3 : Component(v, i) >= 0

Before(v, w) ==
    \E i \in 1..3 : /\ Component(v, i) < Component(w, i)
                    /\ \A j \in 1..(i-1) : Component(v, j) = Component(w, j)
=============================================================================
