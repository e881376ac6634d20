---------------------------- MODULE MCPackages ------------------------------
(* Model-checking instances of Packages.                                    *)
EXTENDS Packages, TLC

CONSTANTS r1, r2, o1, t1, t2, setup, notes, package, cA, cB, nA, nB

\* Two rows of different version strings.
Distinct == 1 :> nA @@ 2 :> nB

OneTenant  == 1 :> t1 @@ 2 :> t1
TwoTenants == 1 :> t1 @@ 2 :> t2

OneKey == <<t1>>
\* Requests are treated alike, and so are contents.
Alike == {p @@ q : p \in Permutations({r1, r2}), q \in Permutations({cA, cB})}
=============================================================================
