---------------------------- MODULE MCCatalogue -----------------------------
(* Model-checking instances of Catalogue.                                   *)
EXTENDS Catalogue, TLC

CONSTANTS r1, r2, sA, sB, k1, k2, k3

\* Requests are treated alike, and so are slugs, and so are keys.
Alike == {p @@ q @@ o : p \in Permutations({r1, r2}), q \in Permutations({sA, sB}),
                        o \in Permutations({k1, k2, k3})}
=============================================================================
