----------------------------- MODULE MCStorage ------------------------------
(* Model-checking instances of Storage.                                     *)
EXTENDS Storage, TLC

CONSTANTS r1, r2, t1, t2, b1, b2, s1, s2

\* One configuration of every kind of reach, and one that none resolves.
MCBodies == {[type |-> "minio", bucket |-> b1, endpoint |-> TRUE],
             [type |-> "aliyun", bucket |-> b2, endpoint |-> TRUE],
             [type |-> "other", bucket |-> b2, endpoint |-> FALSE]}

MCTested == {body \in MCBodies : body.bucket = b1}

Alike == Permutations({r1, r2}) \cup Permutations({t1, t2}) \cup Permutations({s1, s2})
=============================================================================
