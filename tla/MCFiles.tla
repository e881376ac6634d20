------------------------------ MODULE MCFiles -------------------------------
(* Model-checking instances of Files.                                       *)
EXTENDS Files, TLC

CONSTANTS r1, r2, a, b

\* A client may use the name a copy would get.
MCCopyName == a :> b

\* A folder, and a file in it.
Made(p, n, folder, path, content) ==
    [parent |-> p, name |-> n, folder |-> folder, path |-> path,
     content |-> content, gone |-> FALSE]

MCFiles == <<Made(0, a, TRUE, <<>>, None),
             Made(1, a, FALSE, <<Directory, a>>, 0)>>
MCObjects == <<Directory, a>> :> 0

Alike == Permutations({r1, r2})
=============================================================================
