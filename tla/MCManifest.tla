---------------------------- MODULE MCManifest ------------------------------
(* Model-checking instances of Manifest.                                    *)
EXTENDS Manifest, TLC

CONSTANTS a1, a2, d1, exe, dll, h1, h2

F(p, h) == [path |-> p, hash |-> h]

\* The lists differ in content and in length, and one names a path twice.
MCSubmissions ==
    1 :> {<<F(exe, h1), F(dll, h1), F(exe, h2)>>} @@
    2 :> {<<F(exe, h2), F(dll, h1)>>, <<F(exe, h2)>>}

MCPackageOf == 1 :> (exe :> h1 @@ dll :> h1) @@ 2 :> (exe :> h2 @@ dll :> h1)
=============================================================================
