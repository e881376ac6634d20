---------------------------- MODULE MCDownloads -----------------------------
(* Model-checking instances of Downloads.                                   *)
EXTENDS Downloads

CONSTANTS s1, s2, d1, d2, x1
=============================================================================
