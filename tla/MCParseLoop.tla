---------------------------- MODULE MCParseLoop -----------------------------
(* Model-checking instance of ParseLoop: all version strings of one to four *)
(* parts over the boundary values of a part, and some with five.            *)
EXTENDS ParseLoop, TLC

MCParts == {NotANumber, -1, 0, 1, 999, 1000}

MCInputs == UNION {[1..n -> MCParts] : n \in 1..3}
            \cup [1..4 -> {0, 1, 999, NotANumber}]
            \cup [1..5 -> {0, 1}]
=============================================================================
