--------------------------- MODULE MCReproHarness ---------------------------
(* Templates for the benchmark harness: chains of variables, values that   *)
(* mention what is undefined or lead back to themselves, and cases that    *)
(* are refused, blocked or for another platform.                           *)
EXTENDS ReproHarness

\* A case whose names are all in braces.
BenchCase(id, commands, host) ==
    [id |-> id, commands |-> commands, braced |-> commands, cwd |-> {"repo_root"}, host |-> host]
\* k variables, each of which mentions the next, and the last a built-in one.
Letters == <<"a", "b", "c", "d", "e", "f", "g", "h">>
Chain(k) == [n \in {Letters[i] : i \in 1..k} |->
               LET i == CHOOSE j \in 1..k : Letters[j] = n
               IN  IF i = k THEN {"build_dir"} ELSE {Letters[i + 1]}]
MCTemplates ==
    {[valid |-> TRUE, variables |-> Chain(k),
      cases |-> <<BenchCase("x", [any |-> {"a"}], "none")>>] : k \in {7, 8}} \cup
    {[valid |-> TRUE, variables |-> [a |-> x[1], b |-> x[2], c |-> x[3]],
      cases |-> <<BenchCase("x", [any |-> {"a", "repo_root"}], "none")>>] :
        x \in {{}, {"b"}, {"b", "c"}, {"undefined"}} \X {{}, {"c"}, {"a"}} \X {{}, {"c"}, {"undefined"}}}
    \cup {[valid |-> TRUE, variables |-> [a |-> {}], cases |-> x] : x \in {
            <<>>,
            <<BenchCase("x", [any |-> {"undefined"}], "none")>>,
            <<BenchCase("x", [any |-> {"a"}], "met"), BenchCase("x", [any |-> {"a"}], "met")>>,
            <<BenchCase("x", [linux |-> {"a"}], "met"), BenchCase("y", [darwin |-> {"a"}], "none"),
              BenchCase("z", [any |-> {"a"}], "unmet")>>,
            <<BenchCase("x", <<>>, "met")>>}}
=============================================================================
