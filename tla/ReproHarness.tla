---------------------------- MODULE ReproHarness ----------------------------
(***************************************************************************)
(* The benchmark harness of runtime/benchmarks/repro_harness.py: a         *)
(* template is validated, its variables are expanded into its commands,    *)
(* the cases are run one after the other, and the payload is validated and *)
(* written at the end.                                                     *)
(*                                                                         *)
(* A text with variables is the set of the names that it mentions, as      *)
(* ${name} or as $name: a text that mentions none is a command as the      *)
(* shell would run it.                                                     *)
(***************************************************************************)
EXTENDS Naturals, Sequences, FiniteSets, SequencesExt

CONSTANTS Templates,   \* what the harness may be given: a set of Template records
          Platform,    \* platform_system of this host
          NoPayload    \* no file at the output path

VARIABLES bench,       \* cmd_run
          payload      \* the file at the output path

benchVars == <<bench, payload>>

Builtins == {"repo_root", "build_dir", "engine_root"}

\* valid: suite_id and the types of the fields; variables: what each value
\* mentions; a case has its id, the texts of its commands by platform ("any"
\* for command), the part of each that is in braces, the text of its cwd, and
\* what its requires_host comes to.
Template(t) ==
    /\ t.valid \in BOOLEAN
    /\ IsFiniteSet(DOMAIN t.variables) /\ t.cases \in Seq(ToSet(t.cases))
    /\ \A i \in DOMAIN t.cases :
        LET c == t.cases[i]
        IN  /\ c.host \in {"none", "met", "unmet", "unknown"}
            /\ DOMAIN c.braced = DOMAIN c.commands
            /\ \A p \in DOMAIN c.commands : c.braced[p] \subseteq c.commands[p]

ASSUME ReproHarnessAssumption == \A t \in Templates : Template(t)

-----------------------------------------------------------------------------
(* Templates and their variables *)

\* validate_template: unique ids, commands, and no unknown name in the braces of
\* a command.  It looks at no name without braces, which are expanded all the
\* same, at no variable's value and at no cwd.
ValidTemplate(t) ==
    /\ t.valid /\ t.cases # <<>>
    /\ IsInjective([i \in DOMAIN t.cases |-> t.cases[i].id])
    /\ \A i \in DOMAIN t.cases :
        /\ DOMAIN t.cases[i].commands # {}
        /\ \A p \in DOMAIN t.cases[i].commands :
             t.cases[i].braced[p] \subseteq Builtins \cup DOMAIN t.variables

\* _expand_template: safe_substitute leaves a name that it does not know.
Expand(text, values) ==
    UNION {IF n \in DOMAIN values THEN values[n] ELSE {n} : n \in text}

Round(values) == [n \in DOMAIN values |-> Expand(values[n], values)]

\* Mutant: one round fewer.
MaterializeTwice(t) ==
    LET values == [n \in Builtins \cup DOMAIN t.variables |->
                     IF n \in DOMAIN t.variables THEN t.variables[n] ELSE {}]
    IN  Round(Round(values))

\* The variables of _materialize_run: the template's own come after the
\* built-in ones, and three rounds expand them all at once.
Materialize(t) ==
    LET values == [n \in Builtins \cup DOMAIN t.variables |->
                     IF n \in DOMAIN t.variables THEN t.variables[n] ELSE {}]
    IN  Round(Round(Round(values)))

\* _case_command.
HasCommand(c) == {"any", Platform} \cap DOMAIN c.commands # {}
CaseCommand(c) == IF "any" \in DOMAIN c.commands THEN c.commands["any"] ELSE c.commands[Platform]

-----------------------------------------------------------------------------
(* Running the cases *)

Free == [at |-> "free"]
ThisCase == bench.template.cases[Len(bench.results) + 1]

\* cmd_run up to _materialize_run.
RunTemplate(t, dryRun) ==
    /\ bench = Free
    /\ bench' = IF ValidTemplate(t)
                THEN [at |-> "cases", template |-> t, dry |-> dryRun, results |-> <<>>]
                ELSE Free
    /\ UNCHANGED payload

\* _run_case: host requirement, command, dry run, and then the command.
RunOne(exit) ==
    /\ bench.at = "cases"
    /\ LET values == Materialize(bench.template)
           c == ThisCase
           status == IF c.host \in {"unmet", "unknown"} THEN "blocked_host_requirement"
                     ELSE IF ~ HasCommand(c) THEN "awaiting_manual_capture"
                     ELSE IF bench.dry THEN "planned"
                     ELSE IF exit = 0 THEN "captured" ELSE "failed"
           result == [id |-> c.id, status |-> status,
                      command |-> IF HasCommand(c) THEN Expand(CaseCommand(c), values) ELSE {},
                      cwd |-> Expand(c.cwd, values)]
           results == Append(bench.results, result)
       IN  bench' = [bench EXCEPT !.results = results,
                                  !.at = IF Len(results) = Len(bench.template.cases)
                                         THEN "payload" ELSE "cases"]
    /\ UNCHANGED payload

\* subprocess.run raises: no such program, no such directory.  Nothing of
\* the cases before is written.
CannotRun ==
    /\ bench.at = "cases" /\ ~ bench.dry
    /\ ThisCase.host \in {"none", "met"} /\ HasCommand(ThisCase)
    /\ bench' = Free
    /\ UNCHANGED payload

\* validate_payload.
ValidPayload(results) ==
    /\ results # <<>>
    /\ \A i \in DOMAIN results :
         results[i].status \in {"planned", "captured", "failed", "blocked_host_requirement",
                                "awaiting_manual_capture"}

\* _write_json opens the file for writing, which empties it.
OpenPayload ==
    /\ bench.at = "payload" /\ ValidPayload(bench.results)
    /\ payload' = [template |-> bench.template, results |-> <<>>]
    /\ bench' = [bench EXCEPT !.at = "dump"]

DumpPayload ==
    /\ bench.at = "dump"
    /\ payload' = [template |-> bench.template, results |-> bench.results]
    /\ bench' = Free

KillHarness == /\ bench # Free
               /\ bench' = Free
               /\ UNCHANGED payload

BenchInit == bench = Free /\ payload = NoPayload

BenchNext ==
    \/ \E t \in Templates, dryRun \in BOOLEAN : RunTemplate(t, dryRun)
    \/ \E exit \in 0..1 : RunOne(exit)
    \/ CannotRun
    \/ OpenPayload
    \/ DumpPayload
    \/ KillHarness

BenchSpec == BenchInit /\ [][BenchNext]_benchVars

-----------------------------------------------------------------------------
(* Properties *)

BenchTypeOK ==
    /\ bench.at \in {"free", "cases", "payload", "dump"}
    /\ bench # Free => Template(bench.template)
                       /\ Len(bench.results) \in 0..Len(bench.template.cases)
    /\ payload # NoPayload => Len(payload.results) \in 0..Len(payload.template.cases)

\* The names that a text leads to: the least set that has the text's own and
\* what each variable in it mentions.
Names(text, variables) ==
    LET universe == text \cup UNION Range(variables)
        Closed(C) == text \subseteq C /\ \A n \in C \cap DOMAIN variables : variables[n] \subseteq C
    IN  {n \in universe : \A C \in SUBSET universe : Closed(C) => n \in C}

\* A reference definition of what can be expanded: everything the text leads
\* to is defined, and nothing of it leads back to itself.
Resolvable(text, t) ==
    \A n \in Names(text, t.variables) :
        /\ n \in Builtins \cup DOMAIN t.variables
        /\ n \in DOMAIN t.variables => n \notin Names(t.variables[n], t.variables)

\* A payload that was written to its end has one result for each case of its
\* template, in order; one whose writing was cut off is empty.  Whatever
\* validate_template let through, a recorded command mentions no variable only
\* if the template defines it to the end, and mentions none if it does and has
\* no more than seven variables: each round doubles the steps that are expanded,
\* so three are enough for a text, seven variables and a built-in one in a chain.
RecordsWhatItRan ==
    payload # NoPayload =>
        /\ Len(payload.results) \in {0, Len(payload.template.cases)}
        /\ \A i \in DOMAIN payload.results :
            LET r == payload.results[i]
                t == payload.template
                c == t.cases[i]
                resolvable == Resolvable(CaseCommand(c), t)
            IN  /\ r.id = c.id
                /\ HasCommand(c) /\ r.command = {} => resolvable
                /\ HasCommand(c) /\ resolvable /\ Cardinality(DOMAIN t.variables) <= 7
                       => r.command = {}

\* docs/benchmarks/README.md:39-41 and the docstring of validate_template: a
\* template with a placeholder that no variable declares fails before any
\* command is started, so no command that still holds one is ever run.  The
\* code validates the commands before the variables are expanded into them, and
\* the values of the variables not at all.
UndeclaredNamesNeverRun ==
    bench # Free => \A i \in DOMAIN bench.results :
        bench.results[i].status \in {"captured", "failed"} =>
            bench.results[i].command \subseteq Builtins \cup DOMAIN bench.template.variables
=============================================================================
