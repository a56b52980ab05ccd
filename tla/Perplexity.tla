----------------------------- MODULE Perplexity -----------------------------
(***************************************************************************)
(* The perplexity matrix runner of engine/c/tools/perplexity_matrix.py:    *)
(* run_manifest checks the manifest, the corpus and every variant, then    *)
(* scores the corpus with each variant's engine in turn, and writes one    *)
(* receipt.  Failures it foresees (HarnessError, OSError) end in a receipt *)
(* that says failed; an exception it does not catch leaves no receipt.     *)
(***************************************************************************)
EXTENDS Naturals, Sequences, FiniteSets, SequencesExt

CONSTANTS Variant,     \* ids of the manifest's variants
          Suites,      \* what the runner may be given: a set of Suite records
          Rows,        \* the lines an engine may print
          MaxLines,    \* lines of one engine run
          NoReceipt    \* no file at the output path

VARIABLES harness,     \* the runner
          receiptFile  \* what is at the output path

pplVars == <<harness, receiptFile>>

\* Ways in which a variant's files fail preflight: an environment variable,
\* the checkpoint, its config, its manifest or the manifest's hash, the
\* engine, the tokenizer.
VariantFaults == {"environment", "checkpoint", "config", "manifest", "hash", "engine", "tokenizer"}

\* manifest: how well formed it is; variants: its ids; corpus: the file;
\* files: each variant's files; tokens: the corpus as each variant reads it,
\* which has a row (load_corpus); longest: max_tokens_per_document.
WellFormed(s) ==
    /\ s.manifest \in {"unreadable", "not an object", "bad fields", "ok"}
    /\ s.corpus \in {"missing", "undecodable", "bad row", "wrong hash", "ok"}
    /\ s.variants \in Seq(Variant)
    /\ s.files \in [Variant -> VariantFaults \cup {"ok"}]
    /\ s.tokens \in [Variant -> Seq(Seq(Nat)) \ {<<>>}]
    /\ s.longest \in Nat

ASSUME PplAssumption == \A s \in Suites : WellFormed(s)

-----------------------------------------------------------------------------
(* Preflight *)

\* validate_manifest_shape.
ShapeOk(s) == /\ s.manifest = "ok"
              /\ s.variants # <<>>
              /\ IsInjective(s.variants)

\* load_corpus and the corpus hash; the limit on document lengths.
CorpusOk(s) == s.corpus = "ok" /\ s.longest >= 2

\* Mutant: the variants are compared by the lengths of the documents.
VariantOkLengths(s, v, read) ==
    /\ s.files[v] = "ok"
    /\ \A i \in DOMAIN s.tokens[v] : Len(s.tokens[v][i]) \in 2..s.longest
    /\ read # <<>> => /\ Len(s.tokens[v]) = Len(read)
                      /\ \A i \in DOMAIN read : Len(s.tokens[v][i]) = Len(read[i])

\* tokenize_rows, validate_sequence_lengths and the comparison with the
\* variants before, whose common reading of the corpus is read.
VariantOk(s, v, read) ==
    /\ s.files[v] = "ok"
    /\ \A i \in DOMAIN s.tokens[v] : Len(s.tokens[v][i]) \in 2..s.longest
    /\ read # <<>> => s.tokens[v] = read

-----------------------------------------------------------------------------
(* Scores *)

\* A line of the engine's output: a score has three fields, the second and
\* the third of them integers; lines of another shape are not scores.
IsScore(line) == line.logp # "none"

\* parse_score_output, for documents of these lengths.
ScoresOk(lines, lengths) ==
    LET scores == SelectSeq(lines, IsScore)
    IN  /\ Len(scores) = Len(lengths)
        /\ \A i \in 1..Len(scores) : /\ scores[i].logp # "invalid"
                                     /\ scores[i].tokens = lengths[i]
                                     /\ scores[i].greedy \in {0, 1}

\* make_score_requests: every token but the first is predicted.
Lengths(tokens) == [i \in DOMAIN tokens |-> Len(tokens[i]) - 1]

\* execute_variant.  A log probability far below zero makes math.exp
\* overflow, an exception that is not caught.
Score(v, exit, lines, tokens) ==
    LET scores == SelectSeq(lines, IsScore)
    IN  IF exit = 0 /\ ScoresOk(lines, Lengths(tokens))
        THEN [id |-> v, status |-> "completed",
              predicted |-> [i \in 1..Len(scores) |-> scores[i].tokens]]
        ELSE [id |-> v, status |-> "failed", predicted |-> <<>>]

Overflows(exit, lines, tokens) ==
    /\ exit = 0 /\ ScoresOk(lines, Lengths(tokens))
    /\ \E i \in DOMAIN lines : IsScore(lines[i]) /\ lines[i].logp = "huge"

-----------------------------------------------------------------------------
(* run_manifest *)

Rest == [at |-> "rest"]
Ids == harness.suite.variants
ThisVariant == Ids[harness.done + 1]

\* base_receipt needs an object with an object for its corpus: what is not
\* is an exception before the first check.
RunManifest(s) ==
    /\ harness = Rest
    /\ harness' = IF s.manifest \in {"unreadable", "not an object"} THEN Rest
                  ELSE [at |-> IF ShapeOk(s) /\ CorpusOk(s) THEN "preflight"
                               ELSE IF ShapeOk(s) /\ s.corpus = "undecodable" THEN "raise"
                               ELSE "write",
                        suite |-> s, done |-> 0, read |-> <<>>, results |-> <<>>,
                        status |-> "failed"]
    /\ UNCHANGED receiptFile

\* One turn of the loop of preflight.
PreflightVariant ==
    /\ harness.at = "preflight"
    /\ IF ~ VariantOk(harness.suite, ThisVariant, harness.read)
       THEN harness' = [harness EXCEPT !.at = "write"]
       ELSE LET last == harness.done + 1 = Len(Ids)
            IN  harness' = [harness EXCEPT !.at = IF last THEN "score" ELSE "preflight",
                                           !.done = IF last THEN 0 ELSE harness.done + 1,
                                           !.read = harness.suite.tokens[ThisVariant]]
    /\ UNCHANGED receiptFile

\* One turn of the loop of run_manifest: the first failure ends it.
ExecuteVariant(exit, lines) ==
    /\ harness.at = "score"
    /\ LET result == Score(ThisVariant, exit, lines, harness.read)
           last == harness.done + 1 = Len(Ids)
       IN  harness' =
             IF Overflows(exit, lines, harness.read) THEN [harness EXCEPT !.at = "raise"]
             ELSE [harness EXCEPT
                     !.results = Append(harness.results, result),
                     !.done = harness.done + 1,
                     !.at = IF result.status # "completed" \/ last THEN "write" ELSE "score",
                     !.status = IF result.status = "completed" /\ last THEN "completed"
                                ELSE "failed"]
    /\ UNCHANGED receiptFile

\* The engine cannot be started, or its request file cannot be written.
CannotExecute ==
    /\ harness.at = "score"
    /\ harness' = [harness EXCEPT !.at = "write"]
    /\ UNCHANGED receiptFile

\* write_json_atomic.
WriteReceiptFile ==
    /\ harness.at = "write"
    /\ receiptFile' = [suite |-> harness.suite, status |-> harness.status,
                       results |-> harness.results]
    /\ harness' = Rest

\* An uncaught exception, or the process is killed: the old receipt stays.
LeaveNoReceipt ==
    /\ harness # Rest
    /\ harness' = Rest
    /\ UNCHANGED receiptFile

PplInit == harness = Rest /\ receiptFile = NoReceipt

PplNext ==
    \/ \E s \in Suites : RunManifest(s)
    \/ PreflightVariant
    \/ \E exit \in 0..1, lines \in SeqOf(Rows, MaxLines) : ExecuteVariant(exit, lines)
    \/ CannotExecute
    \/ WriteReceiptFile
    \/ LeaveNoReceipt

PplSpec == PplInit /\ [][PplNext]_pplVars

-----------------------------------------------------------------------------
(* Properties *)

PplTypeOK ==
    /\ harness.at \in {"rest", "preflight", "score", "write", "raise"}
    /\ harness # Rest => WellFormed(harness.suite) /\ harness.done \in 0..Len(Ids)
    /\ receiptFile # NoReceipt => receiptFile.status \in {"completed", "failed"}

\* A receipt that says completed holds one result for every variant of its
\* manifest, in order, each with a valid score for every document, and all
\* the variants read the corpus as the same tokens.
CompletedMeansAllScored ==
    receiptFile # NoReceipt /\ receiptFile.status = "completed" =>
        LET r == receiptFile.results
            s == receiptFile.suite
        IN  /\ Len(r) = Len(s.variants)
            /\ \A i \in DOMAIN r :
                /\ r[i].id = s.variants[i]
                /\ r[i].status = "completed"
                /\ s.tokens[s.variants[i]] = s.tokens[s.variants[1]]
                /\ Len(r[i].predicted) = Len(s.tokens[s.variants[i]])
                /\ \A d \in DOMAIN r[i].predicted :
                     r[i].predicted[d] + 1 = Len(s.tokens[s.variants[i]][d])
=============================================================================
