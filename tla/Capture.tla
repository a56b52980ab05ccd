------------------------------- MODULE Capture ------------------------------
(***************************************************************************)
(* The baseline capture of scripts/capture_glm52_16gb_baseline.py: the     *)
(* commands prepare, run-case, finalize and validate on one session.json.  *)
(*                                                                         *)
(* A command reads the whole session, works (run-case for as long as the   *)
(* engine takes) and writes the whole session back, so commands started    *)
(* together overwrite each other.  write_json opens session.json.tmp, one  *)
(* name for all of them, which truncates it, writes the text and moves the *)
(* file over session.json: commands in write_json at the same time can     *)
(* leave an empty file there or one made of two texts.  list-cases and     *)
(* validate change nothing: validate is the operator ValidateSession.      *)
(***************************************************************************)
EXTENDS Naturals, FiniteSets

CONSTANTS Operators,      \* shells in which a command of the script may run
          Prompts,        \* prompt ids of the matrix
          Repetitions,    \* numbers of the warm repetitions
          Variants,       \* controlled variations other than the baseline
          Hosts,          \* what prepare may find: a set of Host records
          Outputs,        \* what an engine run may leave: a set of Output records
          NoSession,      \* the file does not exist
          EmptyFile,      \* it is empty
          MixedFile,      \* it is not JSON: part of a text, or one text and the end of another
          MaxCommands     \* commands started in a behaviour

\* The matrix has a case (PROMPTS is not empty).
ASSUME CaptureAssumption == Prompts # {} /\ MaxCommands \in Nat

VARIABLES session,        \* session.json
          sessionTmp,     \* session.json.tmp
          command,        \* what each operator's command is doing
          issued,         \* commands started so far
          shared          \* history: whether the command whose replace made session.json
                          \* met another one in write_json

captureVars == <<session, sessionTmp, command, issued, shared>>

\* case_matrix, new_case: cold and warm baselines of every prompt, and the
\* variations on the medium prompt.
CaseMatrix ==
    LET Case(prompt, cache, rep, variant) ==
            [prompt |-> prompt, cache |-> cache, rep |-> rep, variant |-> variant]
    IN  {Case(p, "cold", 1, "baseline") : p \in Prompts}
        \cup {Case(x[1], "warm", x[2], "baseline") : x \in Prompts \X Repetitions}
        \cup {Case("medium", "warm", x[2], x[1]) : x \in Variants \X Repetitions}

Required == {"prompt_tokens", "prefill", "decode", "peak_rss", "hit_rate",
             "disk_per_token", "swap_observed"}

Host == [dirty : BOOLEAN, dir : BOOLEAN, memory : {"unknown", "outside", "16gb"},
         config : {"missing", "invalid", "small", "glm52"}, tokenizer : BOOLEAN,
         shards : {"none", "few", "all"}, mtpShards : BOOLEAN,
         manifest : {"missing", "invalid", "plain", "mtp"}, engine : BOOLEAN,
         plan : BOOLEAN, doctor : {"failed", "not json", "warn", "ok"}]

\* An engine's exit code 0, its summary line, its prompt-token line.
Output == [ok : BOOLEAN, summary : BOOLEAN, prompt : {"none", "near", "far"}]

-----------------------------------------------------------------------------
(* prepare *)

Either(test, name) == IF test THEN {name} ELSE {}

\* inspect_checkpoint.
InspectCheckpoint(h) ==
    Either(h.config = "missing", "missing_config")
    \cup Either(h.config = "invalid", "config_invalid")
    \cup Either(h.config = "small", "not_glm52_scale")
    \cup Either(~ h.tokenizer, "missing_tokenizer")
    \cup Either(h.shards = "none", "missing_safetensors")
    \cup Either(h.shards # "all", "too_small")
    \cup Either(h.manifest = "invalid", "manifest_invalid")
    \cup Either(~ h.mtpShards /\ h.manifest # "mtp", "missing_mtp")

\* physical_memory_bytes, cgroup_memory_limit_bytes, probe_host: the smaller
\* of the two limits, when one is known.
HostMemory(h) ==
    Either(h.memory = "unknown", "memory_unknown")
    \cup Either(h.memory = "outside", "memory_outside")

\* run_receipt of plan and doctor, which run only when nothing blocks yet.
PlanAndDoctor(h) ==
    Either(~ h.plan, "plan_failed")
    \cup Either(h.doctor = "failed", "doctor_failed")
    \cup Either(h.doctor = "not json", "doctor_json_invalid")
    \cup Either(h.doctor = "warn", "doctor_status")

Blockers(h) ==
    LET early == Either(h.dirty, "dirty") \cup Either(~ h.engine, "engine_missing")
                 \cup IF h.dir THEN InspectCheckpoint(h) \cup HostMemory(h)
                      ELSE {"model_dir_missing"}
    IN  IF early = {} THEN PlanAndDoctor(h) ELSE early

BlockedVerdict(blockers) ==
    IF blockers \cap {"plan_failed", "doctor_failed"} # {} THEN "does_not_run" ELSE "incomplete"

\* new_case, empty_receipt.
Planned == [status |-> "planned", attested |-> FALSE, observed |-> {}]

NewSession(h) == [blockers |-> Blockers(h), cases |-> [c \in CaseMatrix |-> Planned],
                  verdict |-> BlockedVerdict(Blockers(h))]

-----------------------------------------------------------------------------
(* run-case and finalize *)

\* parse_metrics: the metrics the engine's output gives a value to.  The
\* prefill rate, the disk bytes and the swap are never observed.
ParseMetrics(out) ==
    Either(out.prompt # "none", "prompt_tokens")
    \cup IF out.summary THEN {"decode", "generated", "peak_rss", "hit_rate"} ELSE {}

Captured(out, attested) ==
    [status |-> IF out.prompt = "far" THEN "invalid"
                ELSE IF out.ok /\ out.summary THEN "passed" ELSE "failed",
     attested |-> attested, observed |-> ParseMetrics(out)]

\* finalize; runs stands for runs_degraded too.
Finalize(s) ==
    LET In(states) == {c \in CaseMatrix : s.cases[c].status \in states}
        missing == {c \in In({"passed"}) : ~ (Required \subseteq s.cases[c].observed)}
    IN  IF s.blockers # {} THEN BlockedVerdict(s.blockers)
        ELSE IF In({"failed", "blocked", "invalid"}) # {} THEN "does_not_run"
        ELSE IF In({"planned"}) # {} \/ missing # {} THEN "incomplete"
        ELSE "runs"

\* validate_session, without the schema and the case ids, which no command
\* changes: cold cases that were run carry their attestation.
ValidateSession(s) ==
    \A c \in CaseMatrix :
        c.cache = "cold" /\ s.cases[c].status # "planned" => s.cases[c].attested

-----------------------------------------------------------------------------
(* The commands *)

Idle == [at |-> "idle"]
Do(o, state) == command' = [command EXCEPT ![o] = state]
Writes(o, s) == Do(o, [at |-> "write", holds |-> s])

\* What read_json does not return.
Unreadable == {NoSession, EmptyFile, MixedFile}

Issue(o) == /\ command[o] = Idle /\ issued < MaxCommands
            /\ issued' = issued + 1

Prepare(o, h) ==
    /\ Issue(o)
    /\ Writes(o, NewSession(h))
    /\ UNCHANGED <<session, sessionTmp, shared>>

\* Mutant: run-case forgets that a rerun of a cold case is a cold case.
RunCaseUnattested(o, c, attestation, rerun) ==
    /\ Issue(o) /\ session \notin Unreadable
    /\ session.blockers = {}
    /\ session.cases[c].status = "planned" \/ rerun
    /\ c.cache = "cold" => attestation \/ rerun
    /\ Do(o, [at |-> "engine", holds |-> session, case |-> c, attested |-> attestation])
    /\ UNCHANGED <<session, sessionTmp, shared>>

\* cmd_run_case up to run_receipt: the session it has read is the one it
\* will write back.
RunCase(o, c, attestation, rerun) ==
    /\ Issue(o) /\ session \notin Unreadable
    /\ session.blockers = {}
    /\ session.cases[c].status = "planned" \/ rerun
    /\ c.cache = "cold" => attestation
    /\ Do(o, [at |-> "engine", holds |-> session, case |-> c, attested |-> attestation])
    /\ UNCHANGED <<session, sessionTmp, shared>>

EngineReturns(o, out) ==
    /\ command[o].at = "engine"
    /\ LET me == command[o]
       IN  Writes(o, [me.holds EXCEPT !.cases[me.case] = Captured(out, me.attested)])
    /\ UNCHANGED <<session, sessionTmp, issued, shared>>

FinalizeSession(o) ==
    /\ Issue(o) /\ session \notin Unreadable
    /\ Writes(o, [session EXCEPT !.verdict = Finalize(session)])
    /\ UNCHANGED <<session, sessionTmp, shared>>

\* write_json, write_text: open truncates the temporary file, whoever else has
\* it open or is about to move it.
OpenTemporary(o) ==
    LET others == {k \in Operators \ {o} : command[k].at \in {"fill", "replace"}}
    IN /\ command[o].at = "write"
       /\ sessionTmp' = EmptyFile
       /\ command' = [k \in Operators |->
              CASE k = o -> [at |-> "fill", holds |-> command[o].holds, fd |-> "tmp",
                             alone |-> others = {}]
                [] k \in others -> [command[k] EXCEPT !.alone = FALSE]
                [] OTHER -> command[k]]
       /\ UNCHANGED <<session, issued, shared>>

\* The file the command has open is session.json by now when another command
\* has moved it there, and has no name any more when yet another one followed.
Put(o, text) ==
    /\ sessionTmp' = IF command[o].fd = "tmp" THEN text ELSE sessionTmp
    /\ session' = IF command[o].fd = "session" THEN text ELSE session

\* The text of another command is overwritten from its start: the end of a
\* longer one stays.
FillTemporary(o) ==
    LET opened == IF command[o].fd = "tmp" THEN sessionTmp ELSE session
    IN /\ command[o].at = "fill"
       /\ \/ Put(o, command[o].holds)
          \/ opened # EmptyFile /\ Put(o, MixedFile)
       /\ Do(o, [at |-> "replace", alone |-> command[o].alone])
       /\ UNCHANGED <<issued, shared>>

\* temporary.replace, which raises when another command has moved the file.
ReplaceSession(o) ==
    /\ command[o].at = "replace"
    /\ IF sessionTmp = NoSession
       THEN Do(o, Idle) /\ UNCHANGED <<session, sessionTmp, shared>>
       ELSE /\ session' = sessionTmp
            /\ sessionTmp' = NoSession
            /\ shared' = ~ command[o].alone
            /\ command' = [k \in Operators |->
                   CASE k = o -> Idle
                     [] k # o /\ command[k].at = "fill" ->
                          [command[k] EXCEPT !.fd = IF @ = "tmp" THEN "session" ELSE "gone"]
                     [] OTHER -> command[k]]
    /\ UNCHANGED issued

\* The operator interrupts a command, or its write fails half-way.
Interrupt(o) == /\ command[o] # Idle
                /\ \/ UNCHANGED <<session, sessionTmp>>
                   \/ command[o].at = "fill" /\ Put(o, MixedFile)
                /\ Do(o, Idle)
                /\ UNCHANGED <<issued, shared>>

CaptureInit ==
    /\ session = NoSession
    /\ sessionTmp = NoSession
    /\ command = [o \in Operators |-> Idle]
    /\ issued = 0
    /\ shared = FALSE

CaptureNext == \E o \in Operators :
    \/ \E h \in Hosts : Prepare(o, h)
    \/ \E c \in CaseMatrix, attestation, rerun \in BOOLEAN : RunCase(o, c, attestation, rerun)
    \/ \E out \in Outputs : EngineReturns(o, out)
    \/ FinalizeSession(o)
    \/ OpenTemporary(o)
    \/ FillTemporary(o)
    \/ ReplaceSession(o)
    \/ Interrupt(o)

CaptureSpec == CaptureInit /\ [][CaptureNext]_captureVars

-----------------------------------------------------------------------------
(* Properties *)

Session ==
    [blockers : SUBSET UNION {Blockers(h) : h \in Hosts},
     cases : [CaseMatrix -> [status : {"planned", "passed", "failed", "invalid"},
                             attested : BOOLEAN,
                             observed : SUBSET (Required \cup {"generated"})]],
     verdict : {"incomplete", "does_not_run", "runs"}]

\* What stands for an unreadable file is not a session.
ASSUME FilesAssumption == \A f \in {EmptyFile, MixedFile} : f \notin Session \cup {NoSession}

CaptureTypeOK ==
    /\ session \in Session \cup Unreadable
    /\ sessionTmp \in Session \cup Unreadable
    /\ issued \in 0..MaxCommands
    /\ shared \in BOOLEAN
    /\ \A o \in Operators :
        /\ command[o].at \in {"idle", "engine", "write", "fill", "replace"}
        /\ command[o].at \in {"engine", "write", "fill"} => command[o].holds \in Session
        /\ command[o].at = "fill" => command[o].fd \in {"tmp", "session", "gone"}
        /\ command[o].at \in {"fill", "replace"} => command[o].alone \in BOOLEAN

\* Whatever commands ran, overlapped or were interrupted, a session.json that
\* can be read passes validate, no case of a blocked preflight was run, and the
\* verdict says neither runs nor runs_degraded: parse_metrics cannot observe
\* every required metric, and does not invent the others.  It can be read unless
\* the command that put it there met another one in write_json, between the
\* opening of the temporary file and the replace.
SessionIsSound ==
    /\ session \in {EmptyFile, MixedFile} => shared
    /\ session \notin Unreadable =>
        /\ ValidateSession(session)
        /\ session.blockers # {} => \A c \in CaseMatrix : session.cases[c] = Planned
        /\ session.verdict # "runs"
=============================================================================
