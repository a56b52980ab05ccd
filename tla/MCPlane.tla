------------------------------- MODULE MCPlane ------------------------------
(* What serves, plans and measures around the engines: one request of the  *)
(* gateway, the OpenAI facade, the server manager, leases and sessions,    *)
(* the planners, kernel dispatch, and the three harnesses that capture     *)
(* measurements.  They share no state, so the model checker follows one of *)
(* them at a time: focus names it.                                         *)
EXTENDS Completion, Facade, ServerManager, Admission, Placement, Tuning, Capture, Perplexity, MCReproHarness

VARIABLE focus

MCMark == <<"1", "b">>

\* A request that is answered, with and without stops, and one for each
\* check that refuses it.
GoodRequest == [key |-> TRUE, body |-> TRUE, model |-> TRUE, path |-> "chat", effort |-> TRUE,
                messages |-> <<"text", "text">>, prompt |-> TRUE,
                unsupported |-> FALSE, stops |-> NotGiven, maximum |-> NotGiven, slot |-> TRUE,
                stream |-> TRUE, nul |-> FALSE]
MCChatRequests ==
    {[GoodRequest EXCEPT !.stops = x, !.stream = y] :
        x \in {NotGiven, <<<<"b">>>>, <<<<"a", "wide", "1">>, <<"1">>>>, <<<<"a", "b", "a">>, <<"b", "a">>>>},
        y \in BOOLEAN}
    \cup {[GoodRequest EXCEPT !.stops = x] : x \in {<<>>, <<<<>>>>, <<<<"a", "a", "a", "a">>>>,
                                                    <<<<"a">>, <<"b">>, <<"1">>>>}}
    \cup {[GoodRequest EXCEPT !.maximum = x] : x \in {0, TokenLimit, TokenLimit + 1}}
    \cup {[GoodRequest EXCEPT !.nul = TRUE], [GoodRequest EXCEPT !.nul = TRUE, !.stream = FALSE],
          [GoodRequest EXCEPT !.key = FALSE, !.model = FALSE], [GoodRequest EXCEPT !.body = FALSE],
          [GoodRequest EXCEPT !.model = FALSE], [GoodRequest EXCEPT !.path = "other"],
          [GoodRequest EXCEPT !.path = "text", !.prompt = FALSE],
          [GoodRequest EXCEPT !.path = "text"], [GoodRequest EXCEPT !.effort = FALSE],
          [GoodRequest EXCEPT !.messages = <<>>], [GoodRequest EXCEPT !.messages[2] = "image"],
          [GoodRequest EXCEPT !.unsupported = TRUE], [GoodRequest EXCEPT !.slot = FALSE]}

MCExtraArgs == {<<>>, <<"host", "address", "flag">>, <<"flag", "value", "host=">>,
                <<"host", "flag", "value">>, <<"host=", "value", "host">>,
                <<"host", "host", "address", "value">>}

MCIsaOf == [p \in Tuners |-> IF p = CHOOSE q \in Tuners : TRUE THEN {"avx2"} ELSE Features]
MCKernelOrder == <<"fast", "wide">>
MCRequires == [fast |-> {"avx2"}, wide |-> {"amx"}]
MCMeasures == {[faster |-> 1, error |-> "within", quick |-> TRUE],
               [faster |-> 0, error |-> "unknown", quick |-> TRUE],
               [faster |-> 2, error |-> "beyond", quick |-> TRUE],
               [faster |-> 2, error |-> "within", quick |-> FALSE]}
Seen(p50, p95, correct) == [p50 |-> p50, p95 |-> p95, correct |-> correct]
MCTimings == {[scalar |-> Seen(2, 2, TRUE), fast |-> Seen(1, 2, TRUE), wide |-> Seen(1, 1, TRUE)],
              [scalar |-> Seen(0, 0, TRUE), fast |-> Seen(1, 2, TRUE), wide |-> Seen(1, 1, TRUE)]}

\* A host that is ready, and one with each thing that can be wrong with it.
GoodHost == [dirty |-> FALSE, dir |-> TRUE, memory |-> "16gb", config |-> "glm52",
             tokenizer |-> TRUE, shards |-> "all", mtpShards |-> FALSE, manifest |-> "mtp",
             engine |-> TRUE, plan |-> TRUE, doctor |-> "ok"]
MCHosts == {GoodHost, [GoodHost EXCEPT !.dirty = TRUE], [GoodHost EXCEPT !.dir = FALSE],
            [GoodHost EXCEPT !.memory = "unknown"], [GoodHost EXCEPT !.shards = "few"],
            [GoodHost EXCEPT !.manifest = "invalid"], [GoodHost EXCEPT !.doctor = "failed"],
            [GoodHost EXCEPT !.doctor = "warn"]}
MCOutputs == {[ok |-> TRUE, summary |-> TRUE, prompt |-> "near"],
              [ok |-> FALSE, summary |-> FALSE, prompt |-> "none"],
              [ok |-> TRUE, summary |-> TRUE, prompt |-> "far"]}

GoodSuite == [manifest |-> "ok", corpus |-> "ok", variants |-> <<"v1", "v2">>,
              files |-> [v \in Variant |-> "ok"],
              tokens |-> [v \in Variant |-> <<<<1, 2>>, <<1, 2, 3>>>>], longest |-> 3]
MCSuites ==
    {[GoodSuite EXCEPT !.manifest = x] : x \in {"unreadable", "not an object", "bad fields", "ok"}}
    \cup {[GoodSuite EXCEPT !.corpus = x] : x \in {"missing", "undecodable", "bad row", "wrong hash"}}
    \cup {[GoodSuite EXCEPT !.files["v2"] = x] : x \in VariantFaults}
    \cup {[GoodSuite EXCEPT !.variants = x] : x \in {<<>>, <<"v1", "v1">>, <<"v2">>}}
    \cup {[GoodSuite EXCEPT !.longest = x] : x \in {1, 2}}
    \cup {[GoodSuite EXCEPT !.tokens["v2"] = x] :
             x \in {<<<<1, 2>>, <<1, 2>>>>, <<<<1>>, <<1, 2, 3>>>>, <<<<1, 9>>, <<1, 2, 3>>>>}}
MCRows == [logp : {"none"}, tokens : {0}, greedy : {0}]
          \cup [logp : {"ok", "invalid", "huge"}, tokens : {1, 2}, greedy : {0}]
          \cup [logp : {"ok"}, tokens : {1}, greedy : {2}]

\* A name without braces, which is expanded and not validated.
Unbraced == [BenchCase("x", [any |-> {"repo_root", "undefined"}], "none") EXCEPT !.braced = [any |-> {"repo_root"}]]
MCPlaneTemplates == MCTemplates \cup {[valid |-> TRUE, variables |-> [a |-> {}], cases |-> <<Unbraced>>]}

-----------------------------------------------------------------------------
MCInit ==
    /\ focus \in {"completion", "facade", "manager", "admission", "placement", "tuning", "capture",
                  "perplexity", "bench"}
    /\ CompletionInit /\ FacadeInit /\ MgrInit /\ AdmissionInit /\ PlacementInit /\ TuningInit
    /\ CaptureInit /\ PplInit /\ BenchInit
    /\ focus # "facade" => facade.backend = "off" /\ ~ facade.embed
    /\ focus # "tuning" => measured = [k \in Kernels |-> CHOOSE m \in MCMeasures : TRUE]

MCNext ==
    /\ UNCHANGED focus
    /\ \/ /\ focus = "completion" /\ CompletionNext
          /\ UNCHANGED <<facadeVars, mgrVars, admissionVars, asked, tuningVars, captureVars, pplVars, benchVars>>
       \/ /\ focus = "facade" /\ FacadeNext
          /\ UNCHANGED <<replyVars, mgrVars, admissionVars, asked, tuningVars, captureVars, pplVars, benchVars>>
       \/ /\ focus = "manager" /\ MgrNext
          /\ UNCHANGED <<replyVars, facadeVars, admissionVars, asked, tuningVars, captureVars, pplVars, benchVars>>
       \/ /\ focus = "admission" /\ AdmissionNext
          /\ UNCHANGED <<replyVars, facadeVars, mgrVars, asked, tuningVars, captureVars, pplVars, benchVars>>
       \/ /\ focus = "placement" /\ PlacementNext
          /\ UNCHANGED <<replyVars, facadeVars, mgrVars, admissionVars, tuningVars, captureVars, pplVars, benchVars>>
       \/ /\ focus = "tuning" /\ TuningNext
          /\ UNCHANGED <<replyVars, facadeVars, mgrVars, admissionVars, asked, captureVars, pplVars, benchVars>>
       \/ /\ focus = "capture" /\ CaptureNext
          /\ UNCHANGED <<replyVars, facadeVars, mgrVars, admissionVars, asked, tuningVars, pplVars, benchVars>>
       \/ /\ focus = "perplexity" /\ PplNext
          /\ UNCHANGED <<replyVars, facadeVars, mgrVars, admissionVars, asked, tuningVars, captureVars, benchVars>>
       \/ /\ focus = "bench" /\ BenchNext
          /\ UNCHANGED <<replyVars, facadeVars, mgrVars, admissionVars, asked, tuningVars, captureVars, pplVars>>

PlaneTypeOK ==
    /\ CompletionTypeOK /\ FacadeTypeOK /\ MgrTypeOK /\ AdmissionTypeOK /\ PlacementTypeOK
    /\ TuningTypeOK /\ CaptureTypeOK /\ PplTypeOK /\ BenchTypeOK

MCSpec == MCInit /\ [][MCNext]_<<focus, replyVars, facadeVars, mgrVars, admissionVars, asked, tuningVars,
                                 captureVars, pplVars, benchVars>>
=============================================================================
