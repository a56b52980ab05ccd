---------------------------- MODULE HarnessProofs ---------------------------
(* Proofs about what measures and plans around the engines: the baseline   *)
(* capture, kernel dispatch, the perplexity runner, the benchmark harness  *)
(* and the planners; and the types of all that MCPlane puts together.      *)
EXTENDS MCPlane, ServingProofs

(***************************************************************************)
(* The baseline capture.                                                   *)
(***************************************************************************)

\* A session that any command may hold or write.
GoodSession(s) ==
    /\ s \in Session
    /\ ValidateSession(s)
    /\ s.blockers # {} => \A c \in CaseMatrix : s.cases[c] = Planned
    /\ s.verdict # "runs"
    /\ \A c \in CaseMatrix : "prefill" \notin s.cases[c].observed

GoodFile(f) == f \notin Unreadable => GoodSession(f)

FillType == [at : {"fill"}, holds : Session, fd : {"tmp", "session", "gone"}, alone : BOOLEAN]

GoodCommand(o) ==
    /\ command[o].at \in {"idle", "engine", "write", "fill", "replace"}
    /\ command[o].at \in {"engine", "write", "fill"} => GoodSession(command[o].holds)
    /\ command[o].at = "engine" =>
        /\ command[o].holds.blockers = {}
        /\ command[o].case \in CaseMatrix /\ command[o].attested \in BOOLEAN
        /\ command[o].case.cache = "cold" => command[o].attested = TRUE
    /\ command[o].at = "fill" => command[o] \in FillType
    /\ command[o].at = "replace" => command[o] \in [at : {"replace"}, alone : BOOLEAN]

\* A command that met nobody in write_json so far: the temporary file is its
\* own, empty until it is filled and whole from then on.
OwnTemporary(o) ==
    command[o].at \in {"fill", "replace"} /\ command[o].alone = TRUE =>
        /\ \A k \in Operators \ {o} : command[k].at \notin {"fill", "replace"}
        /\ command[o].at = "fill" => command[o].fd = "tmp" /\ sessionTmp = EmptyFile
        /\ command[o].at = "replace" => sessionTmp \notin {EmptyFile, MixedFile}

\* A command can only have session.json open when another one has moved it
\* there from under it.
MovedFromUnder(o) == command[o].at = "fill" /\ command[o].fd = "session" => shared = TRUE

CaptureIInv ==
    /\ GoodFile(session) /\ GoodFile(sessionTmp) /\ shared \in BOOLEAN
    /\ session \in {EmptyFile, MixedFile} => shared = TRUE
    /\ command = [o \in Operators |-> command[o]]
    /\ \A o \in Operators : GoodCommand(o) /\ OwnTemporary(o) /\ MovedFromUnder(o)

LEMMA CaseMatrixNotEmpty == CaseMatrix # {}
<1>1. PICK p \in Prompts : TRUE
  BY CaptureAssumption
<1>2. [prompt |-> p, cache |-> "cold", rep |-> 1, variant |-> "baseline"] \in CaseMatrix
  BY <1>1 DEF CaseMatrix
<1> QED
  BY <1>2

CaseType == [status : {"planned", "passed", "failed", "invalid"}, attested : BOOLEAN,
             observed : SUBSET (Required \cup {"generated"})]

LEMMA NewSessionIsGood == ASSUME NEW h \in Hosts PROVE GoodSession(NewSession(h))
<1> DEFINE s == NewSession(h)
<1>1. /\ s.blockers = Blockers(h) /\ s.cases = [c \in CaseMatrix |-> Planned]
      /\ s.verdict = BlockedVerdict(Blockers(h))
      /\ s = [blockers |-> Blockers(h), cases |-> [c \in CaseMatrix |-> Planned],
              verdict |-> BlockedVerdict(Blockers(h))]
  BY DEF NewSession
<1>2. BlockedVerdict(Blockers(h)) \in {"incomplete", "does_not_run"}
  BY DEF BlockedVerdict
<1>3. /\ Planned \in CaseType /\ Planned.status = "planned" /\ Planned.observed = {}
  BY DEF Planned, CaseType
<1>4. Blockers(h) \in SUBSET UNION {Blockers(k) : k \in Hosts}
  OBVIOUS
<1> HIDE DEF s
<1>5. s \in Session
  BY <1>1, <1>2, <1>3, <1>4 DEF Session, CaseType
<1>6. \A c \in CaseMatrix : s.cases[c] = Planned
  BY <1>1
<1> QED
  BY <1>1, <1>2, <1>3, <1>5, <1>6 DEF GoodSession, ValidateSession, s

LEMMA CapturedType ==
    ASSUME NEW out, NEW a \in BOOLEAN
    PROVE  /\ Captured(out, a) \in CaseType /\ Captured(out, a).attested = a
           /\ "prefill" \notin Captured(out, a).observed
<1>1. /\ ParseMetrics(out) \subseteq {"prompt_tokens", "decode", "generated", "peak_rss", "hit_rate"}
      /\ "prefill" \notin ParseMetrics(out)
  BY DEF ParseMetrics, Either
<1>2. ParseMetrics(out) \in SUBSET (Required \cup {"generated"})
  BY <1>1 DEF Required
<1> QED
  BY <1>1, <1>2 DEF Captured, CaseType

\* A case is filled in: only that case changes.
LEMMA FilledIsGood ==
    ASSUME NEW s, GoodSession(s), s.blockers = {}, NEW c \in CaseMatrix, NEW out, NEW a \in BOOLEAN,
           c.cache = "cold" => a = TRUE
    PROVE  GoodSession([s EXCEPT !.cases[c] = Captured(out, a)])
<1> DEFINE x == Captured(out, a)
           cases == [s.cases EXCEPT ![c] = x]
           t == [s EXCEPT !.cases[c] = x]
<1>1. x \in CaseType /\ x.attested = a /\ "prefill" \notin x.observed
  BY CapturedType
<1> HIDE DEF x
<1>2. /\ s \in Session /\ s.cases \in [CaseMatrix -> CaseType]
  BY DEF GoodSession, Session, CaseType
<1>3. /\ cases \in [CaseMatrix -> CaseType] /\ cases[c] = x
      /\ \A d \in CaseMatrix : d # c => cases[d] = s.cases[d]
  BY <1>1, <1>2
<1>4. t = [blockers |-> s.blockers, cases |-> cases, verdict |-> s.verdict]
  <2>1. t = [s EXCEPT !.cases = cases]
    OBVIOUS
  <2> HIDE DEF cases, t
  <2>2. s = [blockers |-> s.blockers, cases |-> s.cases, verdict |-> s.verdict]
    BY <1>2 DEF Session
  <2> QED
    BY <2>1, <2>2
<1> HIDE DEF t, cases
<1>5. t \in Session /\ t.blockers = {} /\ t.cases = cases /\ t.verdict = s.verdict
  BY <1>2, <1>3, <1>4 DEF Session, CaseType
<1>6. \A d \in CaseMatrix : d.cache = "cold" /\ cases[d].status # "planned" => cases[d].attested
  <2> SUFFICES ASSUME NEW d \in CaseMatrix, d.cache = "cold", cases[d].status # "planned"
               PROVE  cases[d].attested
    OBVIOUS
  <2>1. CASE d = c
    BY <1>1, <1>3, <2>1
  <2>2. CASE d # c
    BY <1>3, <2>2 DEF GoodSession, ValidateSession
  <2> QED
    BY <2>1, <2>2
<1>7. \A d \in CaseMatrix : "prefill" \notin cases[d].observed
  BY <1>1, <1>3 DEF GoodSession
<1>8. GoodSession(t)
  BY <1>5, <1>6, <1>7 DEF GoodSession, ValidateSession
<1> QED
  BY <1>8 DEF t, x

\* finalize cannot say runs: a passed case lacks the prefill rate.
LEMMA FinalizeIsIncomplete ==
    ASSUME NEW s, GoodSession(s)
    PROVE  Finalize(s) \in {"incomplete", "does_not_run"}
<1>1. PICK c \in CaseMatrix : TRUE
  BY CaseMatrixNotEmpty
<1>2. s.cases[c].status \in {"planned", "passed", "failed", "invalid"}
  BY DEF GoodSession, Session
<1>3. ~ (Required \subseteq s.cases[c].observed)
  BY DEF GoodSession, Required
<1>4. CASE s.blockers # {}
  BY <1>4 DEF Finalize, BlockedVerdict
<1>5. CASE s.blockers = {}
  BY <1>2, <1>3, <1>5 DEF Finalize
<1> QED
  BY <1>4, <1>5

LEMMA FinalizedIsGood ==
    ASSUME NEW s, GoodSession(s)
    PROVE  GoodSession([s EXCEPT !.verdict = Finalize(s)])
<1> DEFINE v == Finalize(s)
           t == [s EXCEPT !.verdict = v]
<1>1. v \in {"incomplete", "does_not_run"}
  BY FinalizeIsIncomplete
<1> HIDE DEF v
<1>2. t = [blockers |-> s.blockers, cases |-> s.cases, verdict |-> v]
  BY DEF GoodSession, Session
<1> HIDE DEF t
<1>3. t \in Session /\ t.blockers = s.blockers /\ t.cases = s.cases /\ t.verdict = v
  BY <1>1, <1>2 DEF GoodSession, Session
<1>4. GoodSession(t)
  BY <1>1, <1>3 DEF GoodSession, ValidateSession
<1> QED
  BY <1>4 DEF t, v

\* A step of operator o that leaves the files alone and is not in write_json.
LEMMA DoIInv ==
    ASSUME CaptureIInv, NEW o \in Operators, NEW state, Do(o, state),
           /\ state.at \in {"idle", "engine", "write"}
           /\ state.at \in {"engine", "write"} => GoodSession(state.holds)
           /\ state.at = "engine" =>
               /\ state.holds.blockers = {}
               /\ state.case \in CaseMatrix /\ state.attested \in BOOLEAN
               /\ state.case.cache = "cold" => state.attested = TRUE,
           UNCHANGED <<session, sessionTmp, shared>>
    PROVE  CaptureIInv'
<1>1. /\ command' = [c \in Operators |-> command'[c]] /\ command'[o] = state
      /\ \A c \in Operators : c # o => command'[c] = command[c]
  BY DEF CaptureIInv, Do
<1>2. ASSUME NEW c \in Operators PROVE (GoodCommand(c) /\ OwnTemporary(c) /\ MovedFromUnder(c))'
  <2>1. CASE c = o
    BY <1>1, <2>1 DEF GoodCommand, OwnTemporary, MovedFromUnder
  <2>2. CASE c # o
    BY <1>1, <2>2 DEF CaptureIInv, GoodCommand, OwnTemporary, MovedFromUnder
  <2> QED
    BY <2>1, <2>2
<1> QED
  BY <1>1, <1>2 DEF CaptureIInv, GoodFile

\* A command in write_json that another one joins.
LEMMA JoinedIs ==
    ASSUME NEW o \in Operators, GoodCommand(o), command[o].at \in {"fill", "replace"},
           command'[o] = [command[o] EXCEPT !.alone = FALSE]
    PROVE  /\ GoodCommand(o)' /\ command'[o].alone = FALSE /\ command'[o].at = command[o].at
           /\ command[o].at = "fill" => command'[o].fd = command[o].fd
<1>1. CASE command[o].at = "fill"
  <2>1. /\ command'[o] \in FillType /\ command'[o].at = "fill" /\ command'[o].alone = FALSE
        /\ command'[o].fd = command[o].fd /\ command'[o].holds = command[o].holds
    BY <1>1 DEF GoodCommand, FillType
  <2> QED
    BY <1>1, <2>1 DEF GoodCommand
<1>2. CASE command[o].at = "replace"
  <2>1. /\ command'[o] \in [at : {"replace"}, alone : BOOLEAN] /\ command'[o].at = "replace"
        /\ command'[o].alone = FALSE
    BY <1>2 DEF GoodCommand
  <2> QED
    BY <1>2, <2>1 DEF GoodCommand
<1> QED
  BY <1>1, <1>2

LEMMA OpenIInv == ASSUME CaptureIInv, NEW o \in Operators, OpenTemporary(o) PROVE CaptureIInv'
<1> DEFINE others == {k \in Operators \ {o} : command[k].at \in {"fill", "replace"}}
           mine == [at |-> "fill", holds |-> command[o].holds, fd |-> "tmp", alone |-> others = {}]
<1>1. /\ command[o].at = "write" /\ sessionTmp' = EmptyFile /\ UNCHANGED <<session, shared>>
      /\ command' = [k \in Operators |->
             CASE k = o -> mine
               [] k \in others -> [command[k] EXCEPT !.alone = FALSE]
               [] OTHER -> command[k]]
  BY DEF OpenTemporary
<1>2. /\ mine \in FillType /\ mine.at = "fill" /\ mine.holds = command[o].holds /\ mine.fd = "tmp"
      /\ GoodSession(mine.holds) /\ (mine.alone = TRUE <=> others = {})
  <2>1. GoodSession(command[o].holds)
    BY <1>1 DEF CaptureIInv, GoodCommand
  <2>2. command[o].holds \in Session
    BY <2>1 DEF GoodSession
  <2>3. (others = {}) \in BOOLEAN
    OBVIOUS
  <2> HIDE DEF others
  <2> QED
    BY <2>1, <2>2, <2>3 DEF FillType
<1>3. o \notin others /\ \A k \in Operators : k \in others <=> k # o /\ command[k].at \in {"fill", "replace"}
  OBVIOUS
<1> HIDE DEF mine, others
<1>4. /\ command' = [k \in Operators |-> command'[k]]
      /\ command'[o] = mine
      /\ \A k \in Operators : k \in others => command'[k] = [command[k] EXCEPT !.alone = FALSE]
      /\ \A k \in Operators : k # o /\ k \notin others => command'[k] = command[k]
  BY <1>1, <1>3
<1>5. ASSUME NEW k \in Operators PROVE (GoodCommand(k) /\ OwnTemporary(k) /\ MovedFromUnder(k))'
  <2>0. GoodCommand(k) /\ MovedFromUnder(k)
    BY DEF CaptureIInv
  <2>1. CASE k = o
    <3>1. GoodCommand(k)'
      BY <1>2, <1>4, <2>1 DEF GoodCommand
    <3>2. OwnTemporary(k)'
      BY <1>1, <1>2, <1>3, <1>4, <2>1 DEF OwnTemporary
    <3> QED
      BY <1>2, <1>4, <2>1, <3>1, <3>2 DEF MovedFromUnder
  <2>2. CASE k \in others
    <3>1. /\ GoodCommand(k)' /\ command'[k].alone = FALSE /\ command'[k].at = command[k].at
          /\ command[k].at = "fill" => command'[k].fd = command[k].fd
      BY <1>3, <1>4, <2>0, <2>2, JoinedIs
    <3> QED
      BY <1>1, <2>0, <3>1 DEF OwnTemporary, MovedFromUnder
  <2>3. CASE k # o /\ k \notin others
    <3>1. command'[k] = command[k] /\ command[k].at \notin {"fill", "replace"}
      BY <1>3, <1>4, <2>3
    <3> QED
      BY <2>0, <3>1 DEF GoodCommand, OwnTemporary, MovedFromUnder
  <2> QED
    BY <2>1, <2>2, <2>3
<1> QED
  BY <1>1, <1>4, <1>5 DEF CaptureIInv, GoodFile, Unreadable

\* What a command writes, its own text or what is no text, goes where its
\* descriptor leads; session.json is part of that only when it was moved.
LEMMA PutKeeps ==
    ASSUME CaptureIInv, NEW o \in Operators, command[o].at = "fill", NEW text, Put(o, text),
           GoodFile(text), text \in {MixedFile, command[o].holds}
    PROVE  /\ GoodFile(session') /\ GoodFile(sessionTmp')
           /\ session' \in {EmptyFile, MixedFile} => shared = TRUE
           /\ command[o].fd = "tmp" => sessionTmp' = text
<1>1. MovedFromUnder(o) /\ GoodCommand(o)
  BY DEF CaptureIInv
<1>2. CASE command[o].fd = "session"
  BY <1>1, <1>2 DEF Put, CaptureIInv, MovedFromUnder
<1>3. CASE command[o].fd # "session"
  BY <1>3 DEF Put, CaptureIInv
<1> QED
  BY <1>2, <1>3

\* Nobody in write_json owns the temporary file while another one has it open.
LEMMA NobodyOwnsWhile ==
    ASSUME CaptureIInv, NEW o \in Operators, command[o].at \in {"fill", "replace"},
           NEW k \in Operators, k # o, command[k].at \in {"fill", "replace"}
    PROVE  command[k].alone # TRUE
BY DEF CaptureIInv, OwnTemporary

LEMMA FillIInv == ASSUME CaptureIInv, NEW o \in Operators, FillTemporary(o) PROVE CaptureIInv'
<1> DEFINE opened == IF command[o].fd = "tmp" THEN sessionTmp ELSE session
           mine == [at |-> "replace", alone |-> command[o].alone]
<1>1. PICK text \in {MixedFile, command[o].holds} :
          Put(o, text) /\ (text = command[o].holds \/ opened # EmptyFile)
  BY DEF FillTemporary
<1>2. command[o].at = "fill" /\ UNCHANGED shared /\ Do(o, mine)
  BY DEF FillTemporary
<1>3. /\ GoodCommand(o) /\ OwnTemporary(o) /\ command[o] \in FillType /\ GoodSession(command[o].holds)
      /\ command[o].holds \notin {EmptyFile, MixedFile} /\ command[o].alone \in BOOLEAN
  BY <1>2, FilesAssumption DEF CaptureIInv, GoodCommand, FillType, GoodSession
<1>4. GoodFile(text)
  BY <1>1, <1>3 DEF GoodFile, Unreadable
<1>5. /\ GoodFile(session') /\ GoodFile(sessionTmp')
      /\ session' \in {EmptyFile, MixedFile} => shared = TRUE
      /\ command[o].fd = "tmp" => sessionTmp' = text
  BY <1>1, <1>2, <1>4, PutKeeps
<1>6. /\ mine \in [at : {"replace"}, alone : BOOLEAN] /\ mine.at = "replace"
      /\ mine.alone = command[o].alone
  BY <1>3
<1>7. command[o].alone = TRUE => sessionTmp' \notin {EmptyFile, MixedFile}
  BY <1>1, <1>2, <1>3, <1>5 DEF OwnTemporary
<1> HIDE DEF mine, opened
<1>8. /\ command' = [k \in Operators |-> command'[k]] /\ command'[o] = mine
      /\ \A k \in Operators : k # o => command'[k] = command[k]
  BY <1>2 DEF CaptureIInv, Do
<1>9. ASSUME NEW k \in Operators PROVE (GoodCommand(k) /\ OwnTemporary(k) /\ MovedFromUnder(k))'
  <2>1. CASE k = o
    BY <1>2, <1>3, <1>6, <1>7, <1>8, <2>1 DEF GoodCommand, OwnTemporary, MovedFromUnder
  <2>2. CASE k # o
    <3>1. /\ command'[k] = command[k] /\ GoodCommand(k) /\ MovedFromUnder(k)
          /\ command[k].at \in {"fill", "replace"} => command[k].alone # TRUE
      BY <1>2, <1>8, <2>2, NobodyOwnsWhile DEF CaptureIInv
    <3> QED
      BY <1>2, <3>1 DEF GoodCommand, OwnTemporary, MovedFromUnder
  <2> QED
    BY <2>1, <2>2
<1> QED
  BY <1>2, <1>5, <1>8, <1>9 DEF CaptureIInv

LEMMA ReplaceIInv == ASSUME CaptureIInv, NEW o \in Operators, ReplaceSession(o) PROVE CaptureIInv'
<1>1. CASE sessionTmp = NoSession
  BY <1>1, DoIInv DEF ReplaceSession, Idle
<1>2. CASE sessionTmp # NoSession
  <2> DEFINE Moved(k) == [command[k] EXCEPT !.fd = IF @ = "tmp" THEN "session" ELSE "gone"]
  <2>1. /\ command[o].at = "replace" /\ session' = sessionTmp /\ sessionTmp' = NoSession
        /\ shared' = ~ command[o].alone
        /\ command' = [k \in Operators |->
               CASE k = o -> Idle
                 [] k # o /\ command[k].at = "fill" -> Moved(k)
                 [] OTHER -> command[k]]
    BY <1>2 DEF ReplaceSession
  <2>2. /\ GoodCommand(o) /\ OwnTemporary(o) /\ command[o].alone \in BOOLEAN
    BY <2>1 DEF CaptureIInv, GoodCommand
  <2>3. ASSUME NEW k \in Operators, k # o, command[k].at = "fill"
        PROVE  /\ Moved(k) \in FillType /\ Moved(k).at = "fill" /\ Moved(k).alone = command[k].alone
               /\ Moved(k).holds = command[k].holds
    BY <2>3 DEF CaptureIInv, GoodCommand, FillType
  <2> HIDE DEF Moved
  <2>4. /\ command' = [k \in Operators |-> command'[k]] /\ command'[o] = Idle
        /\ \A k \in Operators : k # o /\ command[k].at = "fill" => command'[k] = Moved(k)
        /\ \A k \in Operators : k # o /\ command[k].at # "fill" => command'[k] = command[k]
    BY <2>1
  <2>5. ASSUME NEW k \in Operators PROVE (GoodCommand(k) /\ OwnTemporary(k) /\ MovedFromUnder(k))'
    <3>0. GoodCommand(k) /\ (k # o /\ command[k].at \in {"fill", "replace"} => command[k].alone # TRUE)
      BY <2>1, NobodyOwnsWhile DEF CaptureIInv
    <3>1. CASE k = o
      BY <2>4, <3>1 DEF GoodCommand, OwnTemporary, MovedFromUnder, Idle
    <3>2. CASE k # o /\ command[k].at = "fill"
      <4>1. /\ command'[k] \in FillType /\ command'[k].at = "fill" /\ command'[k].alone # TRUE
            /\ command'[k].holds = command[k].holds
        BY <2>3, <2>4, <3>0, <3>2
      <4>2. shared' = TRUE
        BY <2>1, <2>2, <3>2 DEF OwnTemporary
      <4> QED
        BY <3>0, <3>2, <4>1, <4>2 DEF GoodCommand, OwnTemporary, MovedFromUnder
    <3>3. CASE k # o /\ command[k].at # "fill"
      BY <2>4, <3>0, <3>3 DEF GoodCommand, OwnTemporary, MovedFromUnder
    <3> QED
      BY <3>1, <3>2, <3>3
  <2>6. session' \in {EmptyFile, MixedFile} => shared' = TRUE
    BY <2>1, <2>2 DEF OwnTemporary
  <2>7. GoodFile(session') /\ GoodFile(sessionTmp') /\ shared' \in BOOLEAN
    BY <2>1 DEF CaptureIInv, GoodFile, Unreadable
  <2> QED
    BY <2>4, <2>5, <2>6, <2>7 DEF CaptureIInv, GoodFile
<1> QED
  BY <1>1, <1>2

LEMMA InterruptIInv == ASSUME CaptureIInv, NEW o \in Operators, Interrupt(o) PROVE CaptureIInv'
<1>1. CASE UNCHANGED <<session, sessionTmp>>
  BY <1>1, DoIInv DEF Interrupt, Idle
<1>2. CASE command[o].at = "fill" /\ Put(o, MixedFile)
  <2>1. Do(o, Idle) /\ UNCHANGED shared
    BY DEF Interrupt
  <2>2. GoodFile(MixedFile)
    BY DEF GoodFile, Unreadable
  <2>3. /\ GoodFile(session') /\ GoodFile(sessionTmp')
        /\ session' \in {EmptyFile, MixedFile} => shared = TRUE
    BY <1>2, <2>2, PutKeeps
  <2>4. /\ command' = [k \in Operators |-> command'[k]] /\ command'[o] = Idle
        /\ \A k \in Operators : k # o => command'[k] = command[k]
    BY <2>1 DEF CaptureIInv, Do
  <2>5. ASSUME NEW k \in Operators PROVE (GoodCommand(k) /\ OwnTemporary(k) /\ MovedFromUnder(k))'
    <3>1. CASE k = o
      BY <2>4, <3>1 DEF GoodCommand, OwnTemporary, MovedFromUnder, Idle
    <3>2. CASE k # o
      <4>1. /\ command'[k] = command[k] /\ GoodCommand(k) /\ MovedFromUnder(k)
            /\ command[k].at \in {"fill", "replace"} => command[k].alone # TRUE
        BY <1>2, <2>4, <3>2, NobodyOwnsWhile DEF CaptureIInv
      <4> QED
        BY <2>1, <4>1 DEF GoodCommand, OwnTemporary, MovedFromUnder
    <3> QED
      BY <3>1, <3>2
  <2> QED
    BY <2>1, <2>3, <2>4, <2>5 DEF CaptureIInv
<1> QED
  BY <1>1, <1>2 DEF Interrupt

LEMMA CaptureStep == CaptureIInv /\ [CaptureNext]_captureVars => CaptureIInv'
<1> SUFFICES ASSUME CaptureIInv, [CaptureNext]_captureVars PROVE CaptureIInv'
  OBVIOUS
<1>1. ASSUME NEW o \in Operators, NEW h \in Hosts, Prepare(o, h) PROVE CaptureIInv'
  BY <1>1, DoIInv, NewSessionIsGood DEF Prepare, Writes
<1>2. ASSUME NEW o \in Operators, NEW c \in CaseMatrix, NEW attestation \in BOOLEAN,
             NEW rerun \in BOOLEAN, RunCase(o, c, attestation, rerun)
      PROVE  CaptureIInv'
  <2> DEFINE state == [at |-> "engine", holds |-> session, case |-> c, attested |-> attestation]
  <2>1. /\ Do(o, state) /\ GoodSession(session) /\ session.blockers = {}
        /\ c.cache = "cold" => attestation = TRUE
        /\ UNCHANGED <<session, sessionTmp, shared>>
    BY <1>2 DEF RunCase, CaptureIInv, GoodFile
  <2>2. /\ state.at = "engine" /\ state.holds = session /\ state.case = c
        /\ state.attested = attestation
    OBVIOUS
  <2> HIDE DEF state
  <2> QED
    BY <2>1, <2>2, DoIInv
<1>3. ASSUME NEW o \in Operators, NEW out \in Outputs, EngineReturns(o, out) PROVE CaptureIInv'
  <2> DEFINE me == command[o]
             s == [me.holds EXCEPT !.cases[me.case] = Captured(out, me.attested)]
  <2>1. /\ Do(o, [at |-> "write", holds |-> s]) /\ UNCHANGED <<session, sessionTmp, shared>>
        /\ command[o].at = "engine"
    BY <1>3 DEF EngineReturns, Writes
  <2>2. GoodCommand(o)
    BY DEF CaptureIInv
  <2>3. GoodSession(s)
    BY <2>1, <2>2, FilledIsGood DEF GoodCommand
  <2> HIDE DEF s
  <2> QED
    BY <2>1, <2>3, DoIInv
<1>4. ASSUME NEW o \in Operators, FinalizeSession(o) PROVE CaptureIInv'
  <2>1. GoodSession([session EXCEPT !.verdict = Finalize(session)])
    BY <1>4, FinalizedIsGood DEF FinalizeSession, CaptureIInv, GoodFile
  <2> QED
    BY <1>4, <2>1, DoIInv DEF FinalizeSession, Writes
<1>5. ASSUME UNCHANGED captureVars PROVE CaptureIInv'
  BY <1>5 DEF captureVars, CaptureIInv, GoodFile, GoodCommand, OwnTemporary, MovedFromUnder
<1> QED
  BY <1>1, <1>2, <1>3, <1>4, <1>5, OpenIInv, FillIInv, ReplaceIInv, InterruptIInv DEF CaptureNext

LEMMA CaptureInvariant == CaptureSpec => []CaptureIInv
<1>1. CaptureInit => CaptureIInv
  <2> SUFFICES ASSUME CaptureInit PROVE CaptureIInv
    OBVIOUS
  <2>1. /\ session = NoSession /\ sessionTmp = NoSession /\ shared = FALSE
        /\ command = [o \in Operators |-> Idle]
    BY DEF CaptureInit
  <2>2. NoSession \notin {EmptyFile, MixedFile}
    BY FilesAssumption
  <2>3. \A o \in Operators : command[o].at = "idle"
    BY <2>1 DEF Idle
  <2>4. \A o \in Operators : GoodCommand(o) /\ OwnTemporary(o) /\ MovedFromUnder(o)
    BY <2>3 DEF GoodCommand, OwnTemporary, MovedFromUnder
  <2>5. command = [o \in Operators |-> command[o]]
    BY <2>1
  <2> QED
    BY <2>1, <2>2, <2>4, <2>5 DEF CaptureIInv, GoodFile, Unreadable
<1> QED
  BY <1>1, CaptureStep, PTL DEF CaptureSpec

\* Whatever commands run, overlap or are interrupted, a session.json that can be
\* read passes validate, a blocked preflight has no case that was run, and no
\* verdict says that the engine runs; it can be read unless the command that put
\* it there met another one in write_json (prepare, run-case, finalize,
\* write_json).  For any matrix, hosts, outputs and number of operators.
THEOREM SessionStaysSound == CaptureSpec => []SessionIsSound
<1>1. CaptureIInv => SessionIsSound
  BY DEF CaptureIInv, GoodFile, GoodSession, SessionIsSound
<1> QED
  BY <1>1, CaptureInvariant, PTL

(***************************************************************************)
(* Kernel dispatch.                                                        *)
(***************************************************************************)

\* What was known of a kernel when it was chosen.
SafeKnown(x) == x.quick = TRUE /\ x.error # "beyond"

SafeChoice(p, k) == k \in Kernels /\ Requires[k] \subseteq IsaOf[p]

SafeEntries(doc) == \A key \in DOMAIN doc : doc[key] \in Kernels /\ Requires[doc[key]] \subseteq key

SafePlan(p) == SafeKnown(plans[p].known)
               /\ (plans[p].kernel # "scalar" => SafeChoice(p, plans[p].kernel))

SafeTuner(p) ==
    /\ tuner[p].at \in {"free", "store", "replace"}
    /\ tuner[p].at \in {"store", "replace"} =>
           SafeChoice(p, tuner[p].kernel) /\ SafeKnown(tuner[p].known)
    /\ tuner[p].at = "replace" => SafeEntries(tuner[p].entries)

TuningIInv ==
    /\ measured \in [Kernels -> Measure]
    /\ tuningFile # NoCacheFile => SafeEntries(tuningFile)
    /\ tuner = [p \in Tuners |-> tuner[p]] /\ plans = [p \in Tuners |-> plans[p]]
    /\ \A p \in Tuners : SafeTuner(p) /\ SafePlan(p)

\* A kernel that can run, and is not known to be wrong, is a safe choice.
LEMMA CanRunIsSafe ==
    ASSUME TuningIInv, NEW p \in Tuners, NEW k \in Kernels, CanRun(p, k), measured[k].error # "beyond"
    PROVE  SafeChoice(p, k) /\ SafeKnown(Known(k))
<1>1. measured[k] \in Measure /\ k # "scalar"
  BY TuningAssumption DEF TuningIInv
<1>2. measured[k].quick = TRUE
  BY <1>1 DEF CanRun, Measure
<1> QED
  BY <1>1, <1>2 DEF CanRun, SafeChoice, SafeKnown, Known

LEMMA ScalarIsSafe == SafeKnown(Known("scalar"))
BY DEF SafeKnown, Known

LEMMA AutotuneIsSafe ==
    ASSUME TuningIInv, NEW p \in Tuners, NEW timing \in Timings
    PROVE  \/ Autotune(p, timing) = "scalar"
           \/ /\ Autotune(p, timing) \in Kernels /\ CanRun(p, Autotune(p, timing))
              /\ measured[Autotune(p, timing)].error # "beyond"
<1> DEFINE UpTo(i) == {j \in 1..i : CanRun(p, KernelOrder[j])}
           some == {KernelOrder[i] : i \in {j \in DOMAIN KernelOrder :
                     CanRun(p, KernelOrder[j]) /\ Cardinality(UpTo(j)) <= MaxCandidates}}
           base == timing["scalar"]
           promoted == {k \in some : /\ timing[k].p50 > 0 /\ timing[k].correct
                                     /\ measured[k].error # "beyond"
                                     /\ timing[k].p50 < base.p50
                                     /\ timing[k].p95 <= base.p95}
           best == {k \in promoted : \A j \in promoted : timing[k].p50 <= timing[j].p50}
           Places == {i \in DOMAIN KernelOrder : KernelOrder[i] \in best}
<1>1. Autotune(p, timing) = IF base.p50 = 0 \/ ~ base.correct \/ promoted = {} THEN "scalar"
                            ELSE KernelOrder[Min(Places)]
  BY DEF Autotune
<1>2. \A k \in best : k \in Kernels /\ CanRun(p, k) /\ measured[k].error # "beyond"
  BY DEF Kernels
<1> HIDE DEF best
<1>3. ASSUME Places # {} PROVE KernelOrder[Min(Places)] \in best
  <2>1. Places \subseteq Nat
    BY TuningAssumption
  <2>2. \E x \in Places : \A y \in Places : x <= y
    BY <1>3, <2>1, LeastNat
  <2>3. Min(Places) \in Places
    <3> HIDE DEF Places
    <3> QED
      BY <2>2 DEF Min
  <2> QED
    BY <2>3
<1>4. ASSUME promoted # {} PROVE Places # {}
  <2>1. some \subseteq Kernels /\ promoted \subseteq some
    BY DEF Kernels
  <2>2. \A k \in Kernels : timing[k].p50 \in Nat
    BY TuningAssumption DEF Observation
  <2> HIDE DEF some, promoted
  <2> DEFINE T == {timing[k].p50 : k \in promoted}
  <2>3. T \subseteq Nat /\ T # {}
    BY <1>4, <2>1, <2>2
  <2>4. PICK n \in T : \A m \in T : n <= m
    BY <2>3, LeastNat
  <2>5. PICK k \in promoted : timing[k].p50 = n
    BY <2>4
  <2>6. k \in best
    BY <2>4, <2>5 DEF best
  <2> QED
    BY <2>1, <2>6 DEF Kernels
<1> QED
  BY <1>1, <1>2, <1>3, <1>4

LEMMA FromCacheIsSafe ==
    ASSUME TuningIInv, NEW p \in Tuners, NEW mode, NEW given
    PROVE  LET k == FromCache(p, mode, given)
           IN  k = NoKernel \/ (k \in Kernels /\ CanRun(p, k) /\ measured[k].error # "beyond")
BY DEF FromCache, Supported

LEMMA FastestIsSafe ==
    ASSUME TuningIInv, NEW p \in Tuners, NEW k \in Fastest(p)
    PROVE  k = "scalar" \/ (k \in Kernels /\ CanRun(p, k) /\ measured[k].error # "beyond")
BY DEF Fastest, Supported

\* A plan, or the state of a process, that changes to something safe.
LEMMA UseIInv ==
    ASSUME TuningIInv, NEW p \in Tuners, NEW k,
           k = "scalar" \/ (k \in Kernels /\ CanRun(p, k) /\ measured[k].error # "beyond"),
           Use(p, k), UNCHANGED <<measured, tuningFile, tuner>>
    PROVE  TuningIInv'
<1>1. SafeKnown(Known(k)) /\ (k # "scalar" => SafeChoice(p, k))
  BY ScalarIsSafe, CanRunIsSafe
<1>2. plans' = [plans EXCEPT ![p] = [kernel |-> k, known |-> Known(k)]]
  BY DEF Use
<1>3. plans = [q \in Tuners |-> plans[q]]
  BY DEF TuningIInv
<1>4. /\ plans' = [q \in Tuners |-> plans'[q]]
      /\ plans'[p].kernel = k /\ plans'[p].known = Known(k)
      /\ \A q \in Tuners : q # p => plans'[q] = plans[q]
  BY <1>2, <1>3
<1>5. \A q \in Tuners : SafePlan(q)'
  <2> TAKE q \in Tuners
  <2>1. CASE q = p
    BY <1>1, <1>4, <2>1 DEF SafePlan, SafeChoice, SafeKnown
  <2>2. CASE q # p
    BY <1>4, <2>2 DEF TuningIInv, SafePlan, SafeChoice, SafeKnown
  <2> QED
    BY <2>1, <2>2
<1>6. \A q \in Tuners : SafeTuner(q)'
  BY DEF TuningIInv, SafeTuner, SafeChoice, SafeKnown
<1> QED
  BY <1>4, <1>5, <1>6 DEF TuningIInv

LEMMA TunerIInv ==
    ASSUME TuningIInv, NEW p \in Tuners, NEW state, tuner' = [tuner EXCEPT ![p] = state],
           /\ state.at \in {"free", "store", "replace"}
           /\ state.at \in {"store", "replace"} => SafeChoice(p, state.kernel) /\ SafeKnown(state.known)
           /\ state.at = "replace" => SafeEntries(state.entries),
           UNCHANGED <<measured, tuningFile, plans>>
    PROVE  TuningIInv'
<1>1. tuner = [q \in Tuners |-> tuner[q]]
  BY DEF TuningIInv
<1>2. /\ tuner' = [q \in Tuners |-> tuner'[q]] /\ tuner'[p] = state
      /\ \A q \in Tuners : q # p => tuner'[q] = tuner[q]
  BY <1>1
<1>3. \A q \in Tuners : SafeTuner(q)'
  <2> TAKE q \in Tuners
  <2>1. CASE q = p
    BY <1>2, <2>1 DEF SafeTuner
  <2>2. CASE q # p
    BY <1>2, <2>2 DEF TuningIInv, SafeTuner
  <2> QED
    BY <2>1, <2>2
<1>4. \A q \in Tuners : SafePlan(q)'
  BY DEF TuningIInv, SafePlan
<1> QED
  BY <1>2, <1>3, <1>4 DEF TuningIInv

LEMMA PromoteIInv ==
    ASSUME TuningIInv, NEW p \in Tuners, NEW k,
           k = "scalar" \/ (k \in Kernels /\ CanRun(p, k) /\ measured[k].error # "beyond"),
           Promote(p, k), UNCHANGED <<measured, tuningFile>>
    PROVE  TuningIInv'
<1>1. CASE k = "scalar"
  BY <1>1, UseIInv DEF Promote
<1>2. CASE k # "scalar"
  <2> DEFINE state == [at |-> "store", kernel |-> k, known |-> Known(k)]
  <2>1. tuner' = [tuner EXCEPT ![p] = state] /\ UNCHANGED plans
    BY <1>2 DEF Promote
  <2>2. SafeChoice(p, k) /\ SafeKnown(Known(k))
    BY <1>2, CanRunIsSafe
  <2>3. state.at = "store" /\ state.kernel = k /\ state.known = Known(k)
    OBVIOUS
  <2> HIDE DEF state
  <2> QED
    BY <2>1, <2>2, <2>3, TunerIInv
<1> QED
  BY <1>1, <1>2

LEMMA SelectKernelIInv ==
    ASSUME TuningIInv, NEW p \in Tuners, NEW mode, NEW given, NEW timing \in Timings \cup {NoKernel},
           SelectKernel(p, mode, given, timing)
    PROVE  TuningIInv'
<1> DEFINE cached == FromCache(p, mode, given)
<1>1. cached = NoKernel \/ (cached \in Kernels /\ CanRun(p, cached) /\ measured[cached].error # "beyond")
  BY FromCacheIsSafe
<1> HIDE DEF cached
<1>2. /\ UNCHANGED <<measured, tuningFile>>
      /\ \/ Use(p, "scalar") /\ UNCHANGED tuner
         \/ cached # NoKernel /\ Use(p, cached) /\ UNCHANGED tuner
         \/ timing # NoKernel /\ Promote(p, Autotune(p, timing))
         \/ \E k \in Fastest(p) : Promote(p, k)
  BY DEF SelectKernel, cached
<1>3. CASE Use(p, "scalar") /\ UNCHANGED tuner
  BY <1>2, <1>3, UseIInv
<1>4. CASE cached # NoKernel /\ Use(p, cached) /\ UNCHANGED tuner
  BY <1>1, <1>2, <1>4, UseIInv
<1>5. CASE timing # NoKernel /\ Promote(p, Autotune(p, timing))
  BY <1>2, <1>5, AutotuneIsSafe, PromoteIInv
<1>6. CASE \E k \in Fastest(p) : Promote(p, k)
  BY <1>2, <1>6, FastestIsSafe, PromoteIInv
<1> QED
  BY <1>2, <1>3, <1>4, <1>5, <1>6

LEMMA ReadDocumentIInv ==
    ASSUME TuningIInv, NEW p \in Tuners, ReadDocument(p)
    PROVE  TuningIInv'
<1> DEFINE doc == IF tuningFile = NoCacheFile THEN <<>> ELSE tuningFile
           state == [at |-> "replace", kernel |-> tuner[p].kernel, known |-> tuner[p].known,
                     entries |-> doc]
<1>1. /\ tuner[p].at = "store" /\ tuner' = [tuner EXCEPT ![p] = state]
      /\ UNCHANGED <<measured, tuningFile, plans>>
  BY DEF ReadDocument
<1>2. SafeEntries(doc)
  BY DEF TuningIInv, SafeEntries
<1>3. SafeChoice(p, tuner[p].kernel) /\ SafeKnown(tuner[p].known)
  BY <1>1 DEF TuningIInv, SafeTuner
<1> HIDE DEF doc
<1>4. /\ state.at = "replace" /\ state.kernel = tuner[p].kernel /\ state.known = tuner[p].known
      /\ state.entries = doc
  OBVIOUS
<1> HIDE DEF state
<1> QED
  BY <1>1, <1>2, <1>3, <1>4, TunerIInv

LEMMA ReplaceDocumentIInv ==
    ASSUME TuningIInv, NEW p \in Tuners, ReplaceDocument(p)
    PROVE  TuningIInv'
<1> DEFINE old == tuner[p].entries
           k == tuner[p].kernel
<1>1. /\ tuner[p].at = "replace"
      /\ tuningFile' = [key \in DOMAIN old \cup {Key(p)} |-> IF key = Key(p) THEN k ELSE old[key]]
      /\ plans' = [plans EXCEPT ![p] = [kernel |-> k, known |-> tuner[p].known]]
      /\ tuner' = [tuner EXCEPT ![p] = [at |-> "free"]]
      /\ UNCHANGED measured
  BY DEF ReplaceDocument
<1>2. SafeChoice(p, k) /\ SafeKnown(tuner[p].known) /\ SafeEntries(old)
  BY <1>1 DEF TuningIInv, SafeTuner
<1>3. tuner = [q \in Tuners |-> tuner[q]] /\ plans = [q \in Tuners |-> plans[q]]
  BY DEF TuningIInv
<1>4. /\ tuner' = [q \in Tuners |-> tuner'[q]] /\ tuner'[p].at = "free"
      /\ \A q \in Tuners : q # p => tuner'[q] = tuner[q]
  BY <1>1, <1>3
<1>5. /\ plans' = [q \in Tuners |-> plans'[q]]
      /\ plans'[p].kernel = k /\ plans'[p].known = tuner[p].known
      /\ \A q \in Tuners : q # p => plans'[q] = plans[q]
  BY <1>1, <1>3
<1> HIDE DEF old, k
<1>6. SafeEntries(tuningFile')
  BY <1>1, <1>2 DEF SafeEntries, SafeChoice, Key
<1>7. \A q \in Tuners : SafeTuner(q)'
  BY <1>4 DEF TuningIInv, SafeTuner
<1>8. \A q \in Tuners : SafePlan(q)'
  <2> TAKE q \in Tuners
  <2>1. CASE q = p
    BY <1>2, <1>5, <2>1 DEF SafePlan
  <2>2. CASE q # p
    BY <1>5, <2>2 DEF TuningIInv, SafePlan
  <2> QED
    BY <2>1, <2>2
<1> QED
  BY <1>1, <1>4, <1>5, <1>6, <1>7, <1>8 DEF TuningIInv

LEMMA TuningInvariant == TuningSpec => []TuningIInv
<1>1. TuningInit => TuningIInv
  <2> SUFFICES ASSUME TuningInit PROVE TuningIInv
    OBVIOUS
  <2>1. /\ measured \in [Kernels -> Measure] /\ tuningFile = NoCacheFile
        /\ tuner = [p \in Tuners |-> [at |-> "free"]]
        /\ plans = [p \in Tuners |-> [kernel |-> "scalar", known |-> Known("scalar")]]
    BY TuningAssumption DEF TuningInit
  <2>2. \A p \in Tuners : SafeTuner(p)
    BY <2>1 DEF SafeTuner
  <2>3. \A p \in Tuners : SafePlan(p)
    <3>1. \A p \in Tuners : plans[p].kernel = "scalar" /\ plans[p].known = Known("scalar")
      BY <2>1
    <3> QED
      BY <3>1, ScalarIsSafe DEF SafePlan
  <2> QED
    BY <2>1, <2>2, <2>3 DEF TuningIInv
<1>2. TuningIInv /\ [TuningNext]_tuningVars => TuningIInv'
  <2> SUFFICES ASSUME TuningIInv, [TuningNext]_tuningVars PROVE TuningIInv'
    OBVIOUS
  <2>1. ASSUME NEW p \in Tuners, TunerDies(p) PROVE TuningIInv'
    BY <2>1, TunerIInv DEF TunerDies
  <2>2. ASSUME UNCHANGED <<tuner, plans>>, measured' \in [Kernels -> Measure],
               tuningFile' = tuningFile \/ tuningFile' = NoCacheFile
        PROVE  TuningIInv'
    BY <2>2 DEF TuningIInv, SafeTuner, SafePlan
  <2>3. ASSUME NEW k \in Kernels, NEW m \in Measures, MeasureAgain(k, m) PROVE TuningIInv'
    <3>1. measured' \in [Kernels -> Measure]
      BY <2>3, TuningAssumption DEF MeasureAgain, TuningIInv
    <3> QED
      BY <2>2, <2>3, <3>1 DEF MeasureAgain
  <2>4. ASSUME SpoilFile PROVE TuningIInv'
    BY <2>2, <2>4 DEF SpoilFile, TuningIInv
  <2>5. ASSUME UNCHANGED tuningVars PROVE TuningIInv'
    BY <2>2, <2>5 DEF tuningVars, TuningIInv
  <2> QED
    BY <2>1, <2>3, <2>4, <2>5, SelectKernelIInv, ReadDocumentIInv, ReplaceDocumentIInv DEF TuningNext
<1> QED
  BY <1>1, <1>2, PTL DEF TuningSpec

\* A process never uses a kernel that its host cannot run, or that was known
\* to be slow to start or wrong, and the shared file never sends one to a key
\* that cannot run it (select_kernel, PersistentTuningCache), whatever the
\* processes, hosts, kernels and timings.
THEOREM KernelsStaySafe == TuningSpec => []SelectedKernelsAreSafe
<1>1. TuningIInv => SelectedKernelsAreSafe
  <2> SUFFICES ASSUME TuningIInv PROVE SelectedKernelsAreSafe
    OBVIOUS
  <2>1. ASSUME NEW p \in Tuners
        PROVE  /\ plans[p].known.quick /\ plans[p].known.error # "beyond"
               /\ plans[p].kernel # "scalar" => Requires[plans[p].kernel] \subseteq IsaOf[p]
    BY DEF TuningIInv, SafePlan, SafeKnown, SafeChoice
  <2>2. tuningFile # NoCacheFile =>
            \A key \in DOMAIN tuningFile : Requires[tuningFile[key]] \subseteq key
    BY DEF TuningIInv, SafeEntries
  <2> QED
    BY <2>1, <2>2 DEF SelectedKernelsAreSafe
<1> QED
  BY <1>1, TuningInvariant, PTL

(***************************************************************************)
(* The perplexity runner.                                                  *)
(***************************************************************************)
Result == [id : Variant, status : {"completed", "failed"}, predicted : Seq(Int)]

HarnessType == [at : {"preflight", "score", "write", "raise"}, suite : Suites, done : Nat,
                read : Seq(Seq(Nat)), results : Seq(Result), status : {"completed", "failed"}]

\* The first n variants read the corpus as the same tokens.
SameReading(s, n, read) == \A i \in 1..n : s.tokens[s.variants[i]] = read

\* The first n results are valid scores of it, in the order of the variants.
Scored(s, results, n, read) ==
    /\ Len(results) = n
    /\ \A i \in 1..n :
        /\ results[i].id = s.variants[i] /\ results[i].status = "completed"
        /\ Len(results[i].predicted) = Len(read)
        /\ \A d \in 1..Len(read) : results[i].predicted[d] + 1 = Len(read[d])

AllScored(s, r) ==
    /\ Len(r) = Len(s.variants)
    /\ \A i \in DOMAIN r :
        /\ r[i].id = s.variants[i]
        /\ r[i].status = "completed"
        /\ s.tokens[s.variants[i]] = s.tokens[s.variants[1]]
        /\ Len(r[i].predicted) = Len(s.tokens[s.variants[i]])
        /\ \A d \in DOMAIN r[i].predicted :
             r[i].predicted[d] + 1 = Len(s.tokens[s.variants[i]][d])

\* What the runner knows at each point of its two loops.
Progress(h) ==
    /\ h.at \in {"preflight", "score"} =>
        /\ h.suite.variants \in Seq(Variant) /\ h.done < Len(h.suite.variants) /\ h.status = "failed"
    /\ h.at = "preflight" =>
        /\ h.results = <<>>
        /\ IF h.done = 0 THEN h.read = <<>>
           ELSE h.read # <<>> /\ SameReading(h.suite, h.done, h.read)
    /\ h.at = "score" =>
        /\ SameReading(h.suite, Len(h.suite.variants), h.read)
        /\ Scored(h.suite, h.results, h.done, h.read)
    /\ h.at = "write" /\ h.status = "completed" => AllScored(h.suite, h.results)

PplIInv ==
    /\ harness = Rest \/ (harness \in HarnessType /\ Progress(harness))
    /\ receiptFile # NoReceipt /\ receiptFile.status = "completed" =>
           AllScored(receiptFile.suite, receiptFile.results)

LEMMA SuiteType ==
    ASSUME NEW s \in Suites
    PROVE  /\ s.variants \in Seq(Variant) /\ Len(s.variants) \in Nat
           /\ \A i \in 1..Len(s.variants) : s.variants[i] \in Variant
           /\ \A v \in Variant : s.tokens[v] \in Seq(Seq(Nat)) /\ s.tokens[v] # <<>>
<1>1. WellFormed(s)
  BY PplAssumption
<1>2. s.variants \in Seq(Variant) /\ s.tokens \in [Variant -> Seq(Seq(Nat)) \ {<<>>}]
  BY <1>1 DEF WellFormed
<1>3. Len(s.variants) \in Nat /\ \A i \in 1..Len(s.variants) : s.variants[i] \in Variant
  BY <1>2
<1>4. ASSUME NEW v \in Variant
      PROVE  s.tokens[v] \in Seq(Seq(Nat)) /\ s.tokens[v] # <<>>
  <2>1. s.tokens[v] \in Seq(Seq(Nat)) \ {<<>>}
    BY <1>2
  <2> QED
    BY <2>1
<1> QED
  BY <1>2, <1>3, <1>4

LEMMA ScoredIsAllScored ==
    ASSUME NEW s \in Suites, NEW results \in Seq(Result), NEW read \in Seq(Seq(Nat)),
           SameReading(s, Len(s.variants), read), Scored(s, results, Len(s.variants), read)
    PROVE  AllScored(s, results)
<1>1. DOMAIN results = 1..Len(s.variants) /\ Len(s.variants) \in Nat
  BY SuiteType DEF Scored
<1>2. ASSUME NEW i \in DOMAIN results
      PROVE  /\ results[i].id = s.variants[i]
             /\ results[i].status = "completed"
             /\ s.tokens[s.variants[i]] = s.tokens[s.variants[1]]
             /\ Len(results[i].predicted) = Len(s.tokens[s.variants[i]])
             /\ \A d \in DOMAIN results[i].predicted :
                  results[i].predicted[d] + 1 = Len(s.tokens[s.variants[i]][d])
  <2>1. i \in 1..Len(s.variants) /\ 1 \in 1..Len(s.variants)
    BY <1>1, <1>2
  <2>2. s.tokens[s.variants[i]] = read /\ s.tokens[s.variants[1]] = read
    BY <2>1 DEF SameReading
  <2>3. results[i] \in Result
    BY <1>2
  <2>4. DOMAIN results[i].predicted = 1..Len(results[i].predicted)
    BY <2>3 DEF Result
  <2> QED
    BY <2>1, <2>2, <2>4 DEF Scored
<1> QED
  BY <1>1, <1>2 DEF AllScored, Scored

\* A completed score has one valid row for every document.
LEMMA ScoreIsResult ==
    ASSUME NEW v \in Variant, NEW exit, NEW lines, NEW tokens \in Seq(Seq(Nat))
    PROVE  /\ Score(v, exit, lines, tokens) \in Result
           /\ Score(v, exit, lines, tokens).id = v
           /\ Score(v, exit, lines, tokens).status = "completed" =>
                /\ Len(Score(v, exit, lines, tokens).predicted) = Len(tokens)
                /\ \A d \in 1..Len(tokens) :
                     Score(v, exit, lines, tokens).predicted[d] + 1 = Len(tokens[d])
<1> DEFINE scores == SelectSeq(lines, IsScore)
           n == Len(tokens)
<1>1. CASE exit = 0 /\ ScoresOk(lines, Lengths(tokens))
  <2>1. /\ n \in Nat /\ DOMAIN tokens = 1..n
        /\ \A d \in 1..n : tokens[d] \in Seq(Nat) /\ Len(tokens[d]) \in Nat
    OBVIOUS
  <2> DEFINE lengths == Lengths(tokens)
  <2>2. /\ Len(lengths) = n /\ \A d \in 1..n : lengths[d] = Len(tokens[d]) - 1
    BY <2>1 DEF Lengths
  <2> HIDE DEF lengths
  <2>3. Len(scores) = n /\ \A d \in 1..Len(scores) : scores[d].tokens = lengths[d]
    BY <1>1, <2>2 DEF ScoresOk, lengths
  <2> HIDE DEF scores
  <2> DEFINE predicted == [d \in 1..Len(scores) |-> scores[d].tokens]
  <2>4. /\ predicted \in Seq(Int) /\ Len(predicted) = n
        /\ \A d \in 1..n : predicted[d] + 1 = Len(tokens[d])
    <3>1. /\ predicted = [d \in 1..n |-> Len(tokens[d]) - 1]
      BY <2>1, <2>2, <2>3
    <3> HIDE DEF predicted
    <3> QED
      BY <2>1, <3>1
  <2>5. Score(v, exit, lines, tokens) = [id |-> v, status |-> "completed", predicted |-> predicted]
    BY <1>1 DEF Score, scores
  <2> HIDE DEF predicted
  <2> QED
    BY <2>4, <2>5 DEF Result
<1>2. CASE ~ (exit = 0 /\ ScoresOk(lines, Lengths(tokens)))
  <2>1. Score(v, exit, lines, tokens) = [id |-> v, status |-> "failed", predicted |-> <<>>]
    BY <1>2 DEF Score
  <2>2. <<>> \in Seq(Int)
    OBVIOUS
  <2> QED
    BY <2>1, <2>2 DEF Result
<1> QED
  BY <1>1, <1>2

LEMMA RunManifestIInv ==
    ASSUME PplIInv, NEW s \in Suites, RunManifest(s)
    PROVE  PplIInv'
<1>1. CASE harness' = Rest
  BY <1>1 DEF RunManifest, PplIInv
<1>2. CASE harness' # Rest
  <2> DEFINE at == IF ShapeOk(s) /\ CorpusOk(s) THEN "preflight"
                   ELSE IF ShapeOk(s) /\ s.corpus = "undecodable" THEN "raise"
                   ELSE "write"
  <2>1. harness' = [at |-> at, suite |-> s, done |-> 0, read |-> <<>>, results |-> <<>>,
                    status |-> "failed"]
    BY <1>2 DEF RunManifest
  <2>2. at \in {"preflight", "raise", "write"} /\ (at = "preflight" => s.variants # <<>>)
    BY DEF ShapeOk
  <2>3. s.variants \in Seq(Variant) /\ (s.variants # <<>> => 0 < Len(s.variants))
    BY SuiteType
  <2> HIDE DEF at
  <2>4. /\ <<>> \in Seq(Seq(Nat)) /\ <<>> \in Seq(Result)
    OBVIOUS
  <2>5. harness' \in HarnessType
    BY <2>1, <2>2, <2>4 DEF HarnessType
  <2>6. Progress(harness')
    BY <2>1, <2>2, <2>3 DEF Progress
  <2> QED
    BY <2>5, <2>6 DEF RunManifest, PplIInv
<1> QED
  BY <1>1, <1>2

LEMMA PreflightVariantIInv ==
    ASSUME PplIInv, PreflightVariant
    PROVE  PplIInv'
<1> DEFINE s == harness.suite
           v == ThisVariant
           n == harness.done + 1
<1>1. harness.at = "preflight" /\ UNCHANGED receiptFile
  BY DEF PreflightVariant
<1>2. harness \in HarnessType /\ Progress(harness)
  BY <1>1 DEF PplIInv, Rest
<1>3. /\ s \in Suites /\ harness.done \in Nat /\ harness.done < Len(s.variants)
      /\ harness.status = "failed" /\ harness.results = <<>>
      /\ harness.done = 0 => harness.read = <<>>
      /\ harness.done # 0 => harness.read # <<>> /\ SameReading(s, harness.done, harness.read)
  BY <1>1, <1>2 DEF HarnessType, Progress
<1>4. /\ v = s.variants[n] /\ v \in Variant /\ n \in 1..Len(s.variants)
      /\ s.tokens[v] \in Seq(Seq(Nat)) /\ s.tokens[v] # <<>>
  BY <1>3, SuiteType DEF ThisVariant, Ids
<1>5. CASE ~ VariantOk(s, v, harness.read)
  <2>1. harness' = [harness EXCEPT !.at = "write"]
    BY <1>5 DEF PreflightVariant
  <2>2. harness' \in HarnessType /\ harness'.at = "write" /\ harness'.status = "failed"
    BY <1>2, <1>3, <2>1 DEF HarnessType
  <2>3. Progress(harness')
    BY <2>2 DEF Progress
  <2> QED
    BY <1>1, <2>2, <2>3 DEF PplIInv
<1>6. CASE VariantOk(s, v, harness.read)
  <2> DEFINE last == n = Len(s.variants)
             at == IF last THEN "score" ELSE "preflight"
             done == IF last THEN 0 ELSE n
  <2>1. harness' = [harness EXCEPT !.at = at, !.done = done, !.read = s.tokens[v]]
    BY <1>6 DEF PreflightVariant, Ids
  <2>2. SameReading(s, n, s.tokens[v])
    <3>1. harness.done # 0 => s.tokens[v] = harness.read
      BY <1>3, <1>6 DEF VariantOk
    <3>2. ASSUME NEW i \in 1..n PROVE s.tokens[s.variants[i]] = s.tokens[v]
      <4>1. CASE i = n
        BY <1>4, <4>1
      <4>2. CASE i # n
        <5>1. i \in 1..harness.done /\ harness.done # 0
          BY <1>3, <3>2, <4>2
        <5> QED
          BY <1>3, <3>1, <5>1 DEF SameReading
      <4> QED
        BY <4>1, <4>2
    <3> QED
      BY <3>2 DEF SameReading
  <2>3. at \in {"score", "preflight"} /\ done \in Nat
    BY <1>3
  <2>4. /\ at = "preflight" => done = n /\ n # 0 /\ n < Len(s.variants)
        /\ at = "score" => n = Len(s.variants) /\ done = 0 /\ done < Len(s.variants)
    BY <1>3, <1>4, SuiteType
  <2> HIDE DEF at, done
  <2>5. harness' = [at |-> at, suite |-> s, done |-> done, read |-> s.tokens[v],
                    results |-> <<>>, status |-> "failed"]
    BY <1>2, <1>3, <2>1 DEF HarnessType
  <2>6. harness' \in HarnessType
    BY <1>3, <1>4, <2>3, <2>5 DEF HarnessType
  <2>7. s.variants \in Seq(Variant)
    BY <1>3, SuiteType
  <2>8. Scored(s, <<>>, 0, s.tokens[v])
    BY DEF Scored
  <2> HIDE DEF s, v, n
  <2>9. Progress(harness')
    BY <1>4, <2>2, <2>3, <2>4, <2>5, <2>7, <2>8 DEF Progress
  <2> QED
    BY <1>1, <2>6, <2>9 DEF PplIInv
<1> QED
  BY <1>5, <1>6

LEMMA ExecuteVariantIInv ==
    ASSUME PplIInv, NEW exit, NEW lines, ExecuteVariant(exit, lines)
    PROVE  PplIInv'
<1> DEFINE s == harness.suite
           v == ThisVariant
           n == harness.done + 1
           r == Score(v, exit, lines, harness.read)
           results == Append(harness.results, r)
           last == n = Len(s.variants)
           at == IF r.status # "completed" \/ last THEN "write" ELSE "score"
           status == IF r.status = "completed" /\ last THEN "completed" ELSE "failed"
<1>1. harness.at = "score" /\ UNCHANGED receiptFile
  BY DEF ExecuteVariant
<1>2. harness \in HarnessType /\ Progress(harness)
  BY <1>1 DEF PplIInv, Rest
<1>3. /\ s \in Suites /\ harness.done \in Nat /\ harness.done < Len(s.variants)
      /\ harness.status = "failed" /\ harness.read \in Seq(Seq(Nat))
      /\ harness.results \in Seq(Result)
      /\ SameReading(s, Len(s.variants), harness.read)
      /\ Scored(s, harness.results, harness.done, harness.read)
  BY <1>1, <1>2 DEF HarnessType, Progress
<1>4. v = s.variants[n] /\ v \in Variant /\ n \in 1..Len(s.variants)
  BY <1>3, SuiteType DEF ThisVariant, Ids
<1>5. /\ r \in Result /\ r.id = v
      /\ r.status = "completed" => /\ Len(r.predicted) = Len(harness.read)
                                   /\ \A d \in 1..Len(harness.read) :
                                        r.predicted[d] + 1 = Len(harness.read[d])
  <2>1. v \in Variant /\ harness.read \in Seq(Seq(Nat))
    BY <1>3, <1>4
  <2> HIDE DEF v
  <2> QED
    BY ONLY <2>1, ScoreIsResult
<1>6. \/ harness' = [harness EXCEPT !.at = "raise"]
      \/ harness' = [harness EXCEPT !.results = results, !.done = n, !.at = at, !.status = status]
  BY DEF ExecuteVariant, Ids
<1>7. CASE harness' = [harness EXCEPT !.at = "raise"]
  <2>1. harness' \in HarnessType /\ harness'.at = "raise"
    BY <1>2, <1>7 DEF HarnessType
  <2> QED
    BY <1>1, <2>1 DEF PplIInv, Progress
<1>8. CASE harness' = [harness EXCEPT !.results = results, !.done = n, !.at = at, !.status = status]
  <2> HIDE DEF r
  <2>1. /\ results \in Seq(Result) /\ Len(results) = n /\ results[n] = r
        /\ \A i \in 1..harness.done : results[i] = harness.results[i]
    BY <1>3, <1>5 DEF Scored
  <2>2. r.status = "completed" => Scored(s, results, n, harness.read)
    <3> SUFFICES ASSUME r.status = "completed", NEW i \in 1..n
                 PROVE  /\ results[i].id = s.variants[i] /\ results[i].status = "completed"
                        /\ Len(results[i].predicted) = Len(harness.read)
                        /\ \A d \in 1..Len(harness.read) :
                             results[i].predicted[d] + 1 = Len(harness.read[d])
      BY <2>1 DEF Scored
    <3>1. CASE i = n
      BY <1>4, <1>5, <2>1, <3>1
    <3>2. CASE i # n
      <4>1. i \in 1..harness.done
        BY <1>3, <3>2
      <4> QED
        BY <1>3, <2>1, <4>1 DEF Scored
    <3> QED
      BY <3>1, <3>2
  <2>3. /\ at \in {"write", "score"} /\ status \in {"completed", "failed"}
        /\ status = "completed" => r.status = "completed" /\ n = Len(s.variants) /\ at = "write"
        /\ at = "score" => r.status = "completed" /\ n < Len(s.variants) /\ status = "failed"
    BY <1>3, <1>4, SuiteType
  <2> HIDE DEF at, status, results
  <2>4. harness' = [at |-> at, suite |-> s, done |-> n, read |-> harness.read,
                    results |-> results, status |-> status]
    BY <1>2, <1>8 DEF HarnessType
  <2>5. n \in Nat /\ s.variants \in Seq(Variant)
    BY <1>3, SuiteType
  <2>6. harness' \in HarnessType
    BY <1>3, <2>1, <2>3, <2>4, <2>5 DEF HarnessType
  <2>7. status = "completed" => AllScored(s, results)
    BY <1>3, <2>1, <2>2, <2>3, ScoredIsAllScored
  <2> HIDE DEF s, v, n
  <2>8. Progress(harness')
    BY <1>3, <2>2, <2>3, <2>4, <2>5, <2>7 DEF Progress
  <2> QED
    BY <1>1, <2>6, <2>8 DEF PplIInv
<1> QED
  BY <1>6, <1>7, <1>8

LEMMA PplInvariant == PplSpec => []PplIInv
<1>1. PplInit => PplIInv
  BY DEF PplInit, PplIInv
<1>2. PplIInv /\ [PplNext]_pplVars => PplIInv'
  <2> SUFFICES ASSUME PplIInv, [PplNext]_pplVars PROVE PplIInv'
    OBVIOUS
  <2>1. ASSUME CannotExecute PROVE PplIInv'
    <3>1. harness \in HarnessType /\ harness.at = "score" /\ harness.status = "failed"
      BY <2>1 DEF CannotExecute, PplIInv, Rest, Progress
    <3>2. harness' \in HarnessType /\ harness'.at = "write" /\ harness'.status = "failed"
      BY <2>1, <3>1 DEF CannotExecute, HarnessType
    <3> QED
      BY <2>1, <3>2 DEF CannotExecute, PplIInv, Progress
  <2>2. ASSUME WriteReceiptFile PROVE PplIInv'
    <3>1. harness.at = "write" /\ Progress(harness)
      BY <2>2 DEF WriteReceiptFile, PplIInv, Rest
    <3>2. /\ receiptFile'.suite = harness.suite /\ receiptFile'.status = harness.status
          /\ receiptFile'.results = harness.results
      BY <2>2 DEF WriteReceiptFile
    <3> QED
      BY <2>2, <3>1, <3>2 DEF WriteReceiptFile, PplIInv, Progress
  <2>3. ASSUME LeaveNoReceipt PROVE PplIInv'
    BY <2>3 DEF LeaveNoReceipt, PplIInv
  <2>4. ASSUME UNCHANGED pplVars PROVE PplIInv'
    BY <2>4 DEF pplVars, PplIInv
  <2> QED
    BY <2>1, <2>2, <2>3, <2>4, RunManifestIInv, PreflightVariantIInv, ExecuteVariantIInv DEF PplNext
<1> QED
  BY <1>1, <1>2, PTL DEF PplSpec

\* A receipt that says completed has a valid score of every document by every
\* variant of its manifest, in order, and all of them read the same tokens
\* (run_manifest, preflight, parse_score_output), for any manifests, corpora
\* and engine outputs.
THEOREM CompletedReceiptsAreComplete == PplSpec => []CompletedMeansAllScored
<1>1. PplIInv => CompletedMeansAllScored
  BY DEF PplIInv, CompletedMeansAllScored, AllScored
<1> QED
  BY <1>1, PplInvariant, PTL

(***************************************************************************)
(* The benchmark harness.                                                  *)
(***************************************************************************)
\* A name leads to another in one expansion, or stays because it is unknown.
ExpandsTo(n, x, v) == IF n \in DOMAIN v THEN x \in v[n] ELSE x = n

LEMMA ExpandIs ==
    ASSUME NEW T, NEW v, NEW x
    PROVE  x \in Expand(T, v) <=> \E n \in T : ExpandsTo(n, x, v)
BY DEF Expand, ExpandsTo

LEMMA RoundExpandsTwice ==
    ASSUME NEW v
    PROVE  \A T : Expand(T, Round(v)) = Expand(Expand(T, v), v)
<1> SUFFICES ASSUME NEW T PROVE Expand(T, Round(v)) = Expand(Expand(T, v), v)
  OBVIOUS
<1>1. DOMAIN Round(v) = DOMAIN v /\ \A n \in DOMAIN v : Round(v)[n] = Expand(v[n], v)
  BY DEF Round
<1>2. ASSUME NEW x \in Expand(T, Round(v)) PROVE x \in Expand(Expand(T, v), v)
  <2>1. PICK n \in T : ExpandsTo(n, x, Round(v))
    BY ExpandIs
  <2>2. CASE n \in DOMAIN v
    <3>1. PICK y \in v[n] : ExpandsTo(y, x, v)
      BY <1>1, <2>1, <2>2, ExpandIs DEF ExpandsTo
    <3>2. y \in Expand(T, v)
      BY <2>2, ExpandIs DEF ExpandsTo
    <3> QED
      BY <3>1, <3>2, ExpandIs
  <2>3. CASE n \notin DOMAIN v
    <3>1. x = n
      BY <1>1, <2>1, <2>3 DEF ExpandsTo
    <3>2. n \in Expand(T, v)
      BY <2>3, ExpandIs DEF ExpandsTo
    <3> QED
      BY <2>3, <3>1, <3>2, ExpandIs DEF ExpandsTo
  <2> QED
    BY <2>2, <2>3
<1>3. ASSUME NEW x \in Expand(Expand(T, v), v) PROVE x \in Expand(T, Round(v))
  <2>1. PICK y \in Expand(T, v) : ExpandsTo(y, x, v)
    BY ExpandIs
  <2>2. PICK n \in T : ExpandsTo(n, y, v)
    BY ExpandIs
  <2>3. ExpandsTo(n, x, Round(v))
    <3>1. CASE n \in DOMAIN v
      <4>1. x \in Expand(v[n], v)
        BY <2>1, <2>2, <3>1, ExpandIs DEF ExpandsTo
      <4> QED
        BY <1>1, <3>1, <4>1 DEF ExpandsTo
    <3>2. CASE n \notin DOMAIN v
      BY <1>1, <2>1, <2>2, <3>2 DEF ExpandsTo
    <3> QED
      BY <3>1, <3>2
  <2> QED
    BY <2>3, ExpandIs
<1> QED
  BY <1>2, <1>3

-----------------------------------------------------------------------------
\* A text and its first eight expansions.
Expansions(T, v) ==
    LET e1 == Expand(T, v)
        e2 == Expand(e1, v)
        e3 == Expand(e2, v)
        e4 == Expand(e3, v)
        e5 == Expand(e4, v)
        e6 == Expand(e5, v)
        e7 == Expand(e6, v)
    IN  <<T, e1, e2, e3, e4, e5, e6, e7, Expand(e7, v)>>

\* Three rounds expand a text eight times.
LEMMA ThreeRoundsAreEight ==
    ASSUME NEW T, NEW v
    PROVE  /\ Expansions(T, v)[1] = T
           /\ \A k \in 1..8 : Expansions(T, v)[k + 1] = Expand(Expansions(T, v)[k], v)
           /\ Expansions(T, v)[9] = Expand(T, Round(Round(Round(v))))
<1> DEFINE F(X) == Expand(X, v)
<1>1. /\ Expansions(T, v)[1] = T /\ Expansions(T, v)[2] = F(T)
      /\ Expansions(T, v)[3] = F(F(T)) /\ Expansions(T, v)[4] = F(F(F(T)))
      /\ Expansions(T, v)[5] = F(F(F(F(T)))) /\ Expansions(T, v)[6] = F(F(F(F(F(T)))))
      /\ Expansions(T, v)[7] = F(F(F(F(F(F(T)))))) /\ Expansions(T, v)[8] = F(F(F(F(F(F(F(T)))))))
      /\ Expansions(T, v)[9] = F(F(F(F(F(F(F(F(T))))))))
  <2> HIDE DEF F
  <2>1. Expansions(T, v) = <<T, F(T), F(F(T)), F(F(F(T))), F(F(F(F(T)))), F(F(F(F(F(T))))),
                             F(F(F(F(F(F(T)))))), F(F(F(F(F(F(F(T))))))), F(F(F(F(F(F(F(F(T))))))))>>
    BY DEF Expansions, F
  <2> QED
    BY <2>1
<1>2. \A X : Expand(X, Round(v)) = F(F(X))
  BY RoundExpandsTwice
<1>3. \A X : Expand(X, Round(Round(v))) = Expand(Expand(X, Round(v)), Round(v))
  BY RoundExpandsTwice
<1>4. \A X : Expand(X, Round(Round(Round(v)))) =
               Expand(Expand(X, Round(Round(v))), Round(Round(v)))
  BY RoundExpandsTwice
<1>5. \A X : Expand(X, Round(Round(Round(v)))) = F(F(F(F(F(F(F(F(X))))))))
  <2> HIDE DEF F
  <2>1. \A X : Expand(X, Round(Round(v))) = F(F(F(F(X))))
    BY <1>2, <1>3
  <2> QED
    BY <1>4, <2>1
<1>6. ASSUME NEW k \in 1..8 PROVE Expansions(T, v)[k + 1] = Expand(Expansions(T, v)[k], v)
  <2> DEFINE E == Expansions(T, v)
  <2>1. /\ E[2] = F(E[1]) /\ E[3] = F(E[2]) /\ E[4] = F(E[3]) /\ E[5] = F(E[4]) /\ E[6] = F(E[5])
        /\ E[7] = F(E[6]) /\ E[8] = F(E[7]) /\ E[9] = F(E[8])
    BY <1>1
  <2> HIDE DEF E, F
  <2>2. k \in {1, 2, 3, 4, 5, 6, 7, 8}
    OBVIOUS
  <2>3. E[k + 1] = F(E[k])
    BY <2>1, <2>2
  <2> QED
    BY <2>3 DEF E, F
<1> QED
  BY <1>1, <1>5, <1>6

-----------------------------------------------------------------------------
LEMMA NamesHold ==
    ASSUME NEW T, NEW vars
    PROVE  /\ T \subseteq Names(T, vars)
           /\ \A n \in Names(T, vars) \cap DOMAIN vars : vars[n] \subseteq Names(T, vars)
<1> DEFINE universe == T \cup UNION Range(vars)
           Closed(C) == T \subseteq C /\ \A n \in C \cap DOMAIN vars : vars[n] \subseteq C
<1>1. Names(T, vars) = {n \in universe : \A C \in SUBSET universe : Closed(C) => n \in C}
  BY DEF Names
<1>2. \A n \in DOMAIN vars : vars[n] \subseteq universe
  BY DEF Range
<1> HIDE DEF universe
<1>3. T \subseteq universe
  BY DEF universe
<1>4. ASSUME NEW n \in Names(T, vars) \cap DOMAIN vars, NEW x \in vars[n] PROVE x \in Names(T, vars)
  <2>1. x \in universe
    BY <1>2
  <2>2. \A C \in SUBSET universe : Closed(C) => x \in C
    BY <1>1
  <2> QED
    BY <1>1, <2>1, <2>2
<1> QED
  BY <1>1, <1>3, <1>4

LEMMA NamesAreLeast ==
    ASSUME NEW T, NEW vars, NEW C,
           T \subseteq C, \A n \in C \cap DOMAIN vars : vars[n] \subseteq C
    PROVE  Names(T, vars) \subseteq C
<1> DEFINE universe == T \cup UNION Range(vars)
           D == C \cap universe
<1>1. \A n \in DOMAIN vars : vars[n] \subseteq universe
  BY DEF Range
<1>2. T \subseteq D /\ D \in SUBSET universe
  OBVIOUS
<1>3. \A n \in D \cap DOMAIN vars : vars[n] \subseteq D
  BY <1>1
<1>4. Names(T, vars) \subseteq D
  <2>1. Names(T, vars) = {n \in universe : \A X \in SUBSET universe :
            (T \subseteq X /\ \A m \in X \cap DOMAIN vars : vars[m] \subseteq X) => n \in X}
    BY DEF Names
  <2> HIDE DEF D, universe
  <2> QED
    BY <1>2, <1>3, <2>1
<1> QED
  BY <1>4

\* The values that expansion begins with.
FirstValues(t) == [n \in Builtins \cup DOMAIN t.variables |->
                     IF n \in DOMAIN t.variables THEN t.variables[n] ELSE {}]

LEMMA MaterializeIs == ASSUME NEW t PROVE Materialize(t) = Round(Round(Round(FirstValues(t))))
BY DEF Materialize, FirstValues

\* The last of the expansions in which a name is left.
LEMMA LastExpansion ==
    ASSUME NEW E, E[9] = {}, NEW n, NEW j \in 1..8, n \in E[j]
    PROVE  \E k \in 1..8 : n \in E[k] /\ \A i \in (k + 1)..9 : n \notin E[i]
<1> DEFINE B == {i \in Nat : i <= 8 /\ n \in E[9 - i]}
<1>1. 9 - j \in B
  <2>1. 9 - j \in Nat /\ 9 - j <= 8 /\ 9 - (9 - j) = j
    OBVIOUS
  <2> QED
    BY <2>1
<1>2. PICK i \in B : \A k \in B : i <= k
  BY <1>1, LeastNat
<1>3. i \in 1..8 /\ n \in E[9 - i]
  <2>1. i \in Nat /\ i <= 8 /\ n \in E[9 - i]
    OBVIOUS
  <2>2. i # 0
    BY <2>1
  <2> QED
    BY <2>1, <2>2
<1>4. ASSUME NEW k \in (9 - i + 1)..9, n \in E[k] PROVE FALSE
  <2>1. 9 - k \in Nat /\ 9 - k <= 8 /\ 9 - (9 - k) = k /\ ~ (i <= 9 - k)
    BY <1>3
  <2>2. 9 - k \in B
    BY <1>4, <2>1
  <2> HIDE DEF B
  <2> QED
    BY <1>2, <2>1, <2>2
<1>5. 9 - i \in 1..8
  BY <1>3
<1> QED
  BY <1>3, <1>4, <1>5

LEMMA FirstValuesAre ==
    ASSUME NEW t, NEW n
    PROVE  /\ DOMAIN FirstValues(t) = Builtins \cup DOMAIN t.variables
           /\ n \in DOMAIN t.variables => FirstValues(t)[n] = t.variables[n]
           /\ n \in Builtins \ DOMAIN t.variables => FirstValues(t)[n] = {}
BY DEF FirstValues

\* What a text leads to is in one of the expansions that follow it, when the
\* last of them is empty.
LEMMA NamesComeLater ==
    ASSUME NEW t, NEW E, \A k \in 1..8 : E[k + 1] = Expand(E[k], FirstValues(t)), E[9] = {},
           NEW j \in 1..9, NEW X, X \subseteq E[j]
    PROVE  \A n \in Names(X, t.variables) : \E i \in j..8 : n \in E[i]
<1> DEFINE U == UNION {E[i] : i \in j..8}
<1>1. X \subseteq U
  <2>1. CASE j = 9
    BY <2>1
  <2>2. CASE j # 9
    <3>1. j \in j..8
      BY <2>2
    <3> QED
      BY <3>1
  <2> QED
    BY <2>1, <2>2
<1>2. ASSUME NEW n \in U, n \in DOMAIN t.variables, NEW x \in t.variables[n] PROVE x \in U
  <2>1. PICK i \in j..8 : n \in E[i]
    BY <1>2
  <2>2. ExpandsTo(n, x, FirstValues(t))
    BY <1>2, FirstValuesAre DEF ExpandsTo
  <2>3. i \in 1..8 /\ E[i + 1] = Expand(E[i], FirstValues(t))
    OBVIOUS
  <2>4. x \in E[i + 1]
    BY <2>1, <2>2, <2>3, ExpandIs
  <2>5. i + 1 \in j..8
    <3>1. i # 8
      BY <2>4
    <3> QED
      BY <2>3, <3>1
  <2> QED
    BY <2>4, <2>5
<1>3. Names(X, t.variables) \subseteq U
  <2> HIDE DEF U
  <2> QED
    BY <1>1, <1>2, NamesAreLeast
<1> QED
  BY <1>3

\* A text of which nothing is left has nothing unknown and nothing circular.
LEMMA EmptyIsResolvable ==
    ASSUME NEW t, NEW T, Expand(T, Materialize(t)) = {}
    PROVE  Resolvable(T, t)
<1> DEFINE E == Expansions(T, FirstValues(t))
           vars == t.variables
<1>1. E[1] = T /\ E[9] = {} /\ \A k \in 1..8 : E[k + 1] = Expand(E[k], FirstValues(t))
  BY ThreeRoundsAreEight, MaterializeIs
<1> HIDE DEF E
<1> SUFFICES ASSUME NEW n \in Names(T, vars)
             PROVE  /\ n \in Builtins \cup DOMAIN vars
                    /\ n \in DOMAIN vars => n \notin Names(vars[n], vars)
  BY DEF Resolvable
<1>2. PICK j \in 1..8 : n \in E[j]
  <2>1. 1 \in 1..9 /\ T \subseteq E[1]
    BY <1>1
  <2>2. \A m \in Names(T, vars) : \E i \in 1..8 : m \in E[i]
    BY <1>1, <2>1, NamesComeLater
  <2> QED
    BY <2>2
<1>3. PICK k \in 1..8 : n \in E[k] /\ \A i \in (k + 1)..9 : n \notin E[i]
  BY <1>1, <1>2, LastExpansion
<1>4. E[k + 1] = Expand(E[k], FirstValues(t)) /\ k + 1 \in (k + 1)..9 /\ k + 1 \in 1..9
  BY <1>1
<1>5. n \in Builtins \cup DOMAIN vars
  <2>1. SUFFICES ASSUME n \notin Builtins \cup DOMAIN vars PROVE FALSE
    OBVIOUS
  <2>2. ExpandsTo(n, n, FirstValues(t))
    BY <2>1, FirstValuesAre DEF ExpandsTo
  <2>3. n \in E[k + 1]
    BY <1>3, <1>4, <2>2, ExpandIs
  <2> QED
    BY <1>3, <1>4, <2>3
<1>6. ASSUME n \in DOMAIN vars, n \in Names(vars[n], vars) PROVE FALSE
  <2>1. vars[n] \subseteq E[k + 1]
    <3> SUFFICES ASSUME NEW x \in vars[n] PROVE x \in E[k + 1]
      OBVIOUS
    <3>1. ExpandsTo(n, x, FirstValues(t))
      BY <1>6, FirstValuesAre DEF ExpandsTo
    <3> QED
      BY <1>3, <1>4, <3>1, ExpandIs
  <2>2. PICK i \in (k + 1)..8 : n \in E[i]
    BY <1>1, <1>4, <1>6, <2>1, NamesComeLater
  <2> QED
    BY <1>3, <2>2
<1> QED
  BY <1>5, <1>6

\* Along a chain of variables, each is among the names of those before it.
LEMMA ChainLeads ==
    ASSUME NEW vars, NEW p, NEW i \in 1..8,
           \A k \in 1..7 : p[k] \in DOMAIN vars /\ p[k + 1] \in vars[p[k]], p[8] \in DOMAIN vars
    PROVE  \A j \in (i + 1)..8 : p[j] \in Names(vars[p[i]], vars)
<1> DEFINE B == {j \in (i + 1)..8 : p[j] \notin Names(vars[p[i]], vars)}
<1> SUFFICES ASSUME B # {} PROVE FALSE
  OBVIOUS
<1>1. PICK j \in B : \A k \in B : j <= k
  BY LeastNat
<1>2. j \in (i + 1)..8 /\ j - 1 \in i..7 /\ j - 1 \in 1..7 /\ (j - 1) + 1 = j /\ ~ (j <= j - 1)
  OBVIOUS
<1>3. p[j] \in vars[p[j - 1]] /\ p[j - 1] \in DOMAIN vars
  BY <1>2
<1>4. CASE j - 1 = i
  <2>1. p[j] \in vars[p[i]]
    BY <1>3, <1>4
  <2> QED
    BY <2>1, NamesHold
<1>5. CASE j - 1 # i
  <2>1. j - 1 \in (i + 1)..8
    BY <1>2, <1>5
  <2>2. p[j - 1] \in Names(vars[p[i]], vars)
    BY <1>1, <1>2, <2>1
  <2> QED
    BY <1>3, <2>2, NamesHold
<1> QED
  BY <1>4, <1>5

\* Eight variables in a chain are more than seven: one of them comes twice.
LEMMA ChainRepeats ==
    ASSUME NEW vars, IsFiniteSet(DOMAIN vars), Cardinality(DOMAIN vars) <= 7, NEW p,
           \A k \in 1..7 : p[k] \in DOMAIN vars /\ p[k + 1] \in vars[p[k]], p[8] \in DOMAIN vars
    PROVE  \E k \in 1..8 : p[k] \in Names(vars[p[k]], vars)
<1> DEFINE f == [k \in 1..8 |-> p[k]]
<1>1. \A k \in 1..8 : p[k] \in DOMAIN vars
  OBVIOUS
<1>2. f \in [1..8 -> DOMAIN vars]
  BY <1>1
<1>3. IsFiniteSet(1..8) /\ Cardinality(1..8) = 8
  <2>1. 1 \in Int /\ 8 \in Int
    OBVIOUS
  <2>2. IsFiniteSet(1..8) /\ Cardinality(1..8) = IF 1 > 8 THEN 0 ELSE 8 - 1 + 1
    BY ONLY <2>1, FS_Interval
  <2> QED
    BY <2>2
<1>4. Cardinality(DOMAIN vars) < Cardinality(1..8)
  <2>1. Cardinality(DOMAIN vars) \in Nat
    BY FS_CardinalityType
  <2> QED
    BY <1>3, <2>1
<1>5. PICK i \in 1..8, j \in 1..8 : i # j /\ f[i] = f[j]
  <2> HIDE DEF f
  <2> QED
    BY <1>2, <1>3, <1>4, FS_PigeonHole
<1>6. p[i] = p[j]
  BY <1>5
<1>7. CASE i < j
  <2>1. j \in (i + 1)..8
    BY <1>7
  <2>2. p[j] \in Names(vars[p[i]], vars)
    BY <2>1, ChainLeads
  <2> QED
    BY <1>6, <2>2
<1>8. CASE j < i
  <2>1. i \in (j + 1)..8
    BY <1>8
  <2>2. p[i] \in Names(vars[p[j]], vars)
    BY <2>1, ChainLeads
  <2> QED
    BY <1>6, <2>2
<1> QED
  BY <1>5, <1>7, <1>8

\* An expansion of what a resolvable text leads to is again that.
LEMMA ExpansionsAreNames ==
    ASSUME NEW t, NEW T, Resolvable(T, t), NEW X, X \subseteq Names(T, t.variables)
    PROVE  \A y \in Expand(X, FirstValues(t)) :
              /\ y \in Names(T, t.variables)
              /\ \E n \in X : n \in DOMAIN t.variables /\ y \in t.variables[n]
<1> SUFFICES ASSUME NEW y \in Expand(X, FirstValues(t))
             PROVE  /\ y \in Names(T, t.variables)
                    /\ \E n \in X : n \in DOMAIN t.variables /\ y \in t.variables[n]
  OBVIOUS
<1>1. PICK n \in X : ExpandsTo(n, y, FirstValues(t))
  BY ExpandIs
<1>2. n \in Builtins \cup DOMAIN t.variables
  BY DEF Resolvable
<1>3. n \in DOMAIN t.variables /\ y \in t.variables[n]
  BY <1>1, <1>2, FirstValuesAre DEF ExpandsTo
<1> QED
  BY <1>3, NamesHold

\* Nothing is left of a resolvable text with up to seven variables.
LEMMA ResolvableIsEmpty ==
    ASSUME NEW t, NEW T, Resolvable(T, t),
           IsFiniteSet(DOMAIN t.variables), Cardinality(DOMAIN t.variables) <= 7
    PROVE  Expand(T, Materialize(t)) = {}
<1> DEFINE E == Expansions(T, FirstValues(t))
           vars == t.variables
           N == Names(T, vars)
           To(n, y) == n \in DOMAIN vars /\ y \in vars[n]
<1>1. E[1] = T /\ \A k \in 1..8 : E[k + 1] = Expand(E[k], FirstValues(t))
  BY ThreeRoundsAreEight
<1>2. E[9] = Expand(T, Materialize(t))
  BY ThreeRoundsAreEight, MaterializeIs
<1> HIDE DEF E
<1>3. E[1] \subseteq N
  BY <1>1, NamesHold
<1>4. ASSUME NEW k \in 1..8, E[k] \subseteq N
      PROVE  E[k + 1] \subseteq N /\ \A y \in E[k + 1] : \E n \in E[k] : To(n, y)
  BY <1>1, <1>4, ExpansionsAreNames
<1>5. /\ E[1] \subseteq N /\ E[2] \subseteq N /\ E[3] \subseteq N /\ E[4] \subseteq N /\ E[5] \subseteq N
      /\ E[6] \subseteq N /\ E[7] \subseteq N /\ E[8] \subseteq N
  <2> HIDE DEF To, N
  <2>2. E[2] \subseteq N
    BY <1>4, <1>3, 1 + 1 = 2
  <2>3. E[3] \subseteq N
    BY <1>4, <2>2, 2 + 1 = 3
  <2>4. E[4] \subseteq N
    BY <1>4, <2>3, 3 + 1 = 4
  <2>5. E[5] \subseteq N
    BY <1>4, <2>4, 4 + 1 = 5
  <2>6. E[6] \subseteq N
    BY <1>4, <2>5, 5 + 1 = 6
  <2>7. E[7] \subseteq N
    BY <1>4, <2>6, 6 + 1 = 7
  <2>8. E[8] \subseteq N
    BY <1>4, <2>7, 7 + 1 = 8
  <2> QED
    BY <1>3, <2>2, <2>3, <2>4, <2>5, <2>6, <2>7, <2>8
<1>6. ASSUME NEW k \in 1..8, NEW y \in E[k + 1] PROVE \E n \in E[k] : To(n, y)
  <2>1. k \in {1, 2, 3, 4, 5, 6, 7, 8}
    OBVIOUS
  <2>2. E[k] \subseteq N
    BY <1>5, <2>1
  <2> QED
    BY <1>4, <2>2
<1>7. SUFFICES ASSUME NEW y9 \in E[9] PROVE FALSE
  BY <1>2
<1> HIDE DEF N, To
<1>18. PICK y8 \in E[8] : To(y8, y9)
  BY <1>6, 8 + 1 = 9
<1>17. PICK y7 \in E[7] : To(y7, y8)
  BY <1>6, 7 + 1 = 8
<1>16. PICK y6 \in E[6] : To(y6, y7)
  BY <1>6, 6 + 1 = 7
<1>15. PICK y5 \in E[5] : To(y5, y6)
  BY <1>6, 5 + 1 = 6
<1>14. PICK y4 \in E[4] : To(y4, y5)
  BY <1>6, 4 + 1 = 5
<1>13. PICK y3 \in E[3] : To(y3, y4)
  BY <1>6, 3 + 1 = 4
<1>12. PICK y2 \in E[2] : To(y2, y3)
  BY <1>6, 2 + 1 = 3
<1>11. PICK y1 \in E[1] : To(y1, y2)
  BY <1>6, 1 + 1 = 2
<1> DEFINE p == <<y1, y2, y3, y4, y5, y6, y7, y8>>
<1>20. /\ p[1] = y1 /\ p[2] = y2 /\ p[3] = y3 /\ p[4] = y4
       /\ p[5] = y5 /\ p[6] = y6 /\ p[7] = y7 /\ p[8] = y8
  OBVIOUS
<1> HIDE DEF p
<1>21. \A k \in 1..7 : To(p[k], p[k + 1])
  <2> SUFFICES ASSUME NEW k \in 1..7 PROVE To(p[k], p[k + 1])
    OBVIOUS
  <2>1. k \in {1, 2, 3, 4, 5, 6, 7}
    OBVIOUS
  <2> QED
    BY <1>11, <1>12, <1>13, <1>14, <1>15, <1>16, <1>17, <1>20, <2>1
<1>22. To(p[8], y9)
  BY <1>18, <1>20
<1>23. \A k \in 1..8 : p[k] \in N
  <2> SUFFICES ASSUME NEW k \in 1..8 PROVE p[k] \in N
    OBVIOUS
  <2>1. k \in {1, 2, 3, 4, 5, 6, 7, 8}
    OBVIOUS
  <2> QED
    BY <1>5, <1>20, <2>1
<1>24. PICK k \in 1..8 : p[k] \in Names(vars[p[k]], vars)
  BY <1>21, <1>22, ChainRepeats DEF To
<1>25. p[k] \in DOMAIN vars
  <2>1. \A i \in 1..7 : p[i] \in DOMAIN vars
    BY <1>21 DEF To
  <2>2. p[8] \in DOMAIN vars
    BY <1>22 DEF To
  <2>3. k \in 1..7 \/ k = 8
    OBVIOUS
  <2> QED
    BY <2>1, <2>2, <2>3
<1> QED
  BY <1>23, <1>24, <1>25 DEF Resolvable, N

-----------------------------------------------------------------------------
\* The result of case i records what its template makes of its command.
RightResult(t, i, r) ==
    /\ r.id = t.cases[i].id
    /\ HasCommand(t.cases[i]) => r.command = Expand(CaseCommand(t.cases[i]), Materialize(t))

\* The results of the first cases of a template, in their order.
RightResults(t, results) ==
    /\ \E S : results \in Seq(S)
    /\ Len(results) <= Len(t.cases)
    /\ \A i \in 1..Len(results) : RightResult(t, i, results[i])

Measuring(at, t, dryRun, results) ==
    /\ bench = [at |-> at, template |-> t, dry |-> dryRun, results |-> results]
    /\ at \in {"cases", "payload", "dump"} /\ t \in Templates
    /\ RightResults(t, results)
    /\ IF at = "cases" THEN Len(results) < Len(t.cases) ELSE Len(results) = Len(t.cases)

\* A payload on disk is empty, as a kill leaves it, or has every result.
Measurements(t, results) ==
    /\ payload = [template |-> t, results |-> results]
    /\ t \in Templates
    /\ \/ results = <<>>
       \/ RightResults(t, results) /\ Len(results) = Len(t.cases)

BenchIInv ==
    /\ bench = Free \/ \E at, t, dryRun, results : Measuring(at, t, dryRun, results)
    /\ payload = NoPayload \/ \E t, results : Measurements(t, results)

LEMMA CasesAreCounted == ASSUME NEW t \in Templates PROVE Len(t.cases) \in Nat /\ DOMAIN t.cases = 1..Len(t.cases)
<1>1. t.cases \in Seq(ToSet(t.cases))
  BY ReproHarnessAssumption DEF Template
<1> QED
  BY <1>1

LEMMA RunTemplateIInv ==
    ASSUME BenchIInv, NEW t \in Templates, NEW dryRun \in BOOLEAN, RunTemplate(t, dryRun)
    PROVE  BenchIInv'
<1>1. payload' = payload
  BY DEF RunTemplate
<1>2. CASE bench' = Free
  BY <1>1, <1>2 DEF BenchIInv, Measurements
<1>3. CASE ValidTemplate(t)
  <2>1. bench' = [at |-> "cases", template |-> t, dry |-> dryRun, results |-> <<>>]
    BY <1>3 DEF RunTemplate
  <2>2. t.cases # <<>> /\ t.cases \in Seq(ToSet(t.cases))
    BY <1>3, ReproHarnessAssumption DEF ValidTemplate, Template
  <2>3. Len(t.cases) \in Nat /\ 0 < Len(t.cases)
    BY <2>2
  <2>4. RightResults(t, <<>>)
    <3>1. <<>> \in Seq({}) /\ Len(<<>>) = 0
      OBVIOUS
    <3> QED
      BY <2>3, <3>1 DEF RightResults
  <2>5. Measuring("cases", t, dryRun, <<>>)'
    BY <2>1, <2>3, <2>4 DEF Measuring
  <2> QED
    BY <1>1, <2>5 DEF BenchIInv, Measurements
<1> QED
  BY <1>2, <1>3 DEF RunTemplate

LEMMA RunOneIInv == ASSUME BenchIInv, NEW exit \in 0..1, RunOne(exit) PROVE BenchIInv'
<1>1. PICK at, t, dryRun, results : Measuring(at, t, dryRun, results)
  <2>1. bench # Free
    BY DEF RunOne, Free
  <2> QED
    BY <2>1 DEF BenchIInv
<1>2. at = "cases" /\ Len(results) < Len(t.cases)
  BY <1>1 DEF Measuring, RunOne
<1>3. PICK S : results \in Seq(S)
  BY <1>1 DEF Measuring, RightResults
<1>4. Len(results) \in Nat /\ Len(t.cases) \in Nat
  BY <1>1, <1>3, CasesAreCounted DEF Measuring
<1> DEFINE c == t.cases[Len(results) + 1]
<1>5. PICK r : /\ r.id = c.id
               /\ HasCommand(c) => r.command = Expand(CaseCommand(c), Materialize(t))
               /\ bench' = [bench EXCEPT !.results = Append(results, r),
                                         !.at = IF Len(Append(results, r)) = Len(t.cases)
                                                THEN "payload" ELSE "cases"]
  <2>1. bench.template = t /\ bench.results = results
    BY <1>1 DEF Measuring
  <2>2. ThisCase = c
    BY <2>1 DEF ThisCase
  <2> DEFINE ran == IF HasCommand(c) THEN Expand(CaseCommand(c), Materialize(t)) ELSE {}
             cwd == Expand(c.cwd, Materialize(t))
             R(s) == [id |-> c.id, status |-> s, command |-> ran, cwd |-> cwd]
  <2> DEFINE status == IF c.host \in {"unmet", "unknown"} THEN "blocked_host_requirement"
                       ELSE IF ~ HasCommand(c) THEN "awaiting_manual_capture"
                       ELSE IF bench.dry THEN "planned"
                       ELSE IF exit = 0 THEN "captured" ELSE "failed"
  <2>5. bench' = [bench EXCEPT !.results = Append(results, R(status)),
                               !.at = IF Len(Append(results, R(status))) = Len(t.cases)
                                      THEN "payload" ELSE "cases"]
    <3> HIDE DEF c
    <3> QED
      BY <2>1, <2>2 DEF RunOne
  <2> HIDE DEF status
  <2>3. PICK s : bench' = [bench EXCEPT !.results = Append(results, R(s)),
                                        !.at = IF Len(Append(results, R(s))) = Len(t.cases)
                                               THEN "payload" ELSE "cases"]
    BY <2>5
  <2>4. R(s).id = c.id /\ R(s).command = ran
    OBVIOUS
  <2> HIDE DEF R
  <2> QED
    BY <2>3, <2>4
<1> DEFINE more == Append(results, r)
<1>6. /\ more \in Seq(S \cup {r}) /\ Len(more) = Len(results) + 1
      /\ \A i \in 1..Len(results) : more[i] = results[i]
      /\ more[Len(results) + 1] = r
  <2>1. results \in Seq(S \cup {r}) /\ r \in S \cup {r}
    BY <1>3
  <2> QED
    BY <2>1, AppendProperties
<1>7. \E now \in {"cases", "payload"} :
        /\ bench' = [at |-> now, template |-> t, dry |-> dryRun, results |-> more]
        /\ IF now = "cases" THEN Len(more) # Len(t.cases) ELSE Len(more) = Len(t.cases)
  <2> DEFINE now == IF Len(more) = Len(t.cases) THEN "payload" ELSE "cases"
  <2>1. bench = [at |-> at, template |-> t, dry |-> dryRun, results |-> results]
    BY <1>1 DEF Measuring
  <2>2. bench' = [bench EXCEPT !.results = more, !.at = now]
    BY <1>5
  <2>3. now \in {"cases", "payload"} /\ IF now = "cases" THEN Len(more) # Len(t.cases) ELSE Len(more) = Len(t.cases)
    OBVIOUS
  <2> HIDE DEF more, now
  <2>4. bench' = [at |-> now, template |-> t, dry |-> dryRun, results |-> more]
    BY <2>1, <2>2
  <2> QED
    BY <2>3, <2>4
<1> HIDE DEF more
<1>8. RightResults(t, more)
  <2>1. \A i \in 1..Len(results) : RightResult(t, i, results[i])
    BY <1>1 DEF Measuring, RightResults
  <2>2. RightResult(t, Len(results) + 1, r)
    BY <1>5 DEF RightResult
  <2>3. ASSUME NEW i \in 1..Len(more) PROVE RightResult(t, i, more[i])
    <3>1. i \in 1..Len(results) \/ i = Len(results) + 1
      BY <1>4, <1>6
    <3> QED
      BY <1>6, <2>1, <2>2, <3>1
  <2>4. Len(more) <= Len(t.cases)
    BY <1>2, <1>4, <1>6
  <2> QED
    BY <1>6, <2>3, <2>4 DEF RightResults
<1>9. \E now : Measuring(now, t, dryRun, more)'
  <2>1. PICK now \in {"cases", "payload"} :
          /\ bench' = [at |-> now, template |-> t, dry |-> dryRun, results |-> more]
          /\ IF now = "cases" THEN Len(more) # Len(t.cases) ELSE Len(more) = Len(t.cases)
    BY <1>7
  <2>2. IF now = "cases" THEN Len(more) < Len(t.cases) ELSE Len(more) = Len(t.cases)
    BY <1>2, <1>4, <1>6, <2>1
  <2>3. t \in Templates
    BY <1>1 DEF Measuring
  <2> QED
    BY <1>8, <2>1, <2>2, <2>3 DEF Measuring
<1>10. payload' = payload
  BY DEF RunOne
<1> QED
  BY <1>9, <1>10 DEF BenchIInv, Measurements

LEMMA PayloadIInv == ASSUME BenchIInv, OpenPayload \/ DumpPayload PROVE BenchIInv'
<1>1. PICK at, t, dryRun, results : Measuring(at, t, dryRun, results)
  <2>1. bench # Free
    BY DEF OpenPayload, DumpPayload, Free
  <2> QED
    BY <2>1 DEF BenchIInv
<1>2. bench = [at |-> at, template |-> t, dry |-> dryRun, results |-> results]
  BY <1>1 DEF Measuring
<1>3. t \in Templates /\ RightResults(t, results)
  BY <1>1 DEF Measuring
<1>4. CASE OpenPayload
  <2>1. at = "payload"
    BY <1>2, <1>4 DEF OpenPayload
  <2>2. bench' = [at |-> "dump", template |-> t, dry |-> dryRun, results |-> results]
    BY <1>2, <1>4 DEF OpenPayload
  <2>3. payload' = [template |-> t, results |-> <<>>]
    BY <1>2, <1>4 DEF OpenPayload
  <2>4. Measuring("dump", t, dryRun, results)'
    BY <1>1, <2>1, <2>2 DEF Measuring
  <2>5. Measurements(t, <<>>)'
    BY <1>3, <2>3 DEF Measurements
  <2> QED
    BY <2>4, <2>5 DEF BenchIInv
<1>5. CASE DumpPayload
  <2>1. at = "dump"
    BY <1>2, <1>5 DEF DumpPayload
  <2>2. payload' = [template |-> t, results |-> results]
    BY <1>2, <1>5 DEF DumpPayload
  <2>3. Measurements(t, results)'
    BY <1>1, <2>1, <2>2 DEF Measuring, Measurements
  <2>4. bench' = Free
    BY <1>5 DEF DumpPayload
  <2> QED
    BY <2>3, <2>4 DEF BenchIInv
<1> QED
  BY <1>4, <1>5

LEMMA BenchStep == BenchIInv /\ [BenchNext]_benchVars => BenchIInv'
<1> SUFFICES ASSUME BenchIInv, [BenchNext]_benchVars PROVE BenchIInv'
  OBVIOUS
<1>1. CASE bench' = Free /\ payload' = payload
  BY <1>1 DEF BenchIInv, Measurements
<1>2. CASE UNCHANGED benchVars
  BY <1>2 DEF BenchIInv, Measurements, Measuring, benchVars
<1> QED
  BY <1>1, <1>2, RunTemplateIInv, RunOneIInv, PayloadIInv DEF BenchNext, CannotRun, KillHarness

LEMMA BenchInvariant == BenchSpec => []BenchIInv
<1>1. BenchInit => BenchIInv
  BY DEF BenchInit, BenchIInv
<1> QED
  BY <1>1, BenchStep, PTL DEF BenchSpec

LEMMA BenchType == BenchIInv => BenchTypeOK
<1> SUFFICES ASSUME BenchIInv PROVE BenchTypeOK
  OBVIOUS
<1>1. bench = Free => bench.at = "free"
  BY DEF Free
<1>2. ASSUME bench # Free
      PROVE  /\ bench.at \in {"cases", "payload", "dump"} /\ Template(bench.template)
             /\ Len(bench.results) \in 0..Len(bench.template.cases)
  <2>1. PICK at, t, dryRun, results : Measuring(at, t, dryRun, results)
    BY <1>2 DEF BenchIInv
  <2>2. bench.at = at /\ bench.template = t /\ bench.results = results
    BY <2>1 DEF Measuring
  <2>3. PICK S : results \in Seq(S)
    BY <2>1 DEF Measuring, RightResults
  <2>4. Len(results) \in Nat /\ Len(t.cases) \in Nat /\ Len(results) <= Len(t.cases)
    BY <2>1, <2>3, CasesAreCounted DEF Measuring, RightResults
  <2> QED
    BY <2>1, <2>2, <2>4, ReproHarnessAssumption DEF Measuring
<1>3. ASSUME payload # NoPayload PROVE Len(payload.results) \in 0..Len(payload.template.cases)
  <2>1. PICK t, results : Measurements(t, results)
    BY <1>3 DEF BenchIInv
  <2>2. payload.results = results /\ payload.template = t
    BY <2>1 DEF Measurements
  <2>3. Len(results) = 0 \/ Len(results) = Len(t.cases)
    BY <2>1 DEF Measurements
  <2>4. Len(t.cases) \in Nat
    BY <2>1, CasesAreCounted DEF Measurements
  <2> QED
    BY <2>2, <2>3, <2>4
<1>4. bench.at \in {"free", "cases", "payload", "dump"}
  BY <1>1, <1>2
<1> QED
  BY <1>2, <1>3, <1>4 DEF BenchTypeOK

\* runtime/benchmarks/repro_harness.py: whatever the templates and wherever
\* the harness is stopped, the payload is empty or has one result for each case
\* of its template, in order, and a command that is recorded as one the shell
\* would run is one that the template defines to the end.  Three rounds of
\* expansion, each of which doubles the steps that are expanded, are enough
\* for all templates with up to seven variables, whatever they mention.
THEOREM RecordsStayTrue == BenchSpec => []RecordsWhatItRan
<1>1. ASSUME BenchIInv, payload # NoPayload
      PROVE  Len(payload.results) \in {0, Len(payload.template.cases)}
  <2>1. PICK t, results : Measurements(t, results)
    BY <1>1 DEF BenchIInv
  <2>2. payload.results = results /\ payload.template = t
    BY <2>1 DEF Measurements
  <2>3. Len(results) = 0 \/ Len(results) = Len(t.cases)
    BY <2>1 DEF Measurements
  <2> QED
    BY <2>2, <2>3
<1>2. BenchIInv => RecordsWhatItRan
  <2> SUFFICES ASSUME BenchIInv, payload # NoPayload, NEW i \in DOMAIN payload.results
               PROVE  LET r == payload.results[i]
                          t == payload.template
                          c == t.cases[i]
                          resolvable == Resolvable(CaseCommand(c), t)
                      IN  /\ r.id = c.id
                          /\ HasCommand(c) /\ r.command = {} => resolvable
                          /\ HasCommand(c) /\ resolvable /\ Cardinality(DOMAIN t.variables) <= 7
                                => r.command = {}
    BY <1>1 DEF RecordsWhatItRan
  <2>1. PICK t, results : Measurements(t, results)
    BY DEF BenchIInv
  <2>2. payload.results = results /\ payload.template = t /\ t \in Templates
    BY <2>1 DEF Measurements
  <2>3. results # <<>>
    <3>1. i \in DOMAIN results
      BY <2>2
    <3>2. DOMAIN <<>> = {}
      OBVIOUS
    <3> QED
      BY <3>1, <3>2
  <2>4. RightResults(t, results)
    BY <2>1, <2>3 DEF Measurements
  <2>5. PICK S : results \in Seq(S)
    BY <2>4 DEF RightResults
  <2>6. i \in 1..Len(results)
    BY <2>2, <2>5
  <2>7. RightResult(t, i, results[i])
    BY <2>4, <2>6 DEF RightResults
  <2> DEFINE c == t.cases[i]
             r == results[i]
  <2>8. r.id = c.id /\ (HasCommand(c) => r.command = Expand(CaseCommand(c), Materialize(t)))
    BY <2>7 DEF RightResult
  <2>9. IsFiniteSet(DOMAIN t.variables)
    BY <2>2, ReproHarnessAssumption DEF Template
  <2>10. HasCommand(c) /\ r.command = {} => Resolvable(CaseCommand(c), t)
    BY <2>8, EmptyIsResolvable
  <2>11. HasCommand(c) /\ Resolvable(CaseCommand(c), t) /\ Cardinality(DOMAIN t.variables) <= 7
            => r.command = {}
    BY <2>8, <2>9, ResolvableIsEmpty
  <2> QED
    BY <2>2, <2>8, <2>10, <2>11
<1> QED
  BY <1>2, BenchInvariant, PTL

(***************************************************************************)
(* The planners.                                                           *)
(***************************************************************************)

LEMMA ResidencyPlanFits ==
    ASSUME NEW r \in Residency, PlanResidency(r).accepted
    PROVE  LET a == PlanResidency(r)
               memory == IF a.target = "cpu" THEN r.system ELSE r.device
               hybrid == a.draft # a.target
               fallback == a.target = "cpu" /\ r.backend # "cpu"
           IN  /\ ~ hybrid => memory >= Target(r)
               /\ ~ hybrid /\ ~ fallback => memory >= Everything(r)
               /\ hybrid => r.system >= Everything(r) /\ r.separate /\ r.draft > 0
<1>1. /\ r.weights \in Nat /\ r.kv \in Nat /\ r.scratch \in Nat /\ r.draft \in Nat
      /\ r.device \in Nat /\ r.system \in Nat
      /\ r.backend \in {"cuda", "metal", "unified", "cpu"}
      /\ r.separate \in BOOLEAN /\ r.regressed \in BOOLEAN
  BY PlacementAssumption DEF Residency
<1>2. Target(r) \in Nat /\ Everything(r) \in Nat /\ Everything(r) >= Target(r)
  BY <1>1 DEF Target, Everything
<1>3. CASE r.backend = "unified"
  <2>1. CASE r.device >= Everything(r)
    <3>1. PlanResidency(r) = [target |-> "unified", draft |-> "unified", accepted |-> TRUE]
      BY <1>3, <2>1 DEF PlanResidency
    <3> QED
      BY <1>1, <1>2, <2>1, <3>1
  <2>2. CASE ~ (r.device >= Everything(r))
    <3>1. PlanResidency(r) = [target |-> "none", draft |-> "none", accepted |-> FALSE]
      BY <1>3, <2>2 DEF PlanResidency
    <3> QED
      BY <3>1
  <2> QED
    BY <2>1, <2>2
<1>4. CASE r.backend = "cpu"
  <2>1. PlanResidency(r) = [target |-> "cpu", draft |-> "cpu", accepted |-> r.system >= Everything(r)]
    BY <1>4 DEF PlanResidency
  <2>2. PlanResidency(r).target = "cpu" /\ PlanResidency(r).draft = "cpu"
    BY <2>1
  <2>3. CASE ~ (r.system >= Everything(r))
    <3>1. PlanResidency(r) = [target |-> "cpu", draft |-> "cpu", accepted |-> FALSE]
      BY <1>4, <2>3 DEF PlanResidency
    <3> QED
      BY <3>1
  <2> QED
    BY <1>1, <1>2, <1>4, <2>2, <2>3
<1>5. CASE r.backend \in {"cuda", "metal"}
  <2>1. CASE r.device >= Everything(r)
    BY <1>1, <1>2, <1>5, <2>1 DEF PlanResidency
  <2>2. CASE ~ (r.device >= Everything(r)) /\ r.separate /\ r.draft > 0
             /\ r.system >= Everything(r) /\ ~ r.regressed
    BY <1>1, <1>2, <1>5, <2>2 DEF PlanResidency
  <2>3. CASE ~ (r.device >= Everything(r))
             /\ ~ (r.separate /\ r.draft > 0 /\ r.system >= Everything(r) /\ ~ r.regressed)
    BY <1>1, <1>2, <1>5, <2>3 DEF PlanResidency
  <2> QED
    BY <2>1, <2>2, <2>3
<1> QED
  BY <1>1, <1>3, <1>4, <1>5

LEMMA UsableKeepsTheReserve ==
    ASSUME NEW c \in Nat
    PROVE  Usable(c) \in Nat /\ (Usable(c) > 0 => Usable(c) + MinimumReserve <= c)
<1>1. (c * ReservePercent) \div 100 \in Int
  BY PlacementAssumption
<1> QED
  BY <1>1, PlacementAssumption DEF Usable, Larger

LEMMA PlacementPlanFits ==
    ASSUME NEW h \in Hardware, PlanPlacement(h).accepted
    PROVE  LET a == PlanPlacement(h)
           IN  CASE a.mode = "full-device" -> CapacityOf(h) >= h.target + h.draft + MinimumReserve
                 [] a.mode = "hybrid" -> SystemOf(h) >= h.target + h.draft + MinimumReserve
                 [] OTHER -> SystemOf(h) >= h.target + MinimumReserve
<1>1. /\ h.target \in Nat /\ h.target > 0 /\ h.draft \in Nat
      /\ h.available \in Nat /\ h.installed \in Nat /\ h.gpu \in Nat /\ h.unified \in Nat
  <2>1. /\ h.target \in Bytes \ {0} /\ h.draft \in Bytes /\ h.available \in Bytes
        /\ h.installed \in Bytes /\ h.gpu \in Bytes /\ h.unified \in Bytes
    BY DEF Hardware
  <2>2. \A b \in Bytes : b \in Nat
    BY PlacementAssumption
  <2>3. h.target \in Bytes /\ h.target # 0
    BY <2>1
  <2> QED
    BY <2>1, <2>2, <2>3
<1>2. SystemOf(h) \in Nat /\ CapacityOf(h) \in Nat
  BY <1>1 DEF SystemOf, CapacityOf
<1>3. /\ Usable(CapacityOf(h)) \in Nat /\ Usable(SystemOf(h)) \in Nat
      /\ Usable(CapacityOf(h)) > 0 => Usable(CapacityOf(h)) + MinimumReserve <= CapacityOf(h)
      /\ Usable(SystemOf(h)) > 0 => Usable(SystemOf(h)) + MinimumReserve <= SystemOf(h)
  BY <1>2, UsableKeepsTheReserve
<1>4. CASE Usable(CapacityOf(h)) >= h.target + h.draft
  <2>1. PlanPlacement(h).mode = "full-device"
    BY <1>4 DEF PlanPlacement
  <2> QED
    BY <1>1, <1>2, <1>3, <1>4, <2>1, PlacementAssumption
<1>5. CASE /\ ~ (Usable(CapacityOf(h)) >= h.target + h.draft)
           /\ h.backend = "cuda" /\ h.separate /\ Usable(SystemOf(h)) >= h.target + h.draft
  <2>1. PlanPlacement(h).mode = "hybrid"
    BY <1>5 DEF PlanPlacement
  <2> QED
    BY <1>1, <1>2, <1>3, <1>5, <2>1, PlacementAssumption
<1>6. CASE /\ ~ (Usable(CapacityOf(h)) >= h.target + h.draft)
           /\ ~ (h.backend = "cuda" /\ h.separate /\ Usable(SystemOf(h)) >= h.target + h.draft)
  <2>1. Usable(SystemOf(h)) >= h.target
    BY <1>6 DEF PlanPlacement
  <2>2. PlanPlacement(h).mode = "cpu-fallback"
    BY <1>6, <2>1 DEF PlanPlacement
  <2> QED
    BY <1>1, <1>2, <1>3, <2>1, <2>2, PlacementAssumption
<1> QED
  BY <1>4, <1>5, <1>6

LEMMA KvPlanFits ==
    ASSUME NEW q \in KvRequest, q.minimum <= q.requested
    PROVE  LET a == PlanKv(q)
           IN  /\ a.accepted => /\ a.context \in q.minimum..q.requested
                                /\ a.total <= KvUsable(q)
               /\ ~ a.accepted /\ q.policy \in {"auto", "full_precision"} /\ q.full > 0 =>
                    /\ q.minimum * q.full > KvUsable(q)
                    /\ q.supported /\ q.quantized > 0 => q.minimum * q.quantized > KvUsable(q)
<1> DEFINE Context(bytes) == Smaller(q.requested, KvUsable(q) \div Larger(1, bytes))
           canQuantize == q.supported /\ q.quantized > 0
           first == CASE q.policy = "quantized" /\ canQuantize -> "quantized"
                      [] q.policy = "paged" /\ q.paged -> "paged"
                      [] OTHER -> "full_precision"
           BytesOf(f) == IF f = "quantized" THEN q.quantized ELSE q.full
           format == IF first = "full_precision" /\ canQuantize /\ Context(q.full) < q.minimum
                     THEN "quantized" ELSE first
           context == Context(BytesOf(format))
<1>1. /\ q.requested \in Nat /\ q.minimum \in Nat /\ q.minimum > 0 /\ q.full \in Nat
      /\ q.quantized \in Nat /\ q.available \in Nat /\ q.reserved \in Nat
  <2>1. /\ q.requested \in 1..3 /\ q.minimum \in 1..3 /\ q.full \in Bytes
        /\ q.quantized \in Bytes /\ q.available \in Bytes /\ q.reserved \in Bytes
    BY DEF KvRequest
  <2>2. \A b \in Bytes : b \in Nat
    BY PlacementAssumption
  <2> QED
    BY <2>1, <2>2
<1>2. KvUsable(q) \in Nat
  BY <1>1 DEF KvUsable, Larger
<1>3. ASSUME NEW b \in Nat
      PROVE  /\ Context(b) \in Nat /\ Context(b) <= q.requested
             /\ Context(b) * b <= KvUsable(q)
             /\ b > 0 /\ Context(b) < q.minimum => q.minimum * b > KvUsable(q)
  <2> DEFINE d == Larger(1, b)
             quotient == KvUsable(q) \div d
  <2>1. d \in Nat \ {0} /\ (b > 0 => d = b)
    BY DEF Larger
  <2> HIDE DEF d
  <2>2. /\ quotient \in Nat
        /\ \A c \in Nat : c <= quotient => c * d <= KvUsable(q)
        /\ \A c \in Nat : c > quotient => c * d > KvUsable(q)
    BY <1>2, <2>1, QuotientFits
  <2>3. Context(b) = Smaller(q.requested, quotient)
    BY DEF d
  <2> HIDE DEF quotient, Context
  <2>4. Context(b) \in Nat /\ Context(b) <= q.requested /\ Context(b) <= quotient
    BY <1>1, <2>2, <2>3 DEF Smaller
  <2>5. Context(b) < q.minimum => q.minimum > quotient
    BY <1>1, <2>2, <2>3 DEF Smaller
  <2>6. CASE b = 0
    BY <1>2, <2>4, <2>6
  <2>7. CASE b > 0
    BY <1>1, <2>1, <2>2, <2>4, <2>5, <2>7
  <2> QED
    BY <2>4, <2>6, <2>7
<1>4. PlanKv(q) = [format |-> format, accepted |-> context >= q.minimum,
                   context |-> IF context >= q.minimum THEN context ELSE 0,
                   total |-> IF context >= q.minimum THEN context * BytesOf(format) ELSE 0]
  BY DEF PlanKv
<1>5. BytesOf(format) \in Nat
  BY <1>1
<1> HIDE DEF Context
<1>6. ASSUME q.policy \in {"auto", "full_precision"}
      PROVE  first = "full_precision"
  BY <1>6
<1>7. /\ context \in Nat /\ context <= q.requested /\ context * BytesOf(format) <= KvUsable(q)
      /\ Context(q.full) \in Nat
      /\ q.full > 0 /\ Context(q.full) < q.minimum => q.minimum * q.full > KvUsable(q)
      /\ q.quantized > 0 /\ Context(q.quantized) < q.minimum => q.minimum * q.quantized > KvUsable(q)
  BY <1>1, <1>3, <1>5
<1>8. ASSUME ~ (context >= q.minimum), q.policy \in {"auto", "full_precision"}, q.full > 0
      PROVE  /\ q.minimum * q.full > KvUsable(q)
             /\ q.supported /\ q.quantized > 0 => q.minimum * q.quantized > KvUsable(q)
  <2>1. CASE format = "quantized"
    <3>1. Context(q.full) < q.minimum /\ context = Context(q.quantized) /\ q.quantized > 0
      BY <1>6, <1>8, <2>1
    <3> QED
      BY <1>1, <1>7, <1>8, <3>1
  <2>2. CASE format # "quantized"
    <3>1. context = Context(q.full)
      BY <2>2
    <3>2. Context(q.full) < q.minimum
      BY <1>1, <1>7, <1>8, <3>1
    <3>3. ~ canQuantize
      BY <1>6, <1>8, <2>2, <3>2
    <3> QED
      BY <1>7, <1>8, <3>2, <3>3
  <2> QED
    BY <2>1, <2>2
<1> HIDE DEF context, format, BytesOf
<1>9. CASE context >= q.minimum
  <2>1. PlanKv(q) = [format |-> format, accepted |-> TRUE, context |-> context,
                     total |-> context * BytesOf(format)]
    BY <1>4, <1>9
  <2> QED
    BY <1>1, <1>7, <1>9, <2>1
<1>10. CASE ~ (context >= q.minimum)
  <2>1. (context >= q.minimum) = FALSE
    BY <1>10
  <2>2. PlanKv(q) = [format |-> format, accepted |-> FALSE, context |-> 0, total |-> 0]
    BY <1>4, <2>1
  <2> QED
    BY <1>8, <1>10, <2>2
<1> QED
  BY <1>9, <1>10

\* The sum of the first shares.
LEMMA FirstSharesAddUp ==
    ASSUME NEW a \in Nat, NEW n \in Nat \ {0}
    PROVE  \A k \in 0..n : SumOf(FairShare(a, n), 1..k) = k * (a \div n) + Smaller(k, a % n)
<1> DEFINE share == FairShare(a, n)
           d == a \div n
           r == a % n
           Bad == {k \in 0..n : SumOf(share, 1..k) # k * d + Smaller(k, r)}
<1>1. d \in Nat /\ r \in Nat
  OBVIOUS
<1>2. \A i \in 1..n : share[i] = d + (IF i <= r THEN 1 ELSE 0)
  BY DEF FairShare
<1> HIDE DEF share, d, r
<1> SUFFICES ASSUME Bad # {} PROVE FALSE
  BY DEF share, d, r
<1>3. Bad \subseteq Nat
  OBVIOUS
<1>4. PICK k \in Bad : \A j \in Bad : k <= j
  BY <1>3, LeastNat
<1>5. k \in 0..n /\ SumOf(share, 1..k) # k * d + Smaller(k, r)
  OBVIOUS
<1>6. CASE k = 0
  <2>1. 1..k = {} /\ k * d + Smaller(k, r) = 0
    BY <1>1, <1>6 DEF Smaller
  <2> QED
    BY <1>5, <2>1, SumOfNone
<1>7. CASE k > 0
  <2> DEFINE j == k - 1
  <2>1. j \in 0..n /\ j \notin Bad
    BY <1>4, <1>5, <1>7
  <2>2. SumOf(share, 1..j) = j * d + Smaller(j, r)
    BY <2>1
  <2>3. 1..k = (1..j) \cup {k} /\ k \notin 1..j /\ k \in 1..n
    BY <1>5, <1>7
  <2>4. share[k] \in Nat /\ \A i \in 1..j : share[i] \in Nat
    BY <1>1, <1>2, <1>5, <1>7
  <2>5. IsFiniteSet(1..j)
    BY <2>1, FS_Interval
  <2>6. SumOf(share, (1..j) \cup {k}) = share[k] + SumOf(share, 1..j)
    BY <2>3, <2>4, <2>5, SumOfOneMore
  <2>7. k * d = j * d + d
    BY <1>1, <1>5
  <2>8. Smaller(k, r) = Smaller(j, r) + (IF k <= r THEN 1 ELSE 0)
    BY <1>1, <1>5, <1>7 DEF Smaller
  <2>9. j * d \in Nat /\ Smaller(j, r) \in Nat
    BY <1>1, <2>1 DEF Smaller
  <2>10. SumOf(share, 1..k) = share[k] + SumOf(share, 1..j)
    BY <2>3, <2>6
  <2>11. share[k] = d + (IF k <= r THEN 1 ELSE 0)
    BY <1>2, <2>3
  <2> HIDE DEF j
  <2>12. SumOf(share, 1..k) = (d + (IF k <= r THEN 1 ELSE 0)) + (j * d + Smaller(j, r))
    BY <2>2, <2>10, <2>11
  <2> DEFINE x == j * d
             y == k * d
             e == IF k <= r THEN 1 ELSE 0
  <2>13. x \in Nat /\ y = x + d /\ e \in Nat
    BY <1>1, <2>7, <2>9
  <2>14. Smaller(k, r) = Smaller(j, r) + e /\ SumOf(share, 1..k) = (d + e) + (x + Smaller(j, r))
         /\ SumOf(share, 1..k) # y + Smaller(k, r)
    BY <1>5, <2>8, <2>12
  <2>15. Smaller(j, r) \in Nat
    BY <2>9
  <2> HIDE DEF x, y, e
  <2>16. (d + e) + (x + Smaller(j, r)) = (x + d) + (Smaller(j, r) + e)
    BY ONLY <1>1, <2>13, <2>15
  <2> QED
    BY <2>13, <2>14, <2>16
<1> QED
  BY <1>5, <1>6, <1>7

\* fair_share gives away all of the bytes, to any number of sessions.
LEMMA FairShareAddsUp ==
    ASSUME NEW a \in Nat, NEW n \in Nat \ {0}
    PROVE  /\ ShareSum(FairShare(a, n)) = a
           /\ \A i, j \in DOMAIN FairShare(a, n) : FairShare(a, n)[i] - FairShare(a, n)[j] \in -1..1
<1>1. DOMAIN FairShare(a, n) = 1..n
  BY DEF FairShare
<1>2. FoldSeq(+, 0, FairShare(a, n)) = SumOf(FairShare(a, n), DOMAIN FairShare(a, n))
  BY DEF FoldSeq, FoldFunction, FoldFunctionOnSet, MapThenFoldSet, SumOf, SumsOf, Pick
<1>3. SumOf(FairShare(a, n), 1..n) = n * (a \div n) + Smaller(n, a % n)
  <2>1. n \in 0..n
    OBVIOUS
  <2>2. \A k \in 0..n : SumOf(FairShare(a, n), 1..k) = k * (a \div n) + Smaller(k, a % n)
    BY FirstSharesAddUp
  <2> QED
    BY <2>1, <2>2, Zenon
<1>4. a % n \in 0..(n - 1) /\ a = n * (a \div n) + (a % n) /\ a \div n \in Nat
  OBVIOUS
<1>5. Smaller(n, a % n) = a % n
  BY <1>4 DEF Smaller
<1>6. FoldSeq(+, 0, FairShare(a, n)) = n * (a \div n) + (a % n)
  BY <1>1, <1>2, <1>3, <1>5, Zenon
<1>7. \A i \in 1..n : FairShare(a, n)[i] = a \div n + (IF i <= a % n THEN 1 ELSE 0)
  BY DEF FairShare
<1>8. \A i, j \in 1..n : FairShare(a, n)[i] - FairShare(a, n)[j] \in -1..1
  BY <1>4, <1>7
<1>9. FoldSeq(+, 0, FairShare(a, n)) = a
  BY <1>4, <1>6, Zenon
<1> QED
  BY <1>1, <1>8, <1>9, Zenon DEF ShareSum

LEMMA WorkersPlanFits ==
    ASSUME NEW w \in Workers
    PROVE  LET a == PlanWorkers(w)
           IN  /\ a.threads \in 1..Larger(1, w.logical)
               /\ a.oversubscribed => \E m \in w.measured : m.stable /\ m.threads >= a.threads
<1> DEFINE Measured == [threads : 1..4, speed : 1..2, stable : BOOLEAN]
           cores == IF w.physical > 0 THEN w.physical ELSE w.logical
           stable == {m \in w.measured : m.stable}
           fastest == {m \in stable : \A n \in stable : n.speed <= m.speed}
           threads == IF stable = {} THEN Smaller(cores, w.logical)
                      ELSE Min({m.threads : m \in fastest})
           n == Larger(1, Smaller(threads, w.logical))
<1>1. w.logical \in 0..3 /\ w.physical \in 0..3 /\ w.measured \subseteq Measured
  BY DEF Workers, kSubset
<1>2. cores \in Nat /\ (w.logical >= 1 => cores >= 1)
  BY <1>1
<1>3. stable # {} => \E m \in stable : m.threads = threads
  <2> SUFFICES ASSUME stable # {} PROVE \E m \in stable : m.threads = threads
    OBVIOUS
  <2>1. fastest # {}
    <3>1. CASE \E m \in stable : m.speed = 2
      BY <1>1, <3>1
    <3>2. CASE \A m \in stable : m.speed # 2
      BY <1>1, <3>2
    <3> QED
      BY <3>1, <3>2
  <2> DEFINE T == {m.threads : m \in fastest}
  <2>2. T \subseteq Nat /\ T # {}
    BY <1>1, <2>1
  <2>3. \E x \in T : \A y \in T : x <= y
    BY <2>2, LeastNat
  <2>4. Min(T) \in T
    BY <2>3 DEF Min
  <2> QED
    BY <2>4
<1>4. threads \in Nat /\ (stable = {} => threads <= cores)
  <2>1. CASE stable = {}
    BY <1>1, <1>2, <2>1 DEF Smaller
  <2>2. CASE stable # {}
    BY <1>1, <1>3, <2>2
  <2> QED
    BY <2>1, <2>2
<1>5. CASE w.logical < 1
  <2>1. PlanWorkers(w) = [threads |-> 1, oversubscribed |-> FALSE]
    BY <1>5 DEF PlanWorkers
  <2> QED
    BY <1>1, <1>5, <2>1 DEF Larger
<1>6. CASE ~ (w.logical < 1)
  <2>1. PlanWorkers(w) = [threads |-> n, oversubscribed |-> n > cores]
    BY <1>6 DEF PlanWorkers
  <2> HIDE DEF threads, cores
  <2>2. n \in 1..Larger(1, w.logical) /\ (threads >= 1 => n <= threads)
    BY <1>1, <1>4, <1>6 DEF Larger, Smaller
  <2>3. ASSUME n > cores
        PROVE  \E m \in w.measured : m.stable /\ m.threads >= n
    <3>1. stable # {}
      BY <1>1, <1>2, <1>4, <1>6, <2>3 DEF Larger, Smaller
    <3>2. PICK m \in stable : m.threads = threads
      BY <1>3, <3>1
    <3>3. m \in w.measured /\ m.stable /\ m.threads \in 1..4
      BY <1>1
    <3> QED
      BY <2>2, <3>2, <3>3
  <2> HIDE DEF n
  <2>4. CASE n > cores
    <3>1. PlanWorkers(w) = [threads |-> n, oversubscribed |-> TRUE]
      BY <2>1, <2>4
    <3> QED
      BY <2>2, <2>3, <2>4, <3>1
  <2>5. CASE ~ (n > cores)
    <3>1. (n > cores) = FALSE
      BY <2>5
    <3>2. PlanWorkers(w) = [threads |-> n, oversubscribed |-> FALSE]
      BY <2>1, <3>1
    <3> QED
      BY <2>2, <3>2
  <2> QED
    BY <2>4, <2>5
<1> QED
  BY <1>1, <1>5, <1>6

(***************************************************************************)
(* The loop of select_tiling, as the function that Shrunk chooses.  It     *)
(* exists because every round has a smaller sum of sides.                  *)
(***************************************************************************)

Sides == (1..RowHint) \X (1..ColHint)
Weight(x) == x[1] + x[2]
Fits(t, x) == (x[1] + x[2]) * t.inner <= t.budget \/ (x[1] = 1 /\ x[2] = 1)
Halved(x) == IF x[2] >= x[1] /\ x[2] > 1 THEN <<x[1], Larger(1, x[2] \div 2)>>
             ELSE <<Larger(1, x[1] \div 2), x[2]>>
Fitting(t, f, S) == f = [x \in S |-> IF Fits(t, x) THEN x ELSE f[Halved(x)]]

LEMMA ShrunkIsFitting ==
    ASSUME NEW t
    PROVE  Shrunk(t) = (CHOOSE f : Fitting(t, f, Sides))[<<Smaller(t.rows, RowHint), Smaller(t.columns, ColHint)>>]
BY DEF Shrunk, Fitting, Fits, Halved, Sides

LEMMA HalvingShrinks ==
    ASSUME NEW t, NEW x \in Sides, ~ Fits(t, x)
    PROVE  /\ Halved(x) \in Sides /\ Weight(Halved(x)) < Weight(x)
           /\ Halved(x)[1] <= x[1] /\ Halved(x)[2] <= x[2]
<1>1. PICK r \in 1..RowHint, c \in 1..ColHint : x = <<r, c>>
  BY DEF Sides
<1>2. r \in Nat /\ c \in Nat /\ r > 0 /\ c > 0 /\ ~ (r = 1 /\ c = 1)
  BY <1>1, PlacementAssumption DEF Fits
<1>3. CASE c >= r /\ c > 1
  <2> DEFINE h == Larger(1, c \div 2)
  <2>1. h \in 1..ColHint /\ h < c
    BY <1>1, <1>2, <1>3, PlacementAssumption DEF Larger
  <2>2. Halved(x) = <<r, h>>
    BY <1>1, <1>3 DEF Halved
  <2> HIDE DEF h
  <2> QED
    BY <1>1, <1>2, <2>1, <2>2, PlacementAssumption DEF Sides, Weight
<1>4. CASE ~ (c >= r /\ c > 1)
  <2> DEFINE h == Larger(1, r \div 2)
  <2>1. h \in 1..RowHint /\ h < r
    BY <1>1, <1>2, <1>4, PlacementAssumption DEF Larger
  <2>2. Halved(x) = <<h, c>>
    BY <1>1, <1>4 DEF Halved
  <2> HIDE DEF h
  <2> QED
    BY <1>1, <1>2, <2>1, <2>2, PlacementAssumption DEF Sides, Weight
<1> QED
  BY <1>3, <1>4

LEMMA WeightType == ASSUME NEW x \in Sides PROVE Weight(x) \in Nat /\ Weight(x) <= RowHint + ColHint
<1>1. PICK r \in 1..RowHint, c \in 1..ColHint : x = <<r, c>>
  BY DEF Sides
<1> QED
  BY <1>1, PlacementAssumption DEF Weight

LEMMA FittingExists == ASSUME NEW t PROVE \E f : Fitting(t, f, Sides)
<1> DEFINE Light(n) == {x \in Sides : Weight(x) <= n}
           Bad == {n \in Nat : ~ \E f : Fitting(t, f, Light(n))}
<1>1. Bad = {}
  <2> SUFFICES ASSUME Bad # {} PROVE FALSE
    OBVIOUS
  <2>1. PICK n \in Bad : \A k \in Bad : n <= k
    BY LeastNat
  <2>2. n \in Nat /\ ~ \E f : Fitting(t, f, Light(n))
    OBVIOUS
  <2>3. \E f : Fitting(t, f, Light(n - 1))
    <3>1. CASE n = 0
      <4>1. Light(n - 1) = {}
        BY <3>1, WeightType
      <4> HIDE DEF Light
      <4>2. Fitting(t, [x \in {} |-> x], {})
        BY DEF Fitting
      <4> QED
        BY <4>1, <4>2
    <3>2. CASE n > 0
      <4>1. n - 1 \in Nat /\ n - 1 \notin Bad
        BY <2>1, <2>2, <3>2
      <4> QED
        BY <4>1
    <3>3. n = 0 \/ n > 0
      BY <2>2
    <3> QED
      BY <3>1, <3>2, <3>3
  <2>4. PICK f : Fitting(t, f, Light(n - 1))
    BY <2>3
  <2> DEFINE g == [x \in Light(n) |-> IF Fits(t, x) THEN x ELSE f[Halved(x)]]
  <2>5. ASSUME NEW x \in Light(n), ~ Fits(t, x)
        PROVE  f[Halved(x)] = g[Halved(x)]
    <3>1. x \in Sides /\ Weight(x) <= n
      OBVIOUS
    <3>2. Halved(x) \in Sides /\ Weight(Halved(x)) < Weight(x)
      BY <2>5, <3>1, HalvingShrinks
    <3>3. Weight(x) \in Nat /\ Weight(Halved(x)) \in Nat
      BY <3>1, <3>2, WeightType
    <3>4. Halved(x) \in Light(n - 1) /\ Halved(x) \in Light(n)
      BY <2>2, <3>1, <3>2, <3>3
    <3> HIDE DEF Light
    <3> QED
      BY <2>4, <3>4 DEF Fitting
  <2> HIDE DEF Light
  <2>6. g = [x \in Light(n) |-> IF Fits(t, x) THEN x ELSE g[Halved(x)]]
    BY <2>5
  <2> QED
    BY <2>2, <2>6 DEF Fitting
<1>2. RowHint + ColHint \in Nat
  BY PlacementAssumption
<1>3. Light(RowHint + ColHint) = Sides
  BY WeightType
<1>4. \E f : Fitting(t, f, Light(RowHint + ColHint))
  BY <1>1, <1>2
<1> HIDE DEF Light
<1> QED
  BY <1>3, <1>4

\* Where the loop stops, the tiles fit or are one by one, and no side grew.
LEMMA FittingFits ==
    ASSUME NEW t, NEW f, Fitting(t, f, Sides)
    PROVE  \A x \in Sides : /\ f[x] \in Sides /\ Fits(t, f[x])
                            /\ f[x][1] <= x[1] /\ f[x][2] <= x[2]
<1> DEFINE Good(x) == f[x] \in Sides /\ Fits(t, f[x]) /\ f[x][1] <= x[1] /\ f[x][2] <= x[2]
           Bad == {Weight(x) : x \in {y \in Sides : ~ Good(y)}}
<1>1. \A x \in Sides : f[x] = IF Fits(t, x) THEN x ELSE f[Halved(x)]
  BY DEF Fitting
<1>2. \A x \in Sides : x[1] \in Nat /\ x[2] \in Nat
  BY PlacementAssumption DEF Sides
<1> HIDE DEF Good
<1>3. Bad = {}
  <2> SUFFICES ASSUME Bad # {} PROVE FALSE
    OBVIOUS
  <2>1. Bad \subseteq Nat
    BY WeightType
  <2>2. PICK n \in Bad : \A k \in Bad : n <= k
    BY <2>1, LeastNat
  <2>3. PICK x \in Sides : ~ Good(x) /\ n = Weight(x)
    OBVIOUS
  <2>4. CASE Fits(t, x)
    BY <1>1, <1>2, <2>3, <2>4 DEF Good
  <2>5. CASE ~ Fits(t, x)
    <3>1. /\ Halved(x) \in Sides /\ Weight(Halved(x)) < Weight(x)
          /\ Halved(x)[1] <= x[1] /\ Halved(x)[2] <= x[2]
      BY <2>5, HalvingShrinks
    <3>2. Weight(x) \in Nat /\ Weight(Halved(x)) \in Nat
      BY <3>1, WeightType
    <3>3. Good(Halved(x))
      <4> SUFFICES ASSUME ~ Good(Halved(x)) PROVE FALSE
        OBVIOUS
      <4>1. Weight(Halved(x)) \in Bad
        BY <3>1
      <4> QED
        BY <2>2, <2>3, <3>1, <3>2, <4>1
    <3>4. f[x] = f[Halved(x)]
      BY <1>1, <2>5
    <3> QED
      BY <1>2, <2>3, <3>1, <3>3, <3>4 DEF Good
  <2> QED
    BY <2>4, <2>5
<1>4. \A x \in Sides : Good(x)
  BY <1>3
<1> QED
  BY <1>4 DEF Good

LEMMA TilingFits ==
    ASSUME NEW t \in Tiling
    PROVE  LET a == SelectTiling(t)
           IN  /\ a.scratch <= t.budget \/ (a.rows = 1 /\ a.columns = 1)
               /\ a.enabled => a.scratch <= t.budget
               /\ a.rows \in 1..t.rows /\ a.columns \in 1..t.columns
<1> DEFINE f == CHOOSE g : Fitting(t, g, Sides)
           start == <<Smaller(t.rows, RowHint), Smaller(t.columns, ColHint)>>
           x == f[start]
           scratch == (x[1] + x[2]) * t.inner
<1>1. t.rows \in 1..4 /\ t.columns \in 1..8 /\ t.budget \in 1..20 /\ t.inner \in 1..3
  BY DEF Tiling
<1>2. start \in Sides /\ start[1] <= t.rows /\ start[2] <= t.columns
  BY <1>1, PlacementAssumption DEF Sides, Smaller
<1>3. Fitting(t, f, Sides)
  BY FittingExists
<1>4. Shrunk(t) = x
  BY ShrunkIsFitting
<1> HIDE DEF f, start
<1>5. x \in Sides /\ Fits(t, x) /\ x[1] <= start[1] /\ x[2] <= start[2]
  BY <1>2, <1>3, FittingFits
<1> HIDE DEF x
<1>6. SelectTiling(t) = [rows |-> x[1], columns |-> x[2], scratch |-> scratch,
                         enabled |-> t.measured = "fast" /\ ~ t.regressed /\ scratch <= t.budget]
  BY <1>4 DEF SelectTiling
<1>7. scratch <= t.budget \/ (x[1] = 1 /\ x[2] = 1)
  BY <1>5 DEF Fits
<1>8. x[1] \in Nat /\ x[2] \in Nat /\ x[1] >= 1 /\ x[2] >= 1
      /\ start[1] \in Nat /\ start[2] \in Nat
  BY <1>2, <1>5, PlacementAssumption DEF Sides
<1>9. x[1] \in 1..t.rows /\ x[2] \in 1..t.columns
  BY <1>1, <1>2, <1>5, <1>8
<1> HIDE DEF scratch
<1>10. /\ SelectTiling(t).scratch = scratch
       /\ SelectTiling(t).rows = x[1] /\ SelectTiling(t).columns = x[2]
  BY <1>6
<1>11. SelectTiling(t).enabled => scratch <= t.budget
  <2>1. CASE scratch <= t.budget
    BY <2>1
  <2>2. CASE ~ (scratch <= t.budget)
    <3>1. (t.measured = "fast" /\ ~ t.regressed /\ scratch <= t.budget) = FALSE
      BY <2>2
    <3>2. SelectTiling(t) = [rows |-> x[1], columns |-> x[2], scratch |-> scratch, enabled |-> FALSE]
      BY <1>6, <3>1
    <3> QED
      BY <3>2
  <2> QED
    BY <2>1, <2>2
<1> QED
  BY <1>7, <1>9, <1>10, <1>11

(***************************************************************************)
(* A set of requests from distinct sessions can be put in order: a         *)
(* smallest set that cannot has a last element, and what is left of it has *)
(* an order to which that element is appended.                             *)
(***************************************************************************)

Distinct(R) == R \subseteq BatchRequest /\ \A x, y \in R : x.id = y.id => x = y
Rank(x) == 4 * x.priority + (3 - x.id)

LEMMA BeforeIsRank ==
    ASSUME NEW x \in BatchRequest, NEW y \in BatchRequest
    PROVE  /\ Rank(x) \in Nat
           /\ Before(y, x) <=> Rank(y) > Rank(x)
           /\ Rank(x) = Rank(y) => x.id = y.id
<1>1. x.id \in {1, 2, 3} /\ y.id \in {1, 2, 3} /\ x.priority \in 0..1 /\ y.priority \in 0..1
  BY DEF BatchRequest
<1> QED
  BY <1>1 DEF Rank, Before

LEMMA LastExists ==
    ASSUME NEW R, Distinct(R), R # {}
    PROVE  \E x \in R : \A y \in R \ {x} : Before(y, x)
<1> DEFINE T == {Rank(x) : x \in R}
<1>1. R \subseteq BatchRequest
  BY DEF Distinct
<1>2. T \subseteq Nat /\ T # {}
  BY <1>1, BeforeIsRank
<1>3. PICK n \in T : \A k \in T : n <= k
  BY <1>2, LeastNat
<1>4. PICK x \in R : Rank(x) = n
  BY <1>3
<1>5. ASSUME NEW y \in R \ {x} PROVE Before(y, x)
  <2>1. Rank(x) <= Rank(y)
    BY <1>3, <1>4
  <2>2. Rank(x) # Rank(y)
    BY <1>1, BeforeIsRank DEF Distinct
  <2>3. Rank(x) \in Nat /\ Rank(y) \in Nat /\ (Before(y, x) <=> Rank(y) > Rank(x))
    BY <1>1, BeforeIsRank
  <2> QED
    BY <2>1, <2>2, <2>3
<1> QED
  BY <1>5

LEMMA OrderExists ==
    ASSUME NEW R, Distinct(R), IsFiniteSet(R)
    PROVE  \E q \in [1..Cardinality(R) -> R] : Sorted(q, R)
<1> DEFINE Has(s) == \E q \in [1..Cardinality(s) -> s] : Sorted(q, s)
           B == {s \in SUBSET R : ~ Has(s)}
<1> SUFFICES ASSUME B # {} PROVE FALSE
  OBVIOUS
<1>1. PICK s \in B : \A x \in s : s \ {x} \notin B
  BY SmallestSet
<1>2. s \subseteq R /\ ~ Has(s) /\ \A x \in s : Has(s \ {x})
  BY <1>1
<1>3. IsFiniteSet(s) /\ Cardinality(s) \in Nat /\ Distinct(s)
  BY <1>2, FS_Subset, FS_CardinalityType DEF Distinct
<1> HIDE DEF B
<1>4. CASE s = {}
  <2>1. Cardinality(s) = 0
    BY <1>4, FS_EmptySet
  <2>2. 1..0 = {}
    OBVIOUS
  <2> DEFINE q == [i \in {} |-> i]
  <2>3. q \in [1..Cardinality(s) -> s]
    BY <1>4, <2>1, <2>2
  <2>4. Sorted(q, s)
    BY <1>4 DEF Sorted, ToSet
  <2> QED
    BY <1>2, <2>3, <2>4
<1>5. CASE s # {}
  <2>1. PICK x \in s : \A y \in s \ {x} : Before(y, x)
    BY <1>3, <1>5, LastExists
  <2> DEFINE n == Cardinality(s)
  <2>2. n \in Nat /\ Cardinality(s \ {x}) = n - 1 /\ n - 1 \in Nat
    <3>1. IsFiniteSet(s \ {x}) /\ Cardinality(s \ {x}) = n - 1
      BY <1>3, <2>1, FS_RemoveElement
    <3>2. Cardinality(s \ {x}) \in Nat
      BY <3>1, FS_CardinalityType
    <3> QED
      BY <1>3, <3>1, <3>2
  <2>3. PICK p \in [1..(n - 1) -> s \ {x}] : Sorted(p, s \ {x})
    BY <1>2, <2>1, <2>2
  <2> HIDE DEF n
  <2> DEFINE q == [i \in 1..n |-> IF i = n THEN x ELSE p[i]]
  <2>4. \A i \in 1..n : i # n => i \in 1..(n - 1) /\ p[i] \in s \ {x} /\ q[i] = p[i]
    BY <2>2, <2>3
  <2>5. n \in 1..n /\ q[n] = x /\ DOMAIN q = 1..n
    BY <2>2
  <2>6. q \in [1..n -> s]
    BY <2>1, <2>4
  <2>7. ToSet(q) = s
    <3>1. ASSUME NEW y \in s PROVE \E i \in 1..n : q[i] = y
      <4>1. CASE y = x
        BY <2>5, <4>1
      <4>2. CASE y # x
        <5>1. PICK i \in 1..(n - 1) : p[i] = y
          BY <2>3, <4>2 DEF Sorted, ToSet
        <5>2. i \in 1..n /\ i # n
          BY <2>2, <5>1
        <5> QED
          BY <2>4, <5>1, <5>2
      <4> QED
        BY <4>1, <4>2
    <3> QED
      BY <2>5, <2>6, <3>1 DEF ToSet
  <2>8. ASSUME NEW i \in 1..n, NEW j \in 1..n, i < j PROVE Before(q[i], q[j])
    <3>1. i # n
      BY <2>2, <2>8
    <3>2. CASE j = n
      BY <2>1, <2>4, <2>5, <3>1, <3>2
    <3>3. CASE j # n
      <4>1. Before(p[i], p[j])
        BY <2>3, <2>4, <2>8, <3>1, <3>3 DEF Sorted
      <4> QED
        BY <2>4, <3>1, <3>3, <4>1
    <3> QED
      BY <3>2, <3>3
  <2>9. Sorted(q, s)
    BY <2>5, <2>7, <2>8 DEF Sorted
  <2> QED
    BY <1>2, <2>6, <2>9 DEF n
<1> QED
  BY <1>4, <1>5

LEMMA InOrderIsSorted ==
    ASSUME NEW R, Distinct(R), IsFiniteSet(R)
    PROVE  /\ InOrder(R) \in [1..Cardinality(R) -> R] /\ Sorted(InOrder(R), R)
           /\ Len(InOrder(R)) = Cardinality(R) /\ Cardinality(R) \in Nat
<1>1. InOrder(R) \in [1..Cardinality(R) -> R] /\ Sorted(InOrder(R), R)
  BY OrderExists DEF InOrder
<1>2. Cardinality(R) \in Nat
  BY FS_CardinalityType
<1> QED
  BY <1>1, <1>2

LEMMA BatchType ==
    ASSUME NEW b \in Batches
    PROVE  /\ b.size \in 1..2 /\ b.gain \in BOOLEAN
           /\ DOMAIN b.requests = 1..Len(b.requests) /\ Len(b.requests) \in Nat
           /\ \A i \in DOMAIN b.requests : b.requests[i] \in BatchRequest
           /\ \A i, j \in DOMAIN b.requests : b.requests[i].id = b.requests[j].id => i = j
           /\ Distinct(ToSet(b.requests)) /\ IsFiniteSet(ToSet(b.requests))
<1> DEFINE q == b.requests
<1>1. b.size \in 1..2 /\ b.gain \in BOOLEAN /\ q \in SeqOf(BatchRequest, 3)
      /\ IsInjective([i \in DOMAIN q |-> q[i].id])
  BY DEF Batches
<1> HIDE DEF q
<1>2. PICK m \in 0..3 : q \in [1..m -> BatchRequest]
  BY <1>1 DEF SeqOf
<1>3. m \in Nat /\ DOMAIN q = 1..m /\ Len(q) = m
  BY <1>2
<1>4. \A i, j \in DOMAIN q : q[i].id = q[j].id => i = j
  BY <1>1 DEF IsInjective
<1>5. Distinct(ToSet(q))
  BY <1>2, <1>4 DEF Distinct, ToSet
<1>6. IsFiniteSet(ToSet(q))
  <2>1. q \in Surjection(1..m, ToSet(q))
    BY <1>2 DEF Surjection, ToSet
  <2>2. IsFiniteSet(1..m)
    BY <1>3, FS_Interval
  <2> QED
    BY <2>1, <2>2, FS_Surjection
<1> QED
  BY <1>1, <1>2, <1>3, <1>4, <1>5, <1>6 DEF q

LEMMA OneModel ==
    ASSUME NEW b \in Batches, b.requests # <<>>,
           ~ (Cardinality({b.requests[i].model : i \in DOMAIN b.requests}) > 1)
    PROVE  \E m : \A i \in DOMAIN b.requests : b.requests[i].model = m
<1> DEFINE M == {b.requests[i].model : i \in DOMAIN b.requests}
<1>1. M \subseteq {"a", "b"}
  BY BatchType DEF BatchRequest
<1>2. IsFiniteSet({"a", "b"})
  <2>1. IsFiniteSet({"a"})
    BY FS_Singleton
  <2>2. IsFiniteSet({"a"} \cup {"b"})
    BY <2>1, FS_AddElement
  <2>3. {"a"} \cup {"b"} = {"a", "b"}
    OBVIOUS
  <2> QED
    BY <2>2, <2>3
<1>3. IsFiniteSet(M) /\ Cardinality(M) \in Nat
  BY <1>1, <1>2, FS_Subset, FS_CardinalityType
<1>4. ~ (Cardinality(M) > 1)
  OBVIOUS
<1>5. \A i \in DOMAIN b.requests : b.requests[i].model \in M
  OBVIOUS
<1> HIDE DEF M
<1>6. Cardinality(M) = 0 \/ Cardinality(M) = 1
  BY <1>3, <1>4
<1>7. M = {} \/ \E m : M = {m}
  BY <1>3, <1>6, FS_EmptySet, FS_Singleton
<1> QED
  BY <1>5, <1>7

LEMMA BatchFits ==
    ASSUME NEW b \in Batches, FormIsolatedBatch(b).enabled
    PROVE  Isolated(b, FormIsolatedBatch(b).ids)
<1> DEFINE R == ToSet(b.requests)
           ordered == InOrder(R)
           n == Smaller(b.size, Len(ordered))
           ids == [i \in 1..n |-> ordered[i].id]
           Places(id) == {j \in DOMAIN b.requests : b.requests[j].id = id}
           ModelOf(id) == {b.requests[i].model : i \in Places(id)}
           PriorityOf(id) == {b.requests[i].priority : i \in Places(id)}
           big == n > 1
<1>1. /\ b.requests # <<>> /\ b.gain
      /\ ~ (Cardinality({b.requests[i].model : i \in DOMAIN b.requests}) > 1)
  BY DEF FormIsolatedBatch
<1>2. FormIsolatedBatch(b) = [ids |-> ids, enabled |-> big]
  BY <1>1 DEF FormIsolatedBatch
<1>3. big /\ FormIsolatedBatch(b).ids = ids
  <2> HIDE DEF big, ids
  <2> QED
    BY <1>2
<1>4. /\ ordered \in [1..Cardinality(R) -> R] /\ Sorted(ordered, R)
      /\ Len(ordered) = Cardinality(R) /\ Cardinality(R) \in Nat
  BY BatchType, InOrderIsSorted
<1>5. PICK m : \A i \in DOMAIN b.requests : b.requests[i].model = m
  BY <1>1, OneModel
<1> HIDE DEF ordered
<1>6. n \in 2..b.size /\ n <= Cardinality(R) /\ n \in Nat
  BY <1>3, <1>4, BatchType DEF Smaller
<1> HIDE DEF n
<1>7. Len(ids) = n /\ DOMAIN ids = 1..n
  BY <1>6
<1>8. ASSUME NEW i \in 1..n
      PROVE  /\ i \in 1..Cardinality(R) /\ ordered[i] \in R /\ ids[i] = ordered[i].id
             /\ \E j \in DOMAIN b.requests : b.requests[j] = ordered[i] /\ Places(ids[i]) = {j}
  <2>1. i \in 1..Cardinality(R) /\ ordered[i] \in R /\ ids[i] = ordered[i].id
    BY <1>4, <1>6
  <2>2. PICK j \in DOMAIN b.requests : b.requests[j] = ordered[i]
    BY <2>1 DEF ToSet
  <2>3. Places(ids[i]) = {j}
    BY <2>1, <2>2, BatchType
  <2> QED
    BY <2>1, <2>2, <2>3
<1> HIDE DEF ids, Places
<1>9. \A i \in 1..n : ModelOf(ids[i]) = {m}
  BY <1>5, <1>8
<1>10. ASSUME NEW j \in DOMAIN b.requests, NEW i \in 1..n,
              \A k \in 1..n : ids[k] # b.requests[j].id
       PROVE  b.requests[j].priority <= Max(PriorityOf(ids[i]))
  <2>1. b.requests[j] \in R
    BY DEF ToSet
  <2>2. PICK k \in 1..Cardinality(R) : ordered[k] = b.requests[j]
    BY <1>4, <2>1 DEF Sorted, ToSet
  <2>3. ~ (k \in 1..n)
    BY <1>8, <1>10, <2>2
  <2>4. i < k /\ i \in 1..Cardinality(R)
    BY <1>4, <1>6, <1>8, <2>2, <2>3
  <2>5. Before(ordered[i], ordered[k])
    BY <1>4, <2>2, <2>4 DEF Sorted
  <2>6. PICK g \in DOMAIN b.requests : b.requests[g] = ordered[i] /\ Places(ids[i]) = {g}
    BY <1>8
  <2>7. ordered[i].priority \in Int /\ ordered[k].priority \in Int
    BY <2>2, <2>6, BatchType DEF BatchRequest
  <2>8. PriorityOf(ids[i]) = {ordered[i].priority}
    BY <2>6
  <2>9. Max({ordered[i].priority}) = ordered[i].priority
    BY <2>7 DEF Max
  <2>10. ordered[k].priority <= ordered[i].priority
    BY <2>5, <2>7 DEF Before
  <2> QED
    BY <2>2, <2>8, <2>9, <2>10
<1>11. \A i, j \in 1..n : ModelOf(ids[i]) = ModelOf(ids[j])
  BY <1>9
<1>12. /\ Len(ids) \in 2..b.size
       /\ \A i, j \in DOMAIN ids : ModelOf(ids[i]) = ModelOf(ids[j])
       /\ \A j \in DOMAIN b.requests, i \in DOMAIN ids :
             (\A k \in DOMAIN ids : ids[k] # b.requests[j].id)
                 => b.requests[j].priority <= Max(PriorityOf(ids[i]))
  BY <1>6, <1>7, <1>10, <1>11
<1>13. Isolated(b, ids)
  BY <1>12, Zenon DEF Isolated, Places
<1> QED
  BY <1>3, <1>13

\* What the planners accept can be done with the memory, the processors and
\* the cache that they were told of, and a batch is of one model and leaves
\* no session of a higher priority waiting (plan_residency, plan, fair_share,
\* plan_workers, select_tiling, form_isolated_batch), for any sizes,
\* reserves and tile hints.
THEOREM AcceptedPlansFit == PlacementSpec => []PlansFit
<1>1. ASSUME NEW kind, NEW question, NEW answer, Answer(kind, question, answer)
      PROVE  Q' = question /\ A' = answer /\ \A k : k # kind => ~ Asked(k)'
  BY <1>1 DEF Answer, Q, A, Asked
<1>2. /\ ~ Asked("residency")' => ResidencyFits'
      /\ ~ Asked("placement")' => PlacementFits'
      /\ ~ Asked("kv")' => KvFits'
      /\ ~ Asked("workers")' => WorkersFit'
      /\ ~ Asked("tiling")' => TilesFit'
  BY DEF ResidencyFits, PlacementFits, KvFits, WorkersFit, TilesFit
<1>3. /\ ~ Asked("share")' => SharesAddUp'
      /\ ~ Asked("batch")' => BatchIsIsolated'
      /\ ShareSum(A') = Q'[1] /\ (\A i, j \in DOMAIN A' : A'[i] - A'[j] \in -1..1) => SharesAddUp'
  BY DEF SharesAddUp, BatchIsIsolated
<1>4. PlacementInit => PlansFit
  <2> SUFFICES ASSUME PlacementInit PROVE PlansFit
    OBVIOUS
  <2>1. \A k : ~ Asked(k)
    BY DEF PlacementInit, Asked
  <2>2. ResidencyFits /\ PlacementFits /\ KvFits /\ WorkersFit /\ TilesFit
    BY <2>1 DEF ResidencyFits, PlacementFits, KvFits, WorkersFit, TilesFit
  <2>3. SharesAddUp /\ BatchIsIsolated
    BY <2>1 DEF SharesAddUp, BatchIsIsolated
  <2> QED
    BY <2>2, <2>3 DEF PlansFit
<1>5. PlansFit /\ [PlacementNext]_asked => PlansFit'
  <2> SUFFICES ASSUME PlansFit, [PlacementNext]_asked PROVE PlansFit'
    OBVIOUS
  <2>1. ASSUME NEW r \in Residency, Answer("residency", r, PlanResidency(r)) PROVE PlansFit'
    <3>1. Q' = r /\ A' = PlanResidency(r) /\ \A k : k # "residency" => ~ Asked(k)'
      BY <1>1, <2>1
    <3>2. ResidencyFits'
      BY <3>1, ResidencyPlanFits DEF ResidencyFits
    <3> QED
      BY <1>2, <1>3, <3>1, <3>2 DEF PlansFit
  <2>2. ASSUME NEW h \in Hardware, Answer("placement", h, PlanPlacement(h)) PROVE PlansFit'
    <3>1. Q' = h /\ A' = PlanPlacement(h) /\ \A k : k # "placement" => ~ Asked(k)'
      BY <1>1, <2>2
    <3>2. PlacementFits'
      BY <3>1, PlacementPlanFits DEF PlacementFits
    <3> QED
      BY <1>2, <1>3, <3>1, <3>2 DEF PlansFit
  <2>3. ASSUME NEW q \in KvRequest, q.minimum <= q.requested, Answer("kv", q, PlanKv(q))
        PROVE  PlansFit'
    <3>1. Q' = q /\ A' = PlanKv(q) /\ \A k : k # "kv" => ~ Asked(k)'
      BY <1>1, <2>3
    <3>2. KvFits'
      BY <2>3, <3>1, KvPlanFits DEF KvFits
    <3> QED
      BY <1>2, <1>3, <3>1, <3>2 DEF PlansFit
  <2>4. ASSUME NEW n \in 1..4, NEW a \in 0..9, Answer("share", <<a, n>>, FairShare(a, n))
        PROVE  PlansFit'
    <3>1. Q' = <<a, n>> /\ A' = FairShare(a, n) /\ \A k : k # "share" => ~ Asked(k)'
      BY <1>1, <2>4
    <3>2. a \in Nat /\ n \in Nat \ {0} /\ <<a, n>>[1] = a
      OBVIOUS
    <3>3. /\ ShareSum(FairShare(a, n)) = a
          /\ \A i, j \in DOMAIN FairShare(a, n) : FairShare(a, n)[i] - FairShare(a, n)[j] \in -1..1
      BY <3>2, FairShareAddsUp
    <3>4. SharesAddUp'
      BY <1>3, <3>1, <3>2, <3>3
    <3> QED
      BY <1>2, <1>3, <3>1, <3>4 DEF PlansFit
  <2>5. ASSUME NEW w \in Workers, Answer("workers", w, PlanWorkers(w)) PROVE PlansFit'
    <3>1. Q' = w /\ A' = PlanWorkers(w) /\ \A k : k # "workers" => ~ Asked(k)'
      BY <1>1, <2>5
    <3>2. WorkersFit'
      BY <3>1, WorkersPlanFits DEF WorkersFit
    <3> QED
      BY <1>2, <1>3, <3>1, <3>2 DEF PlansFit
  <2>6. ASSUME NEW t \in Tiling, Answer("tiling", t, SelectTiling(t)) PROVE PlansFit'
    <3>1. Q' = t /\ A' = SelectTiling(t) /\ \A k : k # "tiling" => ~ Asked(k)'
      BY <1>1, <2>6
    <3>2. TilesFit'
      BY <3>1, TilingFits DEF TilesFit
    <3> QED
      BY <1>2, <1>3, <3>1, <3>2 DEF PlansFit
  <2>7. ASSUME NEW b \in Batches, Answer("batch", b, FormIsolatedBatch(b)) PROVE PlansFit'
    <3>1. Q' = b /\ A' = FormIsolatedBatch(b) /\ \A k : k # "batch" => ~ Asked(k)'
      BY <1>1, <2>7
    <3>2. BatchIsIsolated'
      BY <3>1, BatchFits DEF BatchIsIsolated
    <3> QED
      BY <1>2, <1>3, <3>1, <3>2 DEF PlansFit
  <2>8. ASSUME NEW q, NEW a, Answer("admission", q, a) PROVE PlansFit'
    <3>1. \A k : k # "admission" => ~ Asked(k)'
      BY <1>1, <2>8
    <3> QED
      BY <1>2, <1>3, <3>1 DEF PlansFit
  <2>9. ASSUME UNCHANGED asked PROVE PlansFit'
    <3>1. Q' = Q /\ A' = A /\ \A k : Asked(k)' <=> Asked(k)
      BY <2>9 DEF Q, A, Asked
    <3>2. (ResidencyFits /\ PlacementFits /\ KvFits /\ WorkersFit /\ TilesFit)'
      BY <2>9 DEF PlansFit, ResidencyFits, PlacementFits, KvFits, WorkersFit, TilesFit, Q, A, Asked
    <3>3. (SharesAddUp => SharesAddUp') /\ (BatchIsIsolated => BatchIsIsolated')
      BY <2>9 DEF SharesAddUp, BatchIsIsolated, Q, A, Asked
    <3> QED
      BY <3>2, <3>3 DEF PlansFit
  <2> QED
    BY <2>1, <2>2, <2>3, <2>4, <2>5, <2>6, <2>7, <2>8, <2>9 DEF PlacementNext
<1> QED
  BY <1>4, <1>5, PTL DEF PlacementSpec

(***************************************************************************)
(* The types of the whole plane.  A step of one component leaves the       *)
(* variables of the others as they are, so the composition keeps each      *)
(* component's specification, and what was proved of it.                   *)
(***************************************************************************)
LEMMA PlaceType == PlacementSpec => []PlacementTypeOK
<1>1. PlacementInit => PlacementTypeOK
  BY DEF PlacementInit, PlacementTypeOK
<1>2. PlacementTypeOK /\ [PlacementNext]_asked => PlacementTypeOK'
  <2>1. ASSUME NEW kind, NEW q, NEW a, Answer(kind, q, a) PROVE asked'.kind = kind
    BY <2>1 DEF Answer
  <2>2. PlacementNext =>
          \E kind \in {"residency", "placement", "kv", "share", "workers", "tiling", "batch", "admission"} :
            \E q, a : Answer(kind, q, a)
    BY DEF PlacementNext
  <2>3. PlacementTypeOK /\ asked' = asked => PlacementTypeOK'
    BY DEF PlacementTypeOK
  <2>4. PlacementNext => PlacementTypeOK'
    BY <2>1, <2>2 DEF PlacementTypeOK
  <2> QED
    BY <2>3, <2>4
<1> QED
  BY <1>1, <1>2, PTL DEF PlacementSpec

LEMMA FacadeTypesOk == FacadeIInv => FacadeTypeOK
BY DEF FacadeIInv

LEMMA ManagerTypes == MgrIInv => MgrTypeOK
BY DEF MgrIInv

LEMMA AdmissionTypes == LeasesIInv /\ SessionsIInv => AdmissionTypeOK
BY DEF LeasesIInv, SessionsIInv, AdmissionTypeOK, LeaseType

LEMMA TuningTypes == TuningIInv => TuningTypeOK
<1> SUFFICES ASSUME TuningIInv PROVE TuningTypeOK
  OBVIOUS
<1>1. measured \in [Kernels -> Measure]
  BY DEF TuningIInv
<1>2. tuningFile # NoCacheFile => \A key \in DOMAIN tuningFile : tuningFile[key] \in Kernels
  BY DEF TuningIInv, SafeEntries
<1>3. ASSUME NEW p \in Tuners
      PROVE  tuner[p].at \in {"free", "store", "replace"} /\ plans[p].kernel \in Kernels \cup {"scalar"}
  BY DEF TuningIInv, SafeTuner, SafePlan, SafeChoice
<1> QED
  BY <1>1, <1>2, <1>3 DEF TuningTypeOK

\* The number of commands is bounded too.
LEMMA CaptureTypes == CaptureSpec => []CaptureTypeOK
<1> DEFINE Few == issued \in 0..MaxCommands
<1>1. CaptureInit => Few
  BY CaptureAssumption DEF CaptureInit
<1>2. Few /\ [CaptureNext]_captureVars => Few'
  <2> SUFFICES ASSUME Few, [CaptureNext]_captureVars PROVE Few'
    OBVIOUS
  <2>1. issued' = issued \/ (issued < MaxCommands /\ issued' = issued + 1)
    BY DEF CaptureNext, captureVars, Prepare, RunCase, EngineReturns, FinalizeSession,
       OpenTemporary, FillTemporary, ReplaceSession, Interrupt, Issue
  <2> QED
    BY <2>1, CaptureAssumption
<1>3. CaptureIInv /\ Few => CaptureTypeOK
  BY DEF CaptureIInv, GoodFile, GoodCommand, FillType, GoodSession, CaptureTypeOK
<1> HIDE DEF Few
<1> QED
  BY <1>1, <1>2, <1>3, CaptureInvariant, PTL DEF CaptureSpec

\* No more variants are done than there are, whatever step the runner is at.
LEMMA PplTypes == PplSpec => []PplTypeOK
<1> DEFINE Counted == harness # Rest => harness.done <= Len(harness.suite.variants)
           Ended == receiptFile # NoReceipt => receiptFile.status \in {"completed", "failed"}
<1>1. PplInit => Counted /\ Ended
  BY DEF PplInit
<1>2. PplIInv /\ Counted /\ Ended /\ [PplNext]_pplVars => Counted' /\ Ended'
  <2> SUFFICES ASSUME PplIInv, Counted, Ended, [PplNext]_pplVars PROVE Counted' /\ Ended'
    OBVIOUS
  <2>1. CASE UNCHANGED pplVars
    BY <2>1 DEF pplVars
  <2>2. CASE harness' = Rest
    <3>1. CASE receiptFile' = receiptFile
      BY <2>2, <3>1
    <3>2. CASE WriteReceiptFile
      <4>1. harness.status \in {"completed", "failed"} /\ receiptFile'.status = harness.status
        BY <3>2 DEF WriteReceiptFile, PplIInv, Rest, HarnessType
      <4> QED
        BY <2>2, <4>1
    <3> QED
      BY <2>2, <3>1, <3>2 DEF PplNext, RunManifest, PreflightVariant, ExecuteVariant, CannotExecute,
         LeaveNoReceipt, pplVars
  <2>3. ASSUME NEW s \in Suites, RunManifest(s), harness' # Rest PROVE Counted' /\ Ended'
    <3>1. harness'.done = 0 /\ harness'.suite = s /\ receiptFile' = receiptFile
      BY <2>3 DEF RunManifest
    <3>2. 0 <= Len(s.variants)
      BY SuiteType
    <3> QED
      BY <3>1, <3>2
  <2>4. ASSUME PreflightVariant \/ (\E exit \in 0..1, lines \in SeqOf(Rows, MaxLines) : ExecuteVariant(exit, lines))
               \/ CannotExecute
        PROVE  Counted' /\ Ended'
    <3>1. harness.at \in {"preflight", "score"} /\ receiptFile' = receiptFile
      BY <2>4 DEF PreflightVariant, ExecuteVariant, CannotExecute
    <3>2. harness \in HarnessType /\ harness.done < Len(harness.suite.variants)
      BY <3>1 DEF PplIInv, Progress, Rest
    <3>3. harness.done \in Nat /\ harness.suite \in Suites /\ Len(harness.suite.variants) \in Nat
      BY <3>2, SuiteType DEF HarnessType
    <3>4. /\ harness'.suite = harness.suite
          /\ harness'.done \in {0, harness.done, harness.done + 1}
      BY <2>4, <3>2 DEF PreflightVariant, ExecuteVariant, CannotExecute, HarnessType
    <3>5. harness'.done <= Len(harness'.suite.variants)
      BY <3>2, <3>3, <3>4
    <3> QED
      BY <3>1, <3>5
  <2> QED
    BY <2>1, <2>2, <2>3, <2>4 DEF PplNext, WriteReceiptFile, LeaveNoReceipt
<1>3. PplIInv /\ Counted /\ Ended => PplTypeOK
  <2> SUFFICES ASSUME PplIInv, Counted, Ended PROVE PplTypeOK
    OBVIOUS
  <2>1. harness = Rest => harness.at = "rest"
    BY DEF Rest
  <2>2. ASSUME harness # Rest
        PROVE  /\ harness.at \in {"preflight", "score", "write", "raise"}
               /\ WellFormed(harness.suite) /\ harness.done \in 0..Len(harness.suite.variants)
    <3>1. harness \in HarnessType
      BY <2>2 DEF PplIInv
    <3>2. /\ harness.at \in {"preflight", "score", "write", "raise"}
          /\ harness.suite \in Suites /\ harness.done \in Nat
      BY <3>1 DEF HarnessType
    <3>3. Len(harness.suite.variants) \in Nat
      BY <3>2, SuiteType
    <3> QED
      BY <2>2, <3>2, <3>3, PplAssumption
  <2> QED
    BY <2>1, <2>2 DEF PplTypeOK, Ids
<1> HIDE DEF Counted, Ended
<1> QED
  BY <1>1, <1>2, <1>3, PplInvariant, PTL DEF PplSpec

LEMMA FocusHolds ==
    /\ MCSpec => CompletionSpec /\ FacadeSpec /\ MgrSpec
    /\ MCSpec => AdmissionSpec /\ PlacementSpec /\ TuningSpec
    /\ MCSpec => CaptureSpec /\ PplSpec /\ BenchSpec
<1> DEFINE allVars == <<focus, replyVars, facadeVars, mgrVars, admissionVars, asked, tuningVars,
                        captureVars, pplVars, benchVars>>
<1>1. MCInit => /\ CompletionInit /\ FacadeInit /\ MgrInit /\ AdmissionInit /\ PlacementInit
                /\ TuningInit /\ CaptureInit /\ PplInit /\ BenchInit
  BY DEF MCInit
<1>2. [MCNext]_allVars => /\ [CompletionNext]_replyVars /\ [FacadeNext]_facadeVars /\ [MgrNext]_mgrVars
                          /\ [AdmissionNext]_admissionVars /\ [PlacementNext]_asked
                          /\ [TuningNext]_tuningVars /\ [CaptureNext]_captureVars
                          /\ [PplNext]_pplVars /\ [BenchNext]_benchVars
  BY DEF MCNext
<1>3. MCSpec => CompletionSpec /\ FacadeSpec /\ MgrSpec
  BY <1>1, <1>2, PTL DEF MCSpec, CompletionSpec, FacadeSpec, MgrSpec
<1>4. MCSpec => AdmissionSpec /\ PlacementSpec /\ TuningSpec
  BY <1>1, <1>2, PTL DEF MCSpec, AdmissionSpec, PlacementSpec, TuningSpec
<1>5. MCSpec => CaptureSpec /\ PplSpec /\ BenchSpec
  BY <1>1, <1>2, PTL DEF MCSpec, CaptureSpec, PplSpec, BenchSpec
<1> QED
  BY <1>3, <1>4, <1>5

\* What is kept of every request, server, lease, session, plan, measurement
\* and run of a harness has its type, for every value of the constants of all
\* nine components (MCPlane runs one of them at a time).
THEOREM PlaneTypesStay == MCSpec => []PlaneTypeOK
<1>1. CompletionSpec /\ FacadeSpec /\ MgrSpec => [](CompletionTypeOK /\ FacadeTypeOK /\ MgrTypeOK)
  BY AnswersStayFaithful, FacadeInvariant, FacadeTypesOk, MgrInvariant, ManagerTypes, PTL
<1>2. AdmissionSpec /\ PlacementSpec /\ TuningSpec => [](AdmissionTypeOK /\ PlacementTypeOK /\ TuningTypeOK)
  BY AdmissionInvariant, AdmissionTypes, PlaceType, TuningInvariant, TuningTypes, PTL
<1>3. CaptureSpec /\ PplSpec /\ BenchSpec => [](CaptureTypeOK /\ PplTypeOK /\ BenchTypeOK)
  BY CaptureTypes, PplTypes, BenchInvariant, BenchType, PTL
<1>4. (/\ CompletionTypeOK /\ FacadeTypeOK /\ MgrTypeOK /\ AdmissionTypeOK /\ PlacementTypeOK
       /\ TuningTypeOK /\ CaptureTypeOK /\ PplTypeOK /\ BenchTypeOK) => PlaneTypeOK
  BY DEF PlaneTypeOK
<1> QED
  BY <1>1, <1>2, <1>3, <1>4, FocusHolds, PTL
=============================================================================
