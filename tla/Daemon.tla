------------------------------- MODULE Daemon -------------------------------
(***************************************************************************)
(* The local inference daemon (local_data_plane/daemon.py) with its        *)
(* runtime bridge (runtime_bridge.py) and the llama-server processes it    *)
(* starts (llama_cpp.py).                                                  *)
(*                                                                         *)
(* serve() reads request frames from stdin and starts a thread for each.   *)
(* A thread runs handle() under one re-entrant lock, which it keeps for    *)
(* the whole of a load or a generation, and writes its answer after it has *)
(* released the lock.  After a shutdown frame, the end of stdin or a       *)
(* malformed frame, serve() waits some seconds for the threads and the     *)
(* process ends, with whatever threads and servers are left.               *)
(***************************************************************************)
EXTENDS Naturals, FiniteSets

CONSTANTS Requests,   \* request frames, each with an id of its own
          Handles,    \* model handle ids
          Keys,       \* idempotency keys of runtime requests
          Digests,    \* what a runtime request may contain
          None        \* none of the above

Answers == {"ok", "idempotent", "replayed", "unknown", "draining", "cancelled", "failed",
            "internal", "conflict", "expired", "start_failed"}

ASSUME DaemonAssumption ==
    /\ None \notin Requests \cup Answers
    /\ None \notin [digest : Digests, answer : Answers]
    /\ None \notin [backend : {"fixture", "llama"}, server : Requests \cup {None}]

VARIABLES
    pc,         \* where the thread of each request is
    asked,      \* the request each frame carries, or None
    answer,     \* what the thread answers
    lock,       \* the thread inside handle(), or None
    state,      \* InferenceDaemon.state
    draining,   \* InferenceDaemon.draining
    handles,    \* InferenceDaemon.handles: [backend, server] or None
    server,     \* the llama-server each load request started
    inflight,   \* InferenceDaemon._cancelled: registered generations
    flagged,    \* those whose event is set
    replays,    \* RuntimeInferenceBridge._replays: [digest, answer] or None
    phase,      \* serve(): reading frames, joining threads, or exited
    produced,   \* the requests that had a physical generation for each key
    intime,     \* cancel frames that arrived while their target was generating
    late        \* loads that started a server after shutdown had been handled

vars == <<pc, asked, answer, lock, state, draining, handles, server, inflight, flagged,
          replays, phase, produced, intime, late>>
lifecycle == <<state, draining>>
models == <<handles, server>>
generations == <<inflight, flagged, replays, produced>>
history == <<asked, intime, late>>

Simple == [method : {"handshake", "drain", "shutdown"}]
LoadRequests == [method : {"load"}, handle : Handles, backend : {"fixture", "llama"}]
GenerateRequests == [method : {"generate"}, handle : Handles]
RuntimeRequests == [method : {"runtime_generate"}, handle : Handles, key : Keys, digest : Digests]
UnloadRequests == [method : {"unload"}, handle : Handles]
CancelRequests == [method : {"cancel"}, target : Requests]
Frames == UNION {Simple, LoadRequests, GenerateRequests, RuntimeRequests, UnloadRequests,
                 CancelRequests}

Init ==
    /\ pc = [r \in Requests |-> "unsent"]
    /\ asked = [r \in Requests |-> None]
    /\ answer = [r \in Requests |-> None]
    /\ lock = None
    /\ state = "cold"
    /\ draining = FALSE
    /\ handles = [h \in Handles |-> None]
    /\ server = [r \in Requests |-> "none"]
    /\ inflight = {}
    /\ flagged = {}
    /\ replays = [k \in Keys |-> None]
    /\ phase = "reading"
    /\ produced = [k \in Keys |-> {}]
    /\ intime = {}
    /\ late = {}

-----------------------------------------------------------------------------
(* serve().                                                                *)

Generating == {r \in Requests : pc[r] = "generating"}

\* A frame is read and its thread started; a shutdown frame is the last one.
Receive(r, frame) ==
    /\ phase = "reading" /\ pc[r] = "unsent"
    /\ pc' = [pc EXCEPT ![r] = "started"]
    /\ asked' = [asked EXCEPT ![r] = frame]
    /\ intime' = intime \cup {c \in {r} : frame.method = "cancel" /\ frame.target \in Generating}
    /\ phase' = IF frame.method = "shutdown" THEN "joining" ELSE phase
    /\ UNCHANGED <<answer, lock, lifecycle, models, generations, late>>

\* stdin is at its end, or a frame is malformed.
EndOfFrames ==
    /\ phase = "reading"
    /\ phase' = "joining"
    /\ UNCHANGED <<pc, lock, answer, lifecycle, models, generations, history>>

\* All threads have ended, or the joins have timed out; the threads are daemon
\* threads and the servers are left to themselves.
Exit ==
    /\ phase = "joining"
    /\ phase' = "exited"
    /\ UNCHANGED <<pc, lock, answer, lifecycle, models, generations, history>>

-----------------------------------------------------------------------------
(* handle(): the methods that take one step under the lock.                *)

\* The thread r enters handle() with a request of this method.
Enters(r, method) ==
    pc[r] = "started" /\ lock = None /\ asked[r].method = method

Reply(r, what) ==
    /\ pc' = [pc EXCEPT ![r] = "writing"]
    /\ answer' = [answer EXCEPT ![r] = what]

Handshake(r) ==
    /\ Enters(r, "handshake")
    /\ Reply(r, "ok")
    /\ state' = "ready"
    /\ UNCHANGED <<lock, draining, models, generations, phase, history>>

Drain(r) ==
    /\ Enters(r, "drain")
    /\ Reply(r, "ok")
    /\ draining' = TRUE
    /\ state' = "draining"
    /\ UNCHANGED <<lock, models, generations, phase, history>>

\* Mutant: cancel does not wait for the lock.
CancelWithoutLock(r) ==
    /\ pc[r] = "started" /\ asked[r].method = "cancel"
    /\ LET target == asked[r].target
       IN /\ Reply(r, IF target \in inflight THEN "ok" ELSE "unknown")
          /\ flagged' = flagged \cup ({target} \cap inflight)
    /\ UNCHANGED <<lock, lifecycle, models, inflight, replays, produced, phase, history>>

\* Mutant: a cancel for a request that is not generating is kept for later.
CancelKept(r) ==
    /\ Enters(r, "cancel")
    /\ Reply(r, "ok")
    /\ flagged' = flagged \cup {asked[r].target}
    /\ UNCHANGED <<lock, lifecycle, models, inflight, replays, produced, phase, history>>

\* The generation is cancelled if it is registered when cancel is handled.
Cancel(r) ==
    /\ Enters(r, "cancel")
    /\ LET target == asked[r].target
       IN /\ Reply(r, IF target \in inflight THEN "ok" ELSE "unknown")
          /\ flagged' = flagged \cup ({target} \cap inflight)
    /\ UNCHANGED <<lock, lifecycle, models, inflight, replays, produced, phase, history>>

ServersOf(hs) == {handles[h].server : h \in {g \in hs : handles[g] # None}}

\* LlamaCppProvider.stop for each of these handles.
StopServers(hs) ==
    server' = [r \in Requests |-> IF r \in ServersOf(hs) THEN "stopped" ELSE server[r]]

Unload(r) ==
    /\ Enters(r, "unload")
    /\ LET h == asked[r].handle
       IN /\ StopServers({h})
          /\ handles' = [handles EXCEPT ![h] = None]
          /\ Reply(r, IF handles[h] = None THEN "unknown" ELSE "ok")
    /\ UNCHANGED <<lock, lifecycle, generations, phase, history>>

\* The servers are stopped; their handles stay.
Shutdown(r) ==
    /\ Enters(r, "shutdown")
    /\ flagged' = flagged \cup inflight
    /\ StopServers(Handles)
    /\ state' = "stopped"
    /\ Reply(r, "ok")
    /\ UNCHANGED <<lock, draining, handles, inflight, replays, produced, phase, history>>

-----------------------------------------------------------------------------
(* load.                                                                   *)

LoadRefused(r) ==
    /\ Enters(r, "load")
    /\ draining \/ handles[asked[r].handle] # None
    /\ Reply(r, IF draining THEN "draining" ELSE "idempotent")
    /\ UNCHANGED <<lock, lifecycle, models, generations, phase, history>>

LoadFixture(r) ==
    /\ Enters(r, "load") /\ ~draining
    /\ asked[r].backend = "fixture" /\ handles[asked[r].handle] = None
    /\ handles' = [handles EXCEPT ![asked[r].handle] = [backend |-> "fixture", server |-> None]]
    /\ state' = "ready"
    /\ Reply(r, "ok")
    /\ UNCHANGED <<lock, draining, server, generations, phase, history>>

\* The shutdown frame has been handled.
ShutDown ==
    \E r \in Requests : pc[r] \in {"writing", "done"} /\ asked[r].method = "shutdown"

\* What a load that starts a server does besides taking the lock or not.
Spawn(r) ==
    /\ Enters(r, "load") /\ ~draining
    /\ asked[r].backend = "llama" /\ handles[asked[r].handle] = None
    /\ pc' = [pc EXCEPT ![r] = "loading"]
    /\ server' = [server EXCEPT ![r] = "up"]
    /\ late' = late \cup {c \in {r} : ShutDown}
    /\ UNCHANGED <<answer, lifecycle, handles, generations, phase, asked, intime>>

\* Mutant: a server is waited for without the lock.
LoadServerUnlocked(r) == Spawn(r) /\ UNCHANGED lock

\* start_server: Popen, then the wait for /health, all under the lock.
LoadServer(r) == Spawn(r) /\ lock' = r

LoadReady(r) ==
    /\ pc[r] = "loading" /\ server[r] = "up"
    /\ handles' = [handles EXCEPT ![asked[r].handle] = [backend |-> "llama", server |-> r]]
    /\ state' = "ready"
    /\ lock' = None
    /\ Reply(r, "ok")
    /\ UNCHANGED <<draining, server, generations, phase, history>>

\* Mutant: the failure leaves handle() without releasing the lock.
LoadFailedKeepsLock(r) ==
    /\ pc[r] = "loading"
    /\ server' = [server EXCEPT ![r] = "stopped"]
    /\ Reply(r, "start_failed")
    /\ UNCHANGED <<lock, lifecycle, handles, generations, phase, history>>

\* The server exited, or was not ready before the startup timeout.
LoadFailed(r) ==
    /\ pc[r] = "loading"
    /\ server' = [server EXCEPT ![r] = "stopped"]
    /\ lock' = None
    /\ Reply(r, "start_failed")
    /\ UNCHANGED <<lifecycle, handles, generations, phase, history>>

-----------------------------------------------------------------------------
(* generate, and runtime_generate around it: RuntimeInferenceBridge calls  *)
(* handle() again, under the same re-entrant lock.                         *)

Runtime(r) == asked[r].method = "runtime_generate"
Known(r) == Runtime(r) /\ replays[asked[r].key] # None
EntersGenerate(r) == Enters(r, "generate") \/ Enters(r, "runtime_generate")

\* The bridge keeps every terminal answer of handle(), failures included.
Remember(r, what) ==
    replays' = IF Runtime(r)
               THEN [replays EXCEPT ![asked[r].key] = [digest |-> asked[r].digest, answer |-> what]]
               ELSE replays

\* RuntimeRequestV2.parse comes before the replay is looked up.
Expired(r) ==
    /\ Enters(r, "runtime_generate")
    /\ Reply(r, "expired")
    /\ UNCHANGED <<lock, lifecycle, models, generations, phase, history>>

\* Mutant: the request that a key is reused with is not compared.
ReplayAnything(r) ==
    /\ Enters(r, "runtime_generate") /\ Known(r)
    /\ Reply(r, "replayed")
    /\ UNCHANGED <<lock, lifecycle, models, generations, phase, history>>

Replay(r) ==
    /\ Enters(r, "runtime_generate") /\ Known(r)
    /\ Reply(r, IF replays[asked[r].key].digest = asked[r].digest THEN "replayed" ELSE "conflict")
    /\ UNCHANGED <<lock, lifecycle, models, generations, phase, history>>

Model(r) == handles[asked[r].handle]
ServerDown(r) == Model(r).backend = "llama" /\ server[Model(r).server] # "up"

\* Mutant: a generation does not ask whether the daemon is draining.
AtOnceWhileDraining(r) ==
    IF Model(r) = None THEN "unknown" ELSE IF ServerDown(r) THEN "failed" ELSE None

\* The answer that needs no generation, if there is one.
AtOnce(r) ==
    IF Model(r) = None THEN "unknown"
    ELSE IF draining THEN "cancelled"
    ELSE IF ServerDown(r) THEN "failed"
    ELSE None

GenerateAtOnce(r) ==
    /\ EntersGenerate(r) /\ ~Known(r) /\ AtOnce(r) # None
    /\ Reply(r, AtOnce(r))
    /\ Remember(r, AtOnce(r))
    /\ UNCHANGED <<lock, lifecycle, models, inflight, flagged, produced, phase, history>>

\* Mutant: a key that was answered before does not keep from generating.
GenerateAgain(r) ==
    /\ EntersGenerate(r) /\ AtOnce(r) = None
    /\ pc' = [pc EXCEPT ![r] = "generating"]
    /\ lock' = r
    /\ inflight' = inflight \cup {r}
    /\ UNCHANGED <<answer, lifecycle, models, flagged, replays, produced, phase, history>>

GenerateBegin(r) ==
    /\ EntersGenerate(r) /\ ~Known(r) /\ AtOnce(r) = None
    /\ pc' = [pc EXCEPT ![r] = "generating"]
    /\ lock' = r
    /\ inflight' = inflight \cup {r}
    /\ UNCHANGED <<answer, lifecycle, models, flagged, replays, produced, phase, history>>

\* The finally clause.
GenerateEnd(r, what) ==
    /\ pc[r] = "generating"
    /\ Reply(r, what)
    /\ lock' = None
    /\ inflight' = inflight \ {r}
    /\ flagged' = flagged \ {r}
    /\ UNCHANGED <<lifecycle, models, phase, history>>

\* The loop of the fixture looks at the event and at draining; the call of the
\* llama-server is one request that fails or not.
Generated(r) ==
    /\ pc[r] = "generating"
    /\ \E what \in {"ok", "cancelled", "failed"} :
        /\ what = "ok" => ~ServerDown(r)
        /\ what = "cancelled" <=> Model(r).backend = "fixture" /\ (r \in flagged \/ draining)
        /\ what = "failed" => Model(r).backend = "llama"
        /\ GenerateEnd(r, what)
        /\ Remember(r, what)
        /\ produced' = IF Runtime(r) THEN [produced EXCEPT ![asked[r].key] = @ \cup {r}] ELSE produced

\* An exception that no except clause names (http.client.IncompleteRead when the
\* server dies in the middle of its answer) reaches run(): nothing is kept.
GenerationRaises(r) ==
    /\ pc[r] = "generating" /\ ServerDown(r)
    /\ GenerateEnd(r, "internal")
    /\ UNCHANGED <<replays, produced>>

-----------------------------------------------------------------------------
\* run() writes the answer, outside the lock.
Write(r) ==
    /\ pc[r] = "writing"
    /\ pc' = [pc EXCEPT ![r] = "done"]
    /\ UNCHANGED <<answer, lock, lifecycle, models, generations, phase, history>>

ServerDies(s) ==
    /\ server[s] = "up"
    /\ server' = [server EXCEPT ![s] = "stopped"]
    /\ UNCHANGED <<pc, answer, lock, lifecycle, handles, generations, phase, history>>

Load(r) == LoadRefused(r) \/ LoadFixture(r) \/ LoadServer(r) \/ LoadReady(r) \/ LoadFailed(r)

Generate(r) == \/ Expired(r) \/ Replay(r) \/ GenerateAtOnce(r) \/ GenerateBegin(r)
               \/ Generated(r) \/ GenerationRaises(r)

Thread(r) ==
    /\ phase # "exited"
    /\ \/ Handshake(r) \/ Drain(r) \/ Cancel(r) \/ Unload(r) \/ Shutdown(r)
       \/ Load(r) \/ Generate(r) \/ Write(r)

Next == \/ \E r \in Requests : Thread(r) \/ ServerDies(r)
        \/ \E r \in Requests, frame \in Frames : Receive(r, frame)
        \/ EndOfFrames \/ Exit

\* Threads run, loads and generations end (both have a timeout).  Nothing says
\* that frames come, that stdin ends or that a server dies.
Fairness == \A r \in Requests : WF_vars(Thread(r))

Spec == Init /\ [][Next]_vars

FairSpec == Spec /\ Fairness

-----------------------------------------------------------------------------
(* Properties.                                                             *)

\* Every variable holds a value of its kind.
TypeOK ==
    /\ pc \in [Requests -> {"unsent", "started", "loading", "generating", "writing", "done"}]
    /\ asked \in [Requests -> Frames \cup {None}]
    /\ answer \in [Requests -> Answers \cup {None}]
    /\ lock \in Requests \cup {None}
    /\ state \in {"cold", "ready", "draining", "stopped"}
    /\ draining \in BOOLEAN
    /\ handles \in [Handles -> [backend : {"fixture", "llama"}, server : Requests \cup {None}] \cup {None}]
    /\ server \in [Requests -> {"none", "up", "stopped"}]
    /\ inflight \subseteq Requests
    /\ flagged \subseteq inflight
    /\ replays \in [Keys -> [digest : Digests, answer : Answers] \cup {None}]
    /\ phase \in {"reading", "joining", "exited"}
    /\ produced \in [Keys -> SUBSET Requests]
    /\ intime \subseteq Requests
    /\ late \subseteq Requests

\* One that runs belongs to one handle, which an unload or a shutdown would stop
\* it by, or its load is under way and holds the lock.
ServersAreHeld ==
    /\ \A s \in Requests : server[s] = "up" =>
          (pc[s] = "loading" /\ lock = s) \/ \E h \in Handles : handles[h] # None /\ handles[h].server = s
    /\ \A g, h \in Handles :
          handles[g] # None /\ handles[h] # None /\ handles[g].server = handles[h].server
            => g = h \/ handles[g].server = None

\* Whether a frame still comes that stops it is another question.  Once shutdown
\* has been handled, no server runs but those of loads that were read before it
\* and got the lock after it: handle() does not ask whether the state is
\* "stopped" (daemon.py:118), and serve() reads no frame any more that could
\* stop them (daemon.py:405).
ShutdownStopsServers == ShutDown => \A s \in Requests : server[s] = "up" => s \in late

\* No llama-server is lost track of: one that runs has a handle or is being
\* loaded, and none runs after a shutdown but those of the loads behind it
\* (InferenceDaemon.handle, LlamaCppProvider.start_server).
ServersAccountedFor == ServersAreHeld /\ ShutdownStopsServers

\* "A repeated idempotency_key is replayed from the bridge cache without a
\* second physical generation" (docs/protocols/runtime-local-bridge.md:18),
\* counting the generations that ended with an answer.
OneGenerationPerKey == \A k \in Keys : Cardinality(produced[k]) <= 1

\* Two requests that were given the answer of the same key asked for the same
\* (runtime_bridge.py:193, idempotency_conflict).
SameKeySameRequest ==
    \A r, s \in Requests :
        /\ pc[r] \in {"writing", "done"} /\ answer[r] = "replayed"
        /\ pc[s] \in {"writing", "done"} /\ s \in produced[asked[r].key]
        => asked[r].digest = asked[s].digest

\* No generation is registered but the one that holds the lock; so no cancel,
\* which needs the lock, ever finds one, and no generation is ever flagged
\* (daemon.py:104, 194, 306).
CancelFindsNothing ==
    /\ inflight = IF lock # None /\ pc[lock] = "generating" THEN {lock} ELSE {}
    /\ flagged = {}

\* Once the daemon drains, it takes up no work: no model is loaded, no server is
\* started, no generation begins, even after a handshake has set the state back
\* to "ready" (daemon.py:107, 119, 306, 341).
DrainedTakesNoWork ==
    [][draining => /\ draining'
                   /\ \A h \in Handles : handles'[h] # None => handles[h] # None
                   /\ \A r \in Requests : server'[r] = "up" => server[r] = "up"
                   /\ \A r \in Requests : pc'[r] = "generating" => pc[r] = "generating"]_vars

\* Every frame that was read is answered, unless the process ends first.
EveryFrameAnswered ==
    \A r \in Requests : pc[r] = "started" ~> (pc[r] = "done" \/ phase = "exited")

\* cancel answers "unknown_request" only for a request that was not generating
\* when the cancel frame arrived (daemon.py:197, inference-backend-v2.md:28).
UnknownWasNotGenerating ==
    \A c \in intime : pc[c] \in {"writing", "done"} => answer[c] = "ok"
=============================================================================
