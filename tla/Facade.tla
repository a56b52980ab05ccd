------------------------------- MODULE Facade -------------------------------
(***************************************************************************)
(* The OpenAI facade (scripts/openai_serve.py): main, the child process of *)
(* the mlx chat backend, the threads of ThreadingHTTPServer and the        *)
(* embedding model they load once.                                         *)
(*                                                                         *)
(* main asks for admission, starts the chat backend, waits for it up to a  *)
(* deadline, and only then installs its signal handlers and serves.        *)
(***************************************************************************)
EXTENDS Naturals, Sequences, FiniteSets

CONSTANTS Clients,     \* threads of the HTTP server
          ExtraArgs    \* values of US4_SERVE_MLX_EXTRA_ARGS, as sequences of tokens

VARIABLES facade,      \* phase of main, its settings and CHAT_BACKEND_READY
          upstream,    \* the chat backend's process, and the tokens it was started with
          embedder,    \* EmbeddingsBackend: who holds its lock, copies of the
                       \* model loaded or being loaded, and whether one is loaded
          client,      \* what each thread is doing and the status it has sent
          killedEarly  \* SIGTERM or SIGKILL came before the handlers were installed

facadeVars == <<facade, upstream, embedder, client, killedEarly>>

Backends == {"mlx", "ollama", "off"}
NoClient == "nobody"

\* ArgTokens of the extra arguments: "host" a blocked flag, "host=" one with its
\* value, "flag" another flag; what does not start with a dash is "address"
\* behind "host", whose value it is, and "value" anywhere else.
ArgTokens == {"host", "host=", "flag", "value", "address"}

\* No thread is called nobody.
ASSUME FacadeAssumption ==
    /\ NoClient \notin Clients
    /\ ExtraArgs \subseteq Seq(ArgTokens)
    /\ \A extra \in ExtraArgs : \A i \in 1..Len(extra) :
          /\ extra[i] = "address" => i > 1 /\ extra[i - 1] = "host"
          /\ extra[i] = "value" => ~(i > 1 /\ extra[i - 1] = "host")

FreshClient == [at |-> "new", status |-> 0]
Down == [state |-> "none", args |-> <<>>]

FacadeTypeOK ==
    /\ facade \in [phase : {"off", "starting", "waiting", "serving", "closing", "ended"},
                   backend : Backends, embed : BOOLEAN, ready : BOOLEAN]
    /\ upstream.state \in {"none", "booting", "up", "dead"}
    /\ embedder \in [lock : Clients \cup {NoClient}, loads : Nat, loaded : BOOLEAN]
    /\ client \in [Clients -> [at : {"new", "proxy", "lock", "load", "embed", "sent"},
                               status : {0, 200, 400, 404, 413, 500, 502, 503}]]
    /\ killedEarly \in BOOLEAN

FacadeInit ==
    /\ facade \in [phase : {"off"}, backend : Backends, embed : BOOLEAN, ready : {FALSE}]
    /\ upstream = Down
    /\ embedder = [lock |-> NoClient, loads |-> 0, loaded |-> FALSE]
    /\ client = [c \in Clients |-> FreshClient]
    /\ killedEarly = FALSE

Phase(p) == facade.phase = p
Enter(p) == facade' = [facade EXCEPT !.phase = p]

-----------------------------------------------------------------------------
(* main *)

\* _runtime_admission, _init_embeddings: paused without policy and lease,
\* and no start without mlx-embeddings when embeddings are on.
Main(admitted, installed) ==
    /\ Phase("off")
    /\ Enter(IF admitted /\ (facade.embed => installed) THEN "starting" ELSE "ended")
    /\ UNCHANGED <<upstream, embedder, client, killedEarly>>

Blocked(t) == t \in {"host", "host="}
Dashed(t) == t \notin {"value", "address"}

\* Whether token i of the extra arguments is passed on: not a blocked flag,
\* nor a token without a dash behind one that has no value yet.
PassedOn(extra, i) ==
    /\ ~Blocked(extra[i])
    /\ ~(i > 1 /\ ~Dashed(extra[i]) /\ extra[i - 1] = "host")

\* The filter of _spawn_upstream.
SafeArgs(extra) ==
    LET keep[i \in 0..Len(extra)] ==
            IF i = 0 THEN <<>>
            ELSE IF PassedOn(extra, i) THEN Append(keep[i - 1], extra[i]) ELSE keep[i - 1]
    IN keep[Len(extra)]

\* Only the mlx backend is a child; the others are expected to run already,
\* and may or may not.
SpawnUpstream(extra, running) ==
    /\ Phase("starting")
    /\ Enter("waiting")
    /\ upstream' = CASE facade.backend = "mlx" -> [state |-> "booting", args |-> SafeArgs(extra)]
                     [] facade.backend = "ollama" /\ running -> [Down EXCEPT !.state = "up"]
                     [] OTHER -> Down
    /\ UNCHANGED <<embedder, client, killedEarly>>

\* mlx-lm is not installed.
NoMlx ==
    /\ Phase("starting") /\ facade.backend = "mlx"
    /\ Enter("ended")
    /\ UNCHANGED <<upstream, embedder, client, killedEarly>>

\* _wait_upstream_ready returns and the handlers are installed: the flag is
\* set here and never again.
Serve(late) ==
    /\ Phase("waiting")
    /\ facade.backend = "off" \/ upstream.state = "up" \/ late
    /\ facade' = [facade EXCEPT !.phase = "serving",
                                !.ready = facade.backend = "off" \/ upstream.state = "up"]
    /\ UNCHANGED <<upstream, embedder, client, killedEarly>>

\* Mutant: the child is left to itself.
EndUpstreamNever == UNCHANGED upstream

\* _terminate_proc: terminate, wait, kill.
EndUpstream ==
    upstream' = IF facade.backend = "mlx" /\ upstream.state \in {"booting", "up"}
                THEN [upstream EXCEPT !.state = "dead"] ELSE upstream

\* SIGINT, SIGTERM.
Shutdown ==
    /\ Phase("serving")
    /\ Enter("closing")
    /\ EndUpstream
    /\ UNCHANGED <<embedder, client, killedEarly>>

\* serve_forever returns; the finally clause.
LeaveServe ==
    /\ Phase("closing")
    /\ Enter("ended")
    /\ EndUpstream
    /\ UNCHANGED <<embedder, client, killedEarly>>

\* An exception before serving (the port is taken, KeyboardInterrupt): atexit
\* ends the child.
FailToServe ==
    /\ Phase("waiting")
    /\ Enter("ended")
    /\ EndUpstream
    /\ UNCHANGED <<embedder, client, killedEarly>>

\* SIGTERM while no handler is installed, and SIGKILL at any time.
Killed ==
    /\ facade.phase \in {"starting", "waiting", "serving", "closing"}
    /\ Enter("ended")
    /\ killedEarly' = TRUE
    /\ UNCHANGED <<upstream, embedder, client>>

UpstreamBoots ==
    /\ upstream.state = "booting"
    /\ upstream' = [upstream EXCEPT !.state = "up"]
    /\ UNCHANGED <<facade, embedder, client, killedEarly>>

UpstreamDies ==
    /\ upstream.state \in {"booting", "up"}
    /\ upstream' = [upstream EXCEPT !.state = "dead"]
    /\ UNCHANGED <<facade, embedder, client, killedEarly>>

-----------------------------------------------------------------------------
(* Us4Handler *)

Serving == facade.phase \in {"serving", "closing"}
Send(c, code) == client' = [client EXCEPT ![c] = [at |-> "sent", status |-> code]]
ClientAt(c, a) == Serving /\ client[c].at = a
Step(c, a) == client' = [client EXCEPT ![c].at = a]

\* do_GET on /health
GetHealth(c) ==
    /\ ClientAt(c, "new")
    /\ Send(c, IF facade.ready THEN 200 ELSE 503)
    /\ UNCHANGED <<facade, upstream, embedder, killedEarly>>

\* do_GET on /models or another path, a POST with a bad length or body.
Answered(c, code) ==
    /\ ClientAt(c, "new")
    /\ Send(c, code)
    /\ UNCHANGED <<facade, upstream, embedder, killedEarly>>

\* _proxy_upstream: refused while the flag is down.
PostChat(c) ==
    /\ ClientAt(c, "new")
    /\ IF facade.backend = "off" \/ ~facade.ready THEN Send(c, 503) ELSE Step(c, "proxy")
    /\ UNCHANGED <<facade, upstream, embedder, killedEarly>>

\* The upstream's answer is relayed, an error of its own included; without
\* one the client gets 502.
Relay(c, code) ==
    /\ ClientAt(c, "proxy")
    /\ Send(c, IF upstream.state = "up" THEN code ELSE 502)
    /\ UNCHANGED <<facade, upstream, embedder, killedEarly>>

\* _handle_embeddings
PostEmbeddings(c) ==
    /\ ClientAt(c, "new")
    /\ IF facade.embed THEN Step(c, "lock") ELSE Send(c, 503)
    /\ UNCHANGED <<facade, upstream, embedder, killedEarly>>

\* Mutant: the model is looked at before the lock is taken.
EnsureLoadedUnlocked(c) ==
    /\ ClientAt(c, "lock")
    /\ IF embedder.loaded
       THEN Step(c, "embed") /\ UNCHANGED embedder
       ELSE Step(c, "load") /\ embedder' = [embedder EXCEPT !.loads = @ + 1]
    /\ UNCHANGED <<facade, upstream, killedEarly>>

\* ensure_loaded: the lock is held from the look to the end of the load.
EnsureLoaded(c) ==
    /\ ClientAt(c, "lock") /\ embedder.lock = NoClient
    /\ IF embedder.loaded
       THEN Step(c, "embed") /\ UNCHANGED embedder
       ELSE /\ Step(c, "load")
            /\ embedder' = [lock |-> c, loaded |-> FALSE, loads |-> embedder.loads + 1]
    /\ UNCHANGED <<facade, upstream, killedEarly>>

\* A load that fails leaves no model: the next request tries again.
EndLoad(c, ok) ==
    /\ ClientAt(c, "load")
    /\ embedder' = [lock |-> NoClient, loaded |-> ok,
                    loads |-> IF ok THEN embedder.loads ELSE embedder.loads - 1]
    /\ IF ok THEN Step(c, "embed") ELSE Send(c, 500)
    /\ UNCHANGED <<facade, upstream, killedEarly>>

Embed(c, code) ==
    /\ ClientAt(c, "embed")
    /\ Send(c, code)
    /\ UNCHANGED <<facade, upstream, embedder, killedEarly>>

NextRequest(c) ==
    /\ ClientAt(c, "sent")
    /\ client' = [client EXCEPT ![c] = FreshClient]
    /\ UNCHANGED <<facade, upstream, embedder, killedEarly>>

FacadeMain ==
    \/ \E admitted, installed \in BOOLEAN : Main(admitted, installed)
    \/ \E extra \in ExtraArgs, running \in BOOLEAN : SpawnUpstream(extra, running)
    \/ NoMlx \/ (\E late \in BOOLEAN : Serve(late)) \/ Shutdown \/ LeaveServe
    \/ FailToServe \/ Killed \/ UpstreamBoots \/ UpstreamDies

FacadeClient(c) ==
    \/ GetHealth(c)
    \/ \E code \in {200, 400, 404, 413} : Answered(c, code)
    \/ PostChat(c) \/ (\E code \in {200, 500} : Relay(c, code))
    \/ PostEmbeddings(c) \/ EnsureLoaded(c) \/ (\E ok \in BOOLEAN : EndLoad(c, ok))
    \/ \E code \in {200, 500} : Embed(c, code)
    \/ NextRequest(c)

FacadeNext == FacadeMain \/ \E c \in Clients : FacadeClient(c)

FacadeSpec == FacadeInit /\ [][FacadeNext]_facadeVars

-----------------------------------------------------------------------------
\* "Two requests can race past the None check and trigger duplicate model
\* loads (catastrophic on unified memory)": whatever the threads do, there is
\* never a second copy of the embedding model, loaded or being loaded, and a
\* failed load does not keep the next one out.
OneEmbeddingModel ==
    /\ embedder.loads <= 1
    /\ Phase("serving") /\ (\A c \in Clients : client[c].at # "load") => embedder.lock = NoClient

\* The chat backend does not outlive the facade, unless a signal killed the
\* facade outright: SIGKILL, or SIGTERM while it still waited for the backend
\* and had no handler.  What it was started with has no blocked flag, and no
\* value that belonged to one.
NoOrphanUpstream ==
    /\ Phase("ended") /\ facade.backend = "mlx" /\ ~killedEarly
           => upstream.state \in {"none", "dead"}
    /\ \A i \in DOMAIN upstream.args : upstream.args[i] \in {"flag", "value"}
=============================================================================
