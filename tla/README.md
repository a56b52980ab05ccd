# A TLA+ development of ds4-simplicio-apple-v6

This directory holds TLA+ specifications of the parts of the repository whose
correctness depends on order: threads, processes, pipes, crashes and restarts.
It states what those parts promise, checks it with TLC on small instances, and
proves the most important promises with TLAPS for every value of the constants.
All paths below are relative to the repository.

## 1. The system

The repository serves language models locally, by three routes that share little
code:

- **engine/** is the colibri engine, vendored from upstream, adopted by ADR-010
  and maintained here. `engine/c/glm.c` is one process that holds a model and the
  KV caches of its conversations; `engine/c/openai_server.py` is the
  OpenAI-compatible HTTP gateway that drives it over a pipe.
- **local_data_plane/** is the Python data plane. A daemon (`daemon.py`) reads
  request frames on stdin, loads models into `llama-server` processes
  (`llama_cpp.py`), generates, and answers on stdout; `runtime_bridge.py` makes
  its generations idempotent for the Runtime. Beside it stand the model store and
  cache, a server manager, planners, codecs and descriptors.
- **runtime/** is the C++ runtime: pagers for KV pages and MoE experts, a batcher,
  a session pool, speculative decoders, an HTTP server, readers and kernels.

`apps/`, `bin/`, `scripts/`, `web/` are user interfaces and launchers around them.

### Components

| Component | State | Operations | Interacts with | What is hard |
|---|---|---|---|---|
| Gateway (`openai_server.py`) | scheduler: deque, active, closed, counters; `Engine.lock`; the pipe; per request the decoder, StopFilter and connection | admit, generate, stream, close, shutdown | HTTP clients, engine process | a thread for each request; disconnects, clients that do not read, deadlines, engine death, shutdown; the pipe has no framing but END; bytes that split stops and characters anywhere |
| Engine turns (`glm.c` run_serve) | history, KV rows, `.coli_kv` | RESET, PROMPT, MORE, a line, end | gateway through stdin/stdout | crash between two writes; settings that change between starts; three different reserves of the context |
| Daemon (`daemon.py`) | state, draining, handles, registered generations | 14 methods | the Runtime through frames, llama-server | a thread for each frame, one lock kept over minutes; servers that die; stdin that ends |
| Runtime bridge | replays | runtime_generate | daemon | retries, key reuse, failures remembered |
| Model store | objects, parts, manifests | put, resolve, rollback | file system | resumed copies, crashes, sources that change |
| Model cache | objects, parts, references | download, remove, repair | file system, HTTP source | processes that overlap, sources that lie, references to removed objects |
| LiteRT caches (`backend_contract.py`) | artifact and receipt of each slot | plan, install, verify, rollback | file system | two files changed one after the other, by processes that die |
| TurboQuant installer | release directories, receipts, current.json | install, discover | llama.cpp provider | two installers, one temporary file, death between move and receipt |
| Checkpoint converter (`convert_fp8_to_int4.py`) | lock, `_inflight` parts and sidecars, outputs, manifest | convert in three modes, local conversion | file system, HTTP | resumed downloads in several streams, restarts with other settings |
| Server manager | metadata file, children | start, stop, status | a server process | crash before the metadata is written, stale pids, two managers |
| OpenAI facade (`openai_serve.py`) | phase, chat backend, embedding model and its lock | main, chat, embeddings, shutdown | mlx server, HTTP clients | signals before the handlers, threads that load one model |
| Leases, sessions | leases with fences; admitted sessions | acquire, transition, release; admit, cancel | the Runtime | holders that keep old leases, budgets |
| Planners (residency, placement, KV, workers, tiling, batches) | none | pure functions | daemon, runtime | boundaries: reserves, zeros, drafts, hybrids |
| Kernel dispatch | tuning file, measurements | select_kernel, store | processes of other hosts | read-modify-write without a lock, stale choices |
| Measurement harnesses (capture, perplexity, benchmarks) | session.json, receipt, payload | prepare, run-case, finalize; run | engine processes | commands that overlap, engines that fail half way, claims beyond what was measured |
| KV pager, expert pager (C++) | hot/warm/cold pages; resident and pinned experts | append, touch, evict, restore | runtime context | limits, ties, learned pins against residency |
| Batcher, session pool (C++) | sessions | schedule, acquire, release | runtime context | fairness over several batches, isolation |
| Codecs, readers, kernels, UI | none that is shared | pure functions, parsing, rendering | | numeric detail, out of scope |

Correctness, component by component:

- gateway: one request at a time, first come first served within the bound, no
  ticket left behind, counters that add up, each client given only output of its
  own
  prompt, nobody stays in the queue for ever;
- engine turns: KV rows always belong to the history; what a restart resumes is a
  history that existed, complete between turns;
- daemon: no server that no handle leads to, none left by a shutdown but those of loads
  behind it, a key generated for once, a replay
  only for the same request, no work once draining, every frame answered;
- gateway, one request: the client sees the text before the first stop and nothing of the
  stop or of the END mark, and the right finish reason;
- stores, caches, installer: an object's content is its name, references lead to objects, an
  interrupted operation can be repeated, what works stays until its replacement works;
- converter: what a sidecar promises is in the part, an output that exists is complete;
- managers: a server that runs can be found and stopped, or the case is one of
  those the code leaves open, which the property names;
- leases, sessions, planners: single flight, budgets, plans that fit;
- measurements: what is written down was run, is valid, and claims only what was observed;
- pagers (not modelled): limits kept, exactly one tier for a page.

PROJECT.json lists every component, modelled or not, and every hazard at its line.

## 2. Modules

| Module | Models | Kind |
|---|---|---|
| `Turnstile` | what the scheduler promises: a bounded line served in order of arrival | abstract |
| `Gateway` | GenerationScheduler, Engine, read_engine_turn, serve(), the turn loop of the engine | detailed |
| `GatewayProofs` | theorems about Gateway, `Turnstile` implemented | proofs |
| `DurableHistory` | what `.coli_kv` promises: the kept history is replaced or cut back in one step | abstract |
| `KvDisk` | run_serve's turns on one conversation, kv_disk_load/append/truncate, crashes, restarts | detailed |
| `KvDiskProofs` | theorems about KvDisk, `DurableHistory` implemented | proofs |
| `Daemon` | InferenceDaemon.handle and serve, RuntimeInferenceBridge, LlamaCppProvider | detailed |
| `DaemonProofs` | theorems about Daemon | proofs |
| `Revisions` | what update and rollback of a model promise: a stack of revisions | abstract |
| `ModelStore` | put_file with its resumable copy, rollback, crashes, edits and damage | detailed |
| `ModelStoreProofs` | theorems about ModelStore | proofs |
| `Completion` | one request of the gateway from its POST to its last byte | detailed, with a reference definition |
| `ModelCache` | download, remove, repair by several processes | detailed |
| `LiteRtCache` | install, verify, rollback of the two LiteRT caches | detailed |
| `BackendInstaller` | install of the TurboQuant llama-server | detailed |
| `Converter` | downloads, conversions, restarts of the checkpoint converter | detailed |
| `ServerManager` | start and stop of a server through a pid file | detailed |
| `Facade` | main of the OpenAI facade, its chat backend, threads and embedding model | detailed |
| `Admission` | leases and session budgets | detailed |
| `Placement` | the planners, as functions | functions |
| `Tuning` | select_kernel and the shared tuning file | detailed |
| `Capture`, `Perplexity`, `ReproHarness` | the three measurement harnesses | detailed, one reference definition |
| `ArtifactsProofs` | theorems about BackendInstaller, ModelCache, LiteRtCache, Converter, and about what `MCArtifacts` puts together | proofs |
| `ServingProofs` | theorems about ServerManager, Facade, Admission, Completion | proofs |
| `HarnessProofs` | theorems about Capture, Tuning, Perplexity, Placement, ReproHarness, and about what `MCPlane` puts together | proofs |
| `Minima` | least failures in place of induction; sums over finite sets; quotients | lemmas |
| `MCGateway`, `MCKvDisk`, `MCDaemon`, `MCModelStore` | symmetry and contents for TLC; the instances are in the .cfg files | checking |
| `MCReproHarness` | benchmark templates for TLC | checking |
| `MCArtifacts`, `MCPlane` | the components on disk, and those around the engines, side by side; symmetry of processes | checking |

Components that share no state are checked in one run by a variable `focus` that
says which of them moves: the run explores the sum of their state spaces and not
the product, which would show nothing more.

### Gateway

A request is a thread with a place (`pc`): *new*, *waiting* in the deque,
*admitted*, *writing* under `Engine.lock`, *reading*, *leaving* (the finally
clause), *done*. `admit` holds the condition's lock from its entry to the first
`wait()` and in each later pass of the loop, so entry is one step (`EnterClosed`,
`EnterFull`, `EnterAtOnce`, `EnterQueue`, `EnterGone`) and so is each wake-up
(`WakeClosed`, `WakeAdmit`, `WakeGone`, `WakeTimeout`), with the order of the
loop's tests as guards: closed, my turn, disconnected, timed out. The deadline and
the client's departure are nondeterministic. `Acquire` to `ReadEof` are
`Engine.generate` and `read_engine_turn`; a piece of output is one item of
`pipe`, of kind *text*, *bad* (not UTF-8), *end*, or *cut* (END after an incomplete
code point). `EngineRead/Emit/End` are run_serve; `EngineCrash` and `EngineHang`
may come at any time. `CloseScheduler`, `CloseEngine`, `Exit` are the finally clause
of serve(); request threads are daemon threads and stop where they are.
`ToClient` names the steps in which a thread is inside a write to its client; such a write
has no timeout (openai_server.py:540, :388), and a client may leave it there (§3, fairness).
`heard` is a history variable: whose output each request was given.

### KvDisk

A conversation is `hist` (tokens) and `rows`, where a row is the sequence of tokens
it was computed from: a good row is the prefix that ends at it. The file is a
header (layout and count) and cells; with DSA a record has two cells. A cell holds
what was written there, so a record read with another layout, or half old and half
new, is recognised as bad. `Prompt`, `Line`, `More`, `Reset`, `Decode` are the turns of
run_serve, whole handlers up to the append; the append itself is a step for
each cell and one for the count, so that a crash may fall between any two. `Decode`
leaves the last token unforwarded when NGEN cuts the answer, as spec_decode does,
except when it was an accepted draft. `Start` chooses layout and context anew.
Conversations of other KV slots have their own file and rows and share nothing, so
one is modelled.

### Daemon

A frame is a thread: *unsent*, *started* (waiting for the lock), *loading* or
*generating* with the lock, *writing* its answer outside the lock, *done*. Methods
that do not wait are one step under the lock. A load of a llama model starts the
process in one step (`LoadServer`) and ends in another (`LoadReady`, `LoadFailed`); a
generation likewise. `runtime_generate` calls handle() again under the same
re-entrant lock, so it is the same steps with the replay table around
them. `ServerDies` may come at any time. `Expired` models the deadline, which parse
compares before the replay is looked up. A frame that validation refuses (a bad path, a
pin that does not match, an unknown backend, too many tokens) is answered and changes
nothing; it is left out. A generation of zero tokens, which the fixture answers even
while draining, is left out too. `produced` and `intime` are history variables: the
requests that had a generation for each key, and the cancel frames that arrived while
their target was generating. `late` are the loads that were read before a shutdown, got the lock
after it and started a server all the same: handle() does not ask whether the state is *stopped*.

### ModelStore

A content is a sequence of blocks and stands for its own digest (SHA-256 is taken to
be injective on the contents there are). `parts`, `objects` and `refs` are the three
directories and survive a crash; `step` and `job` are the put under way and do not.
`PutHash` is put_file up to its expected-hash test; `OpenPart` takes both sizes and
throws away a part longer than the source; `CopyBlock` reads the source *as it is
then* and appends to the part; `PublishShort`, `PublishCollides`, `Publish` are the three
ways on from the end of the copy; `WriteManifest` replaces the manifest by one rename.
The user may change a file at any moment (`Edit`) and an object may be damaged
(`Damage`), and the history variable `suspect` collects the digests this concerned: the
properties say that no other digest is ever harmed. The process ends between any two
steps (`Crash`); what it has written stays, since a crash here is the end of the process and
not of the machine. resolve and verify only read. The descriptive fields of a manifest
are left out; rollback keeps those of the revision it leaves. One process
uses the store.

### Completion

One request, with the scheduler's answer (`NotAdmitted`, `Begin`) and the engine's bytes as
inputs. The checks come in the code's order and the first that fails gives the status
(`Checks`, `Refusal`). A byte is an ASCII character, `lead` or `trail`, the two bytes of
one wide character; `EngineText` and `EngineMark` write text and the END mark, whose first
character may also occur in the text. `ReadByte` is the loop of read_engine_turn (keep what
may be the beginning of the mark, hand over the rest), then the decoder, then `Feed`, the
body of StopFilter.feed, then the event on the connection. `Shown` is the reference
definition: the text before the stop that is complete first. A stream that fails after its
header is given a second status line; the property says that this is the only such case.

### What is kept on disk

`ModelCache`: a file is a number of blocks and whether they are right. Every command is a process that looks,
opens, copies, checks, publishes and refers in steps of its own; two that append to one part share its length,
and a rename moves the file under whoever still writes it. The history variables `damaged`, `overlapped` and
`sharedPart` name the digests for which the code gives no promise. The size of an artifact goes with its
digest: two entries of one sha256 that state different size_bytes (model_cache.py:87-90) are not covered.
`LiteRtCache`: a slot is an artifact and a receipt, a want is what a plan pins; packages of different
manifests share a slot, models do not. `VerifyPackage` and `VerifyModel` are the verdicts of the two verify
functions. `BackendInstaller`: the steps from discovery to current.json; a write in place and the shared
current.json.tmp can be torn by a second writer. `Converter`: a file is a sequence of *data* and *hole*
blocks; a download runs in n streams with a checkpointed sidecar or appends in one; a run may be killed
anywhere, also while it deletes its working files (`KillClearing`), and started again in another mode or with
another number of streams. `holed` names the shards hit by what the run `artifacts_lost` shows: it is marked
when a download begins beside a sidecar whose part is gone (`Orphaned`), or goes on with one stream in a part
that has holes. `Classify` says which tensors a mode keeps.

### Around the engines

`ServerManager`: pids have a state, *foreign* when the system has given the pid away; each manager runs one
operation at a time, and the window between a look at the record and its replacement is open to the other. A
child that has ended keeps its pid until its manager waits for it (`children`). Whatever may fail does: the
record is not written (`RecordFails`), the pid is another user's (`SignalRefused`), the server ignores
SIGTERM, which only a manager that is its parent follows by a kill. `abandoned` collects the servers left
running without a record (`LeftRunning`). `Facade`: phases of main, the chat backend as a process, a client as
a thread; a signal before the handlers are installed kills main alone. Its `SafeArgs` drops blocked flags with
their values; a token without a dash is called *address* where it is the value of a blocked flag, which the
filter does not look at and the property does. `Admission`: leases are numbered by their fences, the registry
keeps the newest of each key and holders keep theirs; `revived` are those a holder moved on after the registry
gave them up. `Placement`: one question and one answer, over a grid of byte counts that has zero, less than a
reserve and more (`AdmissionEstimate`, a list of comparisons, is answered and typed, but nothing deeper is
said of it). `Tuning`: hosts with different instruction sets share a file of choices; `known` records what was
measured of a kernel when it was selected. `Capture`: a command holds the session it has read until it writes
it back, through one temporary name that all commands share: it opens the file, which empties it
(`OpenTemporary`), fills it (`FillTemporary`) and moves it into place (`ReplaceSession`), and others may do so
in between. What a write meets is what its file has become by then, the temporary one, session.json itself, or
a file that has no name any more; two that write one file leave `MixedFile`, and one that is interrupted
leaves `EmptyFile` or `MixedFile`. `shared` records that two met. `Perplexity`: a suite has at most one fault;
scores are lines that are valid, invalid or too large for exp. `ReproHarness`: a text is the set of names it
mentions, an expansion replaces each by what it mentions; those written in braces, `${name}`, are told apart,
since validate_template sees no others and safe_substitute expands `$name` as well; `Resolvable` is the
reference definition, by the least set of names that a text leads to. A round expands the variables into each
other and so doubles the steps that are expanded: three rounds are eight steps, enough for any seven variables
and too few for some chains of eight.

## 3. What is checked

| Run | Shows | Bounds |
|---|---|---|
| `gateway` | types; mutual exclusion; the deque is the waiters; counters; no foreign output; gateway and engine in step; implements `Turnstile` | 4 requests (symmetric), 2 places, 1 piece of text in a turn |
| `gateway_live` | a waiter leaves, whatever clients do; a request ends, if clients read | 3 requests, 1 place, text that may not be UTF-8 |
| `gateway_badutf8` | *violation* of `OwnTurnOnly` | 2 requests, 2 pieces |
| `kvdisk` | types and limits; rows match the history; saved between turns; implements `DurableHistory` | 2 tokens (symmetric), context 4, DSA, 1 generated token in a turn |
| `kvdisk_layout` | *violation* of `RowsMatchHistory` | the same with and without DSA |
| `daemon` | types; no lost server, after a shutdown neither; one generation for a key; replays; cancel; drain; every frame is answered | 3 frames of any kind, 1 handle, 1 key, 2 contents |
| `daemon_cancel` | *violation* of `UnknownWasNotGenerating` | 3 frames |
| `artifacts` | types; store: objects are what they are named, manifests lead to objects, interrupted puts can be repeated; cache, LiteRT slots, current.json, sidecars, outputs | store: 1 file, 1 model, 2 contents; cache: 2 processes, 2 artifacts of one digest, 2 blocks; LiteRT: 2 processes, 2 manifests, 1 model; 2 installers, 2 tags, 2 assets (the processes are symmetric); converter: 2 shards of 4 blocks, 1 to 3 streams, 2 launches |
| `artifacts_lost` | *violation* of `NoByteLost` | as `artifacts` |
| `plane` | types; answers; embedding model; no orphan; known servers; leases and budgets; plans; kernels; session; receipt; payload | texts of 5 bytes; 2 clients; 2 managers, 2 pids; 3 fences; byte counts 0, 1, 3; 2 tuners, 2 kernels; 4 commands of 2 operators; 2 variants, 3 lines; chains of 3, 7 and 8 variables |
| `bench_undeclared` | *violation* of `UndeclaredNamesNeverRun` | the templates of `plane` whose names are in braces |
| `modelstore_rollback` | *violation* of `RevisionsAreAStack` | the same with 3 contents |

Why the bounds are enough. With four requests one is served, two queue and the fourth is refused or overtakes
if it can; leaving from the middle of the line takes two in it. One piece and its END are enough for a turn to
be left half read. A context of 4 with reserves of 1 has room for a history of 3: a common prefix, a tail that
is cut and a new one. Two cells a record is what lets a record be half written. Three frames of the daemon
are a load, a generate, and a second generate, an unload, a drain, a cancel or a shutdown anywhere between
their steps; that the safety properties hold of any number of frames is proved (§4). Two contents that
share no beginning make a part of one useless for the other, and their sizes let a part be shorter and longer
than its source; digests meet in the history of one model as they would in those of two. Two processes are
what every race on a directory needs, and two artifacts of one digest, or two manifests of one slot, what lets
them meet. A shard of 4 blocks is cut differently by 2 and by 3 streams, and two launches are one that dies
and leaves a sidecar behind and one that meets it; what holds after more of them is proved (§4). A text of 5
bytes holds a wide character inside a stop of length three, two overlapping stops, and the first character of
the END mark before the mark itself. Three fences are a lease, its successor, and the first revived. Constants
that TLC bounds and the code does not: `MaxChunks` (the code's max_tokens), `NGen`, `Contexts`, `MaxHistory`,
`MaxPart`, `Launches`, `MaxText`, `MaxFence`, `MaxCommands`, `MaxLines`, and the number of frames.

Deadlock is checked for `kvdisk` and `modelstore_rollback`, where something can always be done. The gateway,
the daemon, a request, a plan and a harness have an end (every request done, the process exited,
the question answered), and the launches of the converter are bounded, so there it is not.

### Fairness

The gateway's threads are scheduled (WF of each thread's step): the loop of
admit polls every 0.25 s whatever notifications get lost, its deadline does pass, and
the finally clause runs. The engine's steps are weakly fair while it is up, a hung
engine does nothing. serve() goes on once it has begun to close. A thread that is inside a
write to its client (`ToClient`) is not among the fair ones: the socket has no timeout, so a client
that stays connected and does not read keeps its thread there, with the engine its own, for ever.
`WaiterLeaves` holds all the same, since a waiter's deadline bounds its wait. `EveryRequestEnds`
has the hypothesis `ClientsRead`, that such writes return, because the client reads or because it has
left and the write fails, which the code does not see to: without it the request and its turn of the
engine need not end. Nothing is assumed of the coming and going of
clients, of the signal that stops the server, of crashes and hangs. Weak fairness of
the thread as a whole is enough, since no step of a thread that owes progress is
disabled by others again and again, except the wait for its turn, and there the
deadline bounds it. The daemon's threads are weakly fair one by one; that the lock is
handed to every thread in the end holds because there are finitely many frames, each
takes the lock once, and loads and generations end (startup timeout, request
timeout).

### Findings

1. `gateway_badutf8`: a strict UTF-8 decoder raises inside the read of a turn, the
   rest of the turn stays in the pipe and becomes the next request's answer.
   `emit_stream` cuts a decoded token to 63 bytes and tokens are bytes, so
   this needs no broken engine.
2. `kvdisk_layout`: a `.coli_kv` that load ignored for its dimensions is still
   appended to, with records of another size behind the old header.
3. `artifacts_lost`: a multi-stream download killed before its first checkpoint leaves
   a sparse part of full size without a sidecar; the next run takes it for a part of the
   old single-stream version, finds it complete and uses it, holes included. A sidecar that
   outlives its part (a kill between two removals, or a rename that leaves it) does the same to the segments it lists.
4. `daemon_cancel`: cancel needs the lock that the generation keeps until it
   has ended, so it always answers `unknown_request`.
5. `modelstore_rollback`: a put appends the revision it replaces to the history, but
   rollback takes the first one; after two updates it skips the previous revision, and
   a second rollback goes forward to it.
6. `bench_undeclared`: a template whose placeholders have no variable is said to fail before any
   command is started (docs/benchmarks/README.md:39-41 and the docstring of
   validate_template). The values of the variables are not validated, and what they mention is
   expanded into the commands afterwards: the command is run with `${undefined}` in it.

Met while modelling and stated in the properties as exceptions rather than as runs of their own: a failing
stream gets a second status line (`AnswersAreFaithful`); remove and download of one digest can leave a
reference without object, and two downloads through one part a wrong object (`CacheIsSound`); a hybrid
placement is measured against the system's memory only and a CPU fallback leaves out the draft (`PlansFit`); a
stopped lease can be started again beside its successor (`AdmissionIsSound`); a server is left that no command
finds when its manager dies before it is recorded, when the record cannot be written, when the server ignores
the SIGTERM that ends the wait for it or that comes from a manager which is not its parent, and when a manager
replaces or removes a record other than the one it had read (`RunningServersAreKnown`); a load that gets the
daemon's lock after shutdown starts a server that nothing stops (`ServersAccountedFor`); two commands of the
capture that meet in write_json may leave a session.json that cannot be read (`SessionIsSound`); SIGTERM while
the facade waits for its backend leaves the backend running (`NoOrphanUpstream`); variables that are
undefined, cyclic or in a chain longer than three rounds expand reach the shell (`RecordsWhatItRan`).

## 4. What is proved

Every safety invariant that a passing run checks is stated by a theorem, and so are both refinements.
TLAPS checks each for any number of requests, frames, processes, files and
sizes; the assumptions are the named ASSUMEs of the modules (constants are numbers or sets
of the right kind, a number of streams is positive, `None` and its like are no element of the
sets they are told from), which TLC evaluates in every run. Two theorems of the gateway and
three of the engine have a hypothesis beyond these, named below.

Gateway (`GatewayProofs`): types; `MutualExclusion`; `QueueIsTheWaiters`; `EngineInStep`
and `NoForeignOutput`, which assume `InvalidText = FALSE`, the very thing that the run
`gateway_badutf8` shows to be needed; `SchedulerIsATurnstile`, the refinement;
`CountersAreExact`. The
argument: `OneAtATime` alone is inductive together with types, since active is set only
where no thread is inside; the queue's invariant says that a ticket is in the
deque exactly while its thread waits, which is what makes the removal from the
middle of the deque safe. In-step needs the pipe's whole shape: while a
request reads, prompt, turn and pipe are its own, END last; when nobody reads, all three
are empty. The refinement maps the one request inside to `serving`. The counters are
compared with the sets of requests that ended in each way (`Enders`), which are finite in
every state, though the set of all requests need not be: each step adds one request to at most
one of them.

Engine (`KvDiskProofs`): `KvTypeCorrect`, for any layouts and context lengths; `RowsAreOfTheHistory`,
`NothingIsLostBetweenTurns` and `FileIsADurableHistory`, the refinement, under `OneWayToStart`: the engine is
always started with the same layout and context length. The run `kvdisk_layout` shows that the layout is
needed; a file too long for a smaller context is ignored by load and appended to all the same (glm.c:2109).
The invariant says what a crash may leave to the next process: the counted records of the file are those of
some history (`FileStandsForAHistory`); what the process believes is counted is a beginning of its own history
(`CountIsKnown`, `CountedAreOfThisHistory`); an append has written the cells before its position
(`Appending`), and nothing is counted that is not written. `DurableHistory` has a variable `up`, since a
process that is down has no conversation to keep.

Daemon (`DaemonProofs`): types; `CancelNeverReaches`; `DrainIsFinal`; `AtMostOneGeneration`;
`ReplayIsOfTheSameRequest`; `NoServerIsLost`. The argument rests on the lock: a thread
that loads or generates is the lock's owner (`LockHeld`), hence nothing is registered but what the owner
generates, hence no flag is ever set. For the keys, a generation that runs for a key whose answer is not kept
is the only one there can be (`GeneratesUnkept`), and what is kept for a key has the contents of the request
that generated it (`ReplayFits`). For the servers, a load's own server is in no handle before the load ends
(`HandlesFree`). Shutdown runs under the same lock, so no load is in flight when it stops the servers of the
handles; what starts one afterwards is in `late`.

Model store (`ModelStoreProofs`): types; `ObjectsAreWhatTheyAreNamed`;
`ManifestsLeadToObjects`; `InterruptedPutsCanBeRepeated`. The three properties are inductive
together with `InFlight`, which says what the put under way may rely on: its source is
still what was hashed and its size is that content's, unless the digest is suspect,
and the object is there once it is published. The copy needs two lemmas about
beginnings of sequences: a beginning grows by the next element (`LongerBeginning`), and one
of full length is the whole (`WholeBeginning`), which is why comparing lengths at the end
of the copy is enough.

On disk (`ArtifactsProofs`): `CurrentStaysInstalled`, `CacheStaysSound`, `SlotsStaySound`. Nothing locks these
directories, so each invariant has the same two parts: overlaps are told (`TagsAreTold`, `TmpIsTold`;
`OverlapsAreTold`; `RacesAreTold`: two processes at work on one name are in the history variable that names
it), and away from them a process knows what is behind it at each of its steps (`Progress`; `OpsKnow`,
`HandlesAreOnParts`; `LitKnow`). `SidecarsStayTrue` and `ConversionsStayWhole` for the converter: outside
`holed`, what the sidecar or the run's memory says was fetched is in a part of full size (`Promised`), one
stream goes on only in a part without holes, and the segments cover the file whatever the number of streams
(`SegCover`), so that what is renamed has no hole. The first attempt at this proof failed for a reason: a
sidecar can outlive its part also after the rename of a single stream, which takes a third launch to matter.
`holed` was too small. TLC passes with `Launches = 3` and `ShardBlocks = 3` as well, in twice the time; the
.cfg has two launches of a longer shard and leaves more of them to the proof.

Around the engines (`ServingProofs`): `ServersStayKnown` (a server that runs is held by the record or by a
live manager, or is one of those that the failures listed in §3 left behind; a manager that was not raced
knows the record it read, so that what it replaces or removes is what it read); `EmbeddingModelIsLoadedOnce`
(the lock's owner is the one loader); `UpstreamDoesNotOutliveTheFacade`, with the filter of the extra
arguments proved for all of them (`FilterIsSafe`); `AdmissionStaysSound` (the registry has the newest lease of
a key, an older live one was revived; the sum over admitted sessions is within the budgets).
`AnswersStayFaithful` holds for any stops, texts, limits and any mark whose last byte is nowhere else in it
(`CompletionAssumption`), as in `b"\x01\x01END\x01\x01\n"`. That is what makes the loop of read_engine_turn
right: after every byte, what it holds back is the end of the text and the beginning of the mark, less than a
mark in all, and the mark is complete only where the engine wrote it. Its invariant, `CompletionIInv`, says
for each place of the handler what has been read, decoded and filtered: what was passed on went through the
decoder and StopFilter as one piece would have (`Filtered`, with the half of a wide character that the decoder
may hold), so that what is on the wire begins what `Shown` defines, and is all of it once the request ends
well.

Plans and measurements (`HarnessProofs`): `AcceptedPlansFit`, which includes that fair shares of any number of
sessions add up to the whole, that the loop of select_tiling ends in a tile that fits or in the smallest, and
that a batch is the head of its requests in order of priority; `KernelsStaySafe`, `SessionStaysSound`,
`CompletedReceiptsAreComplete`, each with an invariant of what a process holds in memory while others write
the file. For the session: unless two commands met (`shared`), the one that has opened the temporary file is
the only one at it, so that what it moves is what it wrote. A completed receipt has, for each variant, the
tokens of the first one, and not only as many. `RecordsStayTrue` compares the three rounds with the reference
definition for any template: a name left after eight expansions is at the end of a chain of eight mentions,
which among seven variables passes one of them twice, so that something leads back to itself; and an expansion
that leaves nothing has met neither a cycle nor an undefined name.

Side by side (`ArtifactTypesStay`, `PlaneTypesStay`): the types of all components that a run checks together.
A step of one component leaves the variables of the others alone, so the composition implements each
component's own specification, and the types follow from the invariants above; what is left is the converter's
files, whose kinds of blocks take an invariant of their own (`FilesAreTyped`), and the lines of the perplexity
runner and the commands of the capture, whose bounds come from the guards.

Induction over data is beyond this prover, since its induction theorems take an operator as parameter.
`Minima` does without it: a nonempty set of numbers has a least element (from the
well-foundedness of <), so the set of failures of a claim, were it not empty, would have a least
one, and the step before it leads to a contradiction. So are proved the sums over finite sets, that
the recursive functions in select_tiling and in the facade's filter exist, what they compute, and
that requests of distinct sessions can be sorted. The characters of a text are such a function too, and those of a
longer text begin with those of the text: there is no first place where they differ. The names a template leads to
are the least closed set by definition, so that any closed set bounds them.

Only model-checked: liveness (`WaiterLeaves`, `EveryRequestEnds`, `EveryFrameAnswered`), since fairness and ENABLED
are beyond the prover. What the six violated properties say is not true.

## 5. Plan

Done: Gateway with Turnstile, Completion, KvDisk with DurableHistory, Daemon, ModelStore with Revisions,
everything that is kept on disk, what serves, plans and measures around the engines, and
proofs about all of these. Next, in this order:

1. `ModelStore` with two processes on one store and one `.part` file (model_store.py:79).
2. `KvDisk` with two context lengths and failing opens.

### Not modelled, and why

- Kernels, tokenizer, templates, sampling, quantization and codecs are numeric or textual functions
  without interleaving; readers, registries and catalogs are filled once and read.
- The C++ runtime. Its pagers, batcher and session pool are sequential bookkeeping called by
  one thread; they come after the proofs. Three places there are delicate: expert_pager.cpp:112 (a restored histogram
  clears counts that eviction looks up), kv_pager.cpp:97 (a page just appended may be demoted at
  once), continuous_batcher.cpp:15 (the last sessions can starve).
- HTTP parsing and rendering keep no state; user interfaces and launchers call the parts above.
- Known hazards of the modelled parts outside their models: /health answers ok after the engine
  has died (openai_server.py:326); stdio's buffer and a failing fopen in front of `.coli_kv` (glm.c:2070, 2081), and a
  file too long for a smaller context (glm.c:2109); the bridge remembers failures (runtime_bridge.py:247) and the end of
  stdin leaves servers running (daemon.py:396), both in the model and promised otherwise nowhere; MORE goes on without the last
  token printed (glm.c:2207), which `KvDisk` models; `ShownIsInHistory`, which says otherwise, does not hold and is not among the runs.
