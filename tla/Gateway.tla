------------------------------- MODULE Gateway -------------------------------
(***************************************************************************)
(* The OpenAI-compatible gateway of the colibri engine                     *)
(* (engine/c/openai_server.py) together with the engine process it drives  *)
(* over a pipe (run_serve of engine/c/glm.c).                              *)
(*                                                                         *)
(* Every HTTP request is a thread.  GenerationScheduler.admit lets one     *)
(* thread at a time through, in order of arrival, with a bounded queue, a  *)
(* deadline and a disconnect check; the thread that got through writes one *)
(* prompt to the engine and reads that turn back up to the END sentinel.   *)
(* serve() closes the scheduler and then the engine when it is told to     *)
(* stop, while request threads are still running.                          *)
(***************************************************************************)
EXTENDS Naturals, Sequences, FiniteSets

CONSTANTS Requests,      \* one request thread each
          MaxQueue,      \* GenerationScheduler.max_queue
          MaxChunks,     \* bound: pieces of text the engine emits in a turn
          InvalidText,   \* TRUE: a piece may be bytes that are not UTF-8
          None           \* not a request

ASSUME GatewayAssumption ==
    /\ MaxQueue \in Nat
    /\ MaxChunks \in Nat
    /\ InvalidText \in BOOLEAN
    /\ None \notin Requests

VARIABLES
    pc,        \* where each request thread is
    outcome,   \* how its request ended
    queue,     \* GenerationScheduler.queue: tickets, oldest first
    active,    \* GenerationScheduler.active
    closed,    \* GenerationScheduler.closed
    stats,     \* the counters snapshot() reports
    lock,      \* the thread holding Engine.lock, or None
    engine,    \* the engine process: "up", "hung" or "down"
    stdin,     \* prompts written to the engine and not yet read by it
    turn,      \* the prompt the engine is generating for, or None
    emitted,   \* pieces of text emitted in this turn
    pipe,      \* the engine's output not yet read by a thread
    heard,     \* the turns whose output each request has consumed
    phase      \* how far serve() has come

admission == <<queue, active, closed, stats>>
wire == <<engine, stdin, turn, emitted, pipe>>
vars == <<pc, outcome, admission, lock, wire, heard, phase>>

Places == {"new", "waiting", "admitted", "writing", "reading", "leaving", "done"}
Outcomes == {"none", "ok", "closed", "full", "timeout", "cancelled", "failed"}
Phases == {"serving", "closed", "engine_closed", "exited"}
Kinds == {"text", "bad", "end", "cut"}
Counters == {"admitted", "completed", "rejected", "timed_out", "cancelled"}

\* Between the admission and the end of the "with scheduler.admit" block.
Inside == {"admitted", "writing", "reading", "leaving"}

Init ==
    /\ pc = [r \in Requests |-> "new"]
    /\ outcome = [r \in Requests |-> "none"]
    /\ queue = <<>>
    /\ active = FALSE
    /\ closed = FALSE
    /\ stats = [c \in Counters |-> 0]
    /\ lock = None
    /\ engine = "up"
    /\ stdin = <<>>
    /\ turn = None
    /\ emitted = 0
    /\ pipe = <<>>
    /\ heard = [r \in Requests |-> {}]
    /\ phase = "serving"

-----------------------------------------------------------------------------
(* GenerationScheduler.admit.  The condition's lock is held from entry to  *)
(* the first wait() and again for every later pass through the loop, so    *)
(* each of the following is one step.                                      *)

Count(c) == stats' = [stats EXCEPT ![c] = @ + 1]

Refuse(r, why) ==
    /\ pc' = [pc EXCEPT ![r] = "done"]
    /\ outcome' = [outcome EXCEPT ![r] = why]

WithoutPlace(s, i) == [j \in 1 .. Len(s) - 1 |-> IF j < i THEN s[j] ELSE s[j + 1]]

\* Mutant: the ticket of a waiter that gave up stays in the deque.
WithdrawForgotten(r) == UNCHANGED queue

\* The ticket leaves the deque from whatever place it has.
Withdraw(r) == \E i \in 1 .. Len(queue) : queue[i] = r /\ queue' = WithoutPlace(queue, i)

\* Mutant: the head of the deque does not look at "active".
MyTurnWhileActive(r) == queue # <<>> /\ Head(queue) = r

MyTurn(r) == ~active /\ queue # <<>> /\ Head(queue) = r

QueueFull == (active \/ queue # <<>>) /\ Len(queue) >= MaxQueue

\* The scheduler is closed already: 503 before a ticket exists.
EnterClosed(r) ==
    /\ pc[r] = "new" /\ closed
    /\ Refuse(r, "closed")
    /\ UNCHANGED <<admission, lock, wire, heard, phase>>

EnterFull(r) ==
    /\ pc[r] = "new" /\ ~closed /\ QueueFull
    /\ Refuse(r, "full")
    /\ Count("rejected")
    /\ UNCHANGED <<queue, active, closed, lock, wire, heard, phase>>

\* Mutant: a newcomer finds the engine free and overtakes the deque.
EnterAtOnceBarging(r) ==
    /\ pc[r] = "new" /\ ~closed /\ ~QueueFull
    /\ ~active
    /\ pc' = [pc EXCEPT ![r] = "admitted"]
    /\ active' = TRUE
    /\ Count("admitted")
    /\ UNCHANGED <<outcome, queue, closed, lock, wire, heard, phase>>

\* Ticket appended and popped in the same critical section.
EnterAtOnce(r) ==
    /\ pc[r] = "new" /\ ~closed /\ ~QueueFull
    /\ ~active /\ queue = <<>>
    /\ pc' = [pc EXCEPT ![r] = "admitted"]
    /\ active' = TRUE
    /\ Count("admitted")
    /\ UNCHANGED <<outcome, queue, closed, lock, wire, heard, phase>>

EnterQueue(r) ==
    /\ pc[r] = "new" /\ ~closed /\ ~QueueFull
    /\ active \/ queue # <<>>
    /\ pc' = [pc EXCEPT ![r] = "waiting"]
    /\ queue' = Append(queue, r)
    /\ UNCHANGED <<outcome, active, closed, stats, lock, wire, heard, phase>>

\* The client is gone at the first pass of the loop: ticket in, ticket out.
EnterGone(r) ==
    /\ pc[r] = "new" /\ ~closed /\ ~QueueFull
    /\ active \/ queue # <<>>
    /\ Refuse(r, "cancelled")
    /\ Count("cancelled")
    /\ UNCHANGED <<queue, active, closed, lock, wire, heard, phase>>

WakeClosed(r) ==
    /\ pc[r] = "waiting" /\ closed
    /\ Withdraw(r)
    /\ Refuse(r, "closed")
    /\ UNCHANGED <<active, closed, stats, lock, wire, heard, phase>>

WakeAdmit(r) ==
    /\ pc[r] = "waiting" /\ ~closed /\ MyTurn(r)
    /\ pc' = [pc EXCEPT ![r] = "admitted"]
    /\ queue' = Tail(queue)
    /\ active' = TRUE
    /\ Count("admitted")
    /\ UNCHANGED <<outcome, closed, lock, wire, heard, phase>>

\* client_disconnected() answers TRUE, at any pass after the client left.
WakeGone(r) ==
    /\ pc[r] = "waiting" /\ ~closed /\ ~MyTurn(r)
    /\ Withdraw(r)
    /\ Refuse(r, "cancelled")
    /\ Count("cancelled")
    /\ UNCHANGED <<active, closed, lock, wire, heard, phase>>

\* Mutant: the loop never looks at the deadline.
WakeTimeoutNever(r) == pc[r] = "waiting" /\ FALSE

\* The deadline has passed; it may pass at any time after the ticket is queued.
WakeTimeout(r) ==
    /\ pc[r] = "waiting" /\ ~closed /\ ~MyTurn(r)
    /\ Withdraw(r)
    /\ Refuse(r, "timeout")
    /\ Count("timed_out")
    /\ UNCHANGED <<active, closed, lock, wire, heard, phase>>

\* Mutant: completed is counted only for turns that ended well.
LeaveCountsOk(r) ==
    /\ pc[r] = "leaving"
    /\ pc' = [pc EXCEPT ![r] = "done"]
    /\ active' = FALSE
    /\ IF outcome[r] = "ok" THEN Count("completed") ELSE UNCHANGED stats
    /\ UNCHANGED <<outcome, queue, closed, lock, wire, heard, phase>>

\* The finally clause of admit.
Leave(r) ==
    /\ pc[r] = "leaving"
    /\ pc' = [pc EXCEPT ![r] = "done"]
    /\ active' = FALSE
    /\ Count("completed")
    /\ UNCHANGED <<outcome, queue, closed, lock, wire, heard, phase>>

-----------------------------------------------------------------------------
(* Engine.generate and read_engine_turn.                                   *)

\* The turn ends in this thread, one way or the other; "with self.lock" ends.
EndTurn(r, how) ==
    /\ pc' = [pc EXCEPT ![r] = "leaving"]
    /\ outcome' = [outcome EXCEPT ![r] = how]
    /\ lock' = None

Acquire(r) ==
    /\ pc[r] = "admitted" /\ lock = None
    /\ engine # "down"
    /\ pc' = [pc EXCEPT ![r] = "writing"]
    /\ lock' = r
    /\ UNCHANGED <<outcome, admission, wire, heard, phase>>

\* process.poll() tells that the engine is not running.
AcquireDown(r) ==
    /\ pc[r] = "admitted" /\ lock = None
    /\ engine = "down"
    /\ EndTurn(r, "failed")
    /\ UNCHANGED <<admission, wire, heard, phase>>

\* The prompt has a NUL byte, or the client has gone and the headers of its
\* stream cannot be written: the with block ends before the engine is asked.
NotSent(r) ==
    /\ pc[r] = "admitted"
    /\ pc' = [pc EXCEPT ![r] = "leaving"]
    /\ outcome' = [outcome EXCEPT ![r] = "failed"]
    /\ UNCHANGED <<admission, lock, wire, heard, phase>>

WritePrompt(r) ==
    /\ pc[r] = "writing"
    /\ engine # "down"
    /\ pc' = [pc EXCEPT ![r] = "reading"]
    /\ stdin' = Append(stdin, r)
    /\ UNCHANGED <<outcome, admission, lock, engine, turn, emitted, pipe, heard, phase>>

\* The engine died after poll(): the write raises BrokenPipeError.
WriteBroken(r) ==
    /\ pc[r] = "writing"
    /\ engine = "down"
    /\ EndTurn(r, "failed")
    /\ UNCHANGED <<admission, wire, heard, phase>>

\* Mutant: the turn is given up when the client is gone, its rest unread.
ReadTextUntilGone(r) ==
    /\ pc[r] = "reading" /\ pipe # <<>> /\ Head(pipe).kind = "text"
    /\ heard' = [heard EXCEPT ![r] = @ \cup {Head(pipe).turn}]
    /\ pipe' = Tail(pipe)
    /\ UNCHANGED <<pc, outcome, lock>> \/ EndTurn(r, "failed")
    /\ UNCHANGED <<admission, engine, stdin, turn, emitted, phase>>

\* A piece of output reaches UTF8StreamDecoder.feed and goes to the client.
ReadText(r) ==
    /\ pc[r] = "reading" /\ pipe # <<>> /\ Head(pipe).kind = "text"
    /\ heard' = [heard EXCEPT ![r] = @ \cup {Head(pipe).turn}]
    /\ pipe' = Tail(pipe)
    /\ UNCHANGED <<pc, outcome, admission, lock, engine, stdin, turn, emitted, phase>>

\* The strict decoder raises in the middle of the turn: what is left of the
\* turn, its END line included, stays in the pipe.
ReadInvalid(r) ==
    /\ pc[r] = "reading" /\ pipe # <<>> /\ Head(pipe).kind = "bad"
    /\ pipe' = Tail(pipe)
    /\ EndTurn(r, "failed")
    /\ UNCHANGED <<admission, engine, stdin, turn, emitted, heard, phase>>

\* END and its STAT line; "cut" is an END after an incomplete code point,
\* which the decoder's final feed refuses.
ReadEnd(r) ==
    /\ pc[r] = "reading" /\ pipe # <<>> /\ Head(pipe).kind \in {"end", "cut"}
    /\ heard' = [heard EXCEPT ![r] = @ \cup {Head(pipe).turn}]
    /\ pipe' = Tail(pipe)
    /\ EndTurn(r, IF Head(pipe).kind = "end" THEN "ok" ELSE "failed")
    /\ UNCHANGED <<admission, engine, stdin, turn, emitted, phase>>

\* Mutant: the end of the engine's output is not noticed.
ReadEofIgnored(r) == pc[r] = "reading" /\ FALSE

\* Mutant: a read that returns nothing is taken for the end of the output.
ReadEofWhenEmpty(r) ==
    /\ pc[r] = "reading" /\ pipe = <<>>
    /\ EndTurn(r, "failed")
    /\ UNCHANGED <<admission, wire, heard, phase>>

ReadEof(r) ==
    /\ pc[r] = "reading" /\ pipe = <<>> /\ engine = "down"
    /\ EndTurn(r, "failed")
    /\ UNCHANGED <<admission, wire, heard, phase>>

-----------------------------------------------------------------------------
(* The engine process: the loop of run_serve.                              *)

EngineRead ==
    /\ engine = "up" /\ turn = None /\ stdin # <<>>
    /\ turn' = Head(stdin)
    /\ stdin' = Tail(stdin)
    /\ emitted' = 0
    /\ UNCHANGED <<pc, outcome, admission, lock, engine, pipe, heard, phase>>

Emit(kind) == pipe' = Append(pipe, [turn |-> turn, kind |-> kind])

\* Mutant: the token limit of a turn is off by one.
EngineEmitOneMore ==
    /\ engine = "up" /\ turn # None /\ emitted <= MaxChunks
    /\ \/ Emit("text")
       \/ InvalidText /\ Emit("bad")
    /\ emitted' = emitted + 1
    /\ UNCHANGED <<pc, outcome, admission, lock, engine, stdin, turn, heard, phase>>

EngineEmit ==
    /\ engine = "up" /\ turn # None /\ emitted < MaxChunks
    /\ \/ Emit("text")
       \/ InvalidText /\ Emit("bad")
    /\ emitted' = emitted + 1
    /\ UNCHANGED <<pc, outcome, admission, lock, engine, stdin, turn, heard, phase>>

EngineEnd ==
    /\ engine = "up" /\ turn # None
    /\ Emit("end") \/ Emit("cut")
    /\ turn' = None
    /\ emitted' = 0
    /\ UNCHANGED <<pc, outcome, admission, lock, engine, stdin, heard, phase>>

\* The process is gone: what it had not read or not written is gone too.
Die ==
    /\ engine' = "down"
    /\ stdin' = <<>>
    /\ turn' = None
    /\ emitted' = 0

EngineCrash ==
    /\ engine # "down"
    /\ Die
    /\ UNCHANGED <<pc, outcome, admission, lock, pipe, heard, phase>>

EngineHang ==
    /\ engine = "up"
    /\ engine' = "hung"
    /\ UNCHANGED <<pc, outcome, admission, lock, stdin, turn, emitted, pipe, heard, phase>>

-----------------------------------------------------------------------------
(* serve(): the finally clause after serve_forever() returned.             *)

CloseScheduler ==
    /\ phase = "serving"
    /\ phase' = "closed"
    /\ closed' = TRUE
    /\ UNCHANGED <<pc, outcome, queue, active, stats, lock, wire, heard>>

CloseEngine ==
    /\ phase = "closed"
    /\ phase' = "engine_closed"
    /\ Die
    /\ UNCHANGED <<pc, outcome, admission, lock, pipe, heard>>

\* Request threads are daemon threads: they end wherever they are.
Exit ==
    /\ phase = "engine_closed"
    /\ phase' = "exited"
    /\ UNCHANGED <<pc, outcome, admission, lock, wire, heard>>

-----------------------------------------------------------------------------
Admit(r) == \/ EnterClosed(r) \/ EnterFull(r) \/ EnterAtOnce(r) \/ EnterQueue(r)
            \/ EnterGone(r)

Wake(r) == WakeClosed(r) \/ WakeAdmit(r) \/ WakeGone(r) \/ WakeTimeout(r)

Generate(r) == \/ NotSent(r) \/ Acquire(r) \/ AcquireDown(r)
               \/ WritePrompt(r) \/ WriteBroken(r)
               \/ ReadText(r) \/ ReadInvalid(r) \/ ReadEnd(r) \/ ReadEof(r)

Thread(r) == phase # "exited" /\ (Admit(r) \/ Wake(r) \/ Generate(r) \/ Leave(r))

EngineStep == EngineRead \/ EngineEmit \/ EngineEnd

Engine == phase # "exited" /\ (EngineStep \/ EngineCrash \/ EngineHang)

Main == CloseScheduler \/ CloseEngine \/ Exit

Next == (\E r \in Requests : Thread(r)) \/ Engine \/ Main

\* A thread that is queued or further on.
Scheduled(r) == \/ WakeClosed(r) \/ WakeAdmit(r) \/ WakeTimeout(r)
                \/ Generate(r) \/ Leave(r)

\* Where a thread may be inside a write to its client, which has no timeout:
\* the headers of a stream, a piece of text, the last piece, and what follows a
\* turn that ended well, still inside the with block (send_json, final events).
ToClient(r) ==
    \/ pc[r] = "admitted"
    \/ pc[r] = "reading" /\ pipe # <<>> /\ Head(pipe).kind \in {"text", "end"}
    \/ pc[r] = "leaving" /\ outcome[r] = "ok"

\* A thread that does not depend on its client goes on: the loop of admit polls
\* every 0.25 s, and its deadline does pass.  The engine keeps generating while
\* it is up.  Nothing says that a client reads what is written to it, that
\* clients come or leave, that the process is stopped, or that the engine
\* crashes or hangs.
Fairness ==
    /\ \A r \in Requests : WF_vars(phase # "exited" /\ Scheduled(r) /\ ~ToClient(r))
    /\ WF_vars(phase # "exited" /\ EngineStep)
    /\ WF_vars(CloseEngine \/ Exit)

\* What the code cannot see to: a client that stays connected reads on in the
\* end.  When it has gone, the write fails and the thread goes on all the same.
ClientsRead ==
    \A r \in Requests : WF_vars(phase # "exited" /\ Scheduled(r) /\ ToClient(r))

Spec == Init /\ [][Next]_vars

FairSpec == Spec /\ Fairness

-----------------------------------------------------------------------------
(* Properties.                                                             *)

Items == [turn : Requests, kind : Kinds]

\* Every variable holds a value of its kind.
TypeOK ==
    /\ pc \in [Requests -> Places]
    /\ outcome \in [Requests -> Outcomes]
    /\ queue \in Seq(Requests)
    /\ active \in BOOLEAN
    /\ closed \in BOOLEAN
    /\ stats \in [Counters -> Nat]
    /\ lock \in Requests \cup {None}
    /\ engine \in {"up", "hung", "down"}
    /\ stdin \in Seq(Requests)
    /\ turn \in Requests \cup {None}
    /\ emitted \in 0 .. MaxChunks
    /\ pipe \in Seq(Items)
    /\ heard \in [Requests -> SUBSET Requests]
    /\ phase \in Phases

\* "active" stands for exactly one request between its admission and the end
\* of the with block, and that request never waits for Engine.lock: the lock
\* is held only by the request that writes or reads (admit, Engine.generate).
OneAtATime ==
    /\ \A r, s \in Requests : pc[r] \in Inside /\ pc[s] \in Inside => r = s
    /\ active <=> \E r \in Requests : pc[r] \in Inside
    /\ \A r \in Requests : pc[r] \in {"writing", "reading"} <=> lock = r

\* The deque holds every waiting request once and no other, never more than
\* max_queue of them, whatever way requests left it (admit).
QueueHoldsWaiters ==
    /\ \A r \in Requests : pc[r] = "waiting" <=> \E i \in 1 .. Len(queue) : queue[i] = r
    /\ \A i, j \in 1 .. Len(queue) : queue[i] = queue[j] => i = j
    /\ Len(queue) <= MaxQueue

Ended(why) == Cardinality({r \in Requests : pc[r] = "done" /\ outcome[r] = why})

\* The counters of snapshot() add up: each request is in at most one of them,
\* an admitted one exactly until its turn is counted completed.
CountersAddUp ==
    /\ stats["rejected"] = Ended("full")
    /\ stats["timed_out"] = Ended("timeout")
    /\ stats["cancelled"] = Ended("cancelled")
    /\ stats["completed"] = Ended("ok") + Ended("failed")
    /\ stats["admitted"] = stats["completed"] + (IF active THEN 1 ELSE 0)

\* A request is only ever given output the engine produced for its own prompt
\* (Engine.generate: "stateless HTTP turns", engine/c/glm.c:2224).
OwnTurnOnly == \A r \in Requests : heard[r] \subseteq {r}

\* Nothing is on its way between the gateway and the engine.
Quiet == pipe = <<>> /\ stdin = <<>> /\ turn = None

\* The prompt of r is unread, or being worked on, or ended, and only pieces of
\* its own are in the pipe, END last.
InTurn(r) ==
    /\ stdin \in {<<>>, <<r>>}
    /\ turn \in {r, None}
    /\ stdin # <<>> => turn = None /\ pipe = <<>>
    /\ \A i \in 1 .. Len(pipe) :
         /\ pipe[i].turn = r
         /\ pipe[i].kind # "bad"
         /\ i < Len(pipe) \/ turn # None => pipe[i].kind = "text"

\* Gateway and engine stay in step, turn for turn, whoever crashes or closes
\* down in between (Engine.generate, read_engine_turn, run_serve).
InStep ==
    /\ OwnTurnOnly
    /\ engine = "down" => stdin = <<>> /\ turn = None
    /\ (\A r \in Requests : pc[r] # "reading") => Quiet
    /\ \A r \in Requests : pc[r] = "reading" => InTurn(r)

\* The request with Engine.lock, or the one that was admitted, or None.
Holder == IF \E r \in Requests : pc[r] \in Inside
          THEN CHOOSE r \in Requests : pc[r] \in Inside
          ELSE None

Line == INSTANCE Turnstile WITH line <- queue, serving <- Holder, Capacity <- MaxQueue

\* The deque and the active flag implement a turnstile: bounded, and strictly
\* first come, first served ("Bounded FIFO admission", openai_server.py:59).
FirstComeFirstServed == Line!Spec

\* A queued request does not stay queued for ever, even when the engine hangs
\* in somebody else's turn, or the client whose turn it is does not read: the
\* loop polls, and a deadline bounds the wait.
WaiterLeaves ==
    \A r \in Requests : pc[r] = "waiting" ~> (pc[r] # "waiting" \/ phase = "exited")

\* Every request that reached admit() ends, engine crash and shutdown included,
\* with two exceptions that no timeout bounds: the engine hangs, or a client
\* neither reads nor leaves and its thread stays in a write (wfile.write,
\* openai_server.py:540; send_json, :388) with the engine its own.
EveryRequestEnds ==
    ClientsRead =>
        \A r \in Requests :
            pc[r] # "new" ~> (pc[r] = "done" \/ engine = "hung" \/ phase = "exited")
=============================================================================
