----------------------------- MODULE Completion -----------------------------
(***************************************************************************)
(* One request of the gateway (engine/c/openai_server.py) from its POST to *)
(* the last byte of its answer: the checks, the engine's bytes read one at *)
(* a time up to the END mark, the incremental UTF-8 decoder, StopFilter,   *)
(* and what is written on the connection.  Gateway has the requests side   *)
(* by side; here the scheduler admits or does not.                         *)
(*                                                                         *)
(* A byte of text is an ASCII character, or "lead" and "trail", the bytes  *)
(* of the character "wide".  The engine does not write the END mark as     *)
(* text, though its text may hold any part of it.                          *)
(***************************************************************************)
EXTENDS Naturals, Sequences, FiniteSets, FiniteSetsExt, SequencesExt

CONSTANTS ChatRequests,  \* requests that may be posted
          TextBytes,     \* bytes of the engine's text
          Mark,          \* END, as a sequence of bytes
          TokenLimit,    \* max_tokens of the server
          DefaultTokens, \* 256 in the code
          MaxStops, MaxStopLength,
          NotGiven,      \* a field the request does not have
          MaxText        \* bound: bytes of text of a turn

\* The characters that bytes can make.
Character == (TextBytes \ {"lead", "trail"}) \cup {"wide"}

\* The last byte of b"\x01\x01END\x01\x01\n" is nowhere else in it.
ASSUME CompletionAssumption ==
    /\ Mark # <<>> /\ Mark \in Seq(ToSet(Mark))
    /\ \A i \in 1..(Len(Mark) - 1) : Mark[i] # Mark[Len(Mark)]
    /\ {TokenLimit, DefaultTokens, MaxStops, MaxStopLength, MaxText} \subseteq Nat
    /\ \A r \in ChatRequests : r.stops # NotGiven => r.stops \in Seq(Seq(Character))

VARIABLES reply,         \* the request and where its handler is
          turn,          \* read_engine_turn and the decoder; all the text so far
          stopper,       \* StopFilter
          wire           \* what has been written on the connection

replyVars == <<reply, turn, stopper, wire>>

NoReply == [at |-> "none"]
NewTurn == [pending |-> <<>>, marked |-> 0, lead |-> FALSE, text |-> <<>>]
NewStopper == [pending |-> <<>>, matched |-> FALSE, out |-> <<>>]
NewWire == [status |-> <<>>, text |-> <<>>, finish |-> "none", done |-> FALSE, open |-> TRUE]

CompletionInit ==
    reply = NoReply /\ turn = NewTurn /\ stopper = NewStopper /\ wire = NewWire

-----------------------------------------------------------------------------
(* The checks *)

StopsOk(stops) ==
    stops # NotGiven => /\ Len(stops) \in 1..MaxStops
                        /\ \A i \in DOMAIN stops : Len(stops[i]) \in 1..MaxStopLength

Maximum(r) == IF r.maximum = NotGiven THEN Min({DefaultTokens, TokenLimit}) ELSE r.maximum

\* generation_options; unsupported stands for the parameters that are refused.
OptionsOk(r) == ~ r.unsupported /\ StopsOk(r.stops) /\ Maximum(r) \in 1..TokenLimit

\* chat_completion and render_chat: an effort that is known, and messages of
\* known roles whose parts are text; completion: a prompt that is a string.
PromptOk(r) ==
    IF r.path = "chat"
    THEN r.effort /\ r.messages # <<>> /\ \A i \in DOMAIN r.messages : r.messages[i] = "text"
    ELSE r.prompt

\* The checks before the request is admitted, in order, and the status of
\* the first that fails.
Checks(r) == <<<<r.key, 401>>, <<r.body, 400>>, <<r.model, 404>>, <<r.path # "other", 404>>,
               <<PromptOk(r), 400>>, <<OptionsOk(r), 400>>, <<r.slot, 400>>>>

Refusal(r) ==
    LET failed == {i \in DOMAIN Checks(r) : ~ Checks(r)[i][1]}
    IN  IF failed = {} THEN 0 ELSE Checks(r)[Min(failed)][2]

Status(code) == IF wire.open THEN [wire EXCEPT !.status = Append(@, code)] ELSE wire

\* do_POST up to the scheduler.
PostCompletion(r) ==
    /\ reply = NoReply
    /\ reply' = [at |-> IF Refusal(r) = 0 THEN "queue" ELSE "over", request |-> r, limited |-> FALSE]
    /\ wire' = IF Refusal(r) = 0 THEN wire ELSE Status(Refusal(r))
    /\ UNCHANGED <<turn, stopper>>

Ends(at) == reply' = [reply EXCEPT !.at = at]

\* admit raises: the queue is full, the wait too long, the server closing,
\* or (0) the client has gone.
NotAdmitted(code) ==
    /\ reply.at = "queue"
    /\ Ends("over")
    /\ wire' = IF code = 0 THEN wire ELSE Status(code)
    /\ UNCHANGED <<turn, stopper>>

\* generation: a stream's header is sent before the engine is asked.
Begin ==
    /\ reply.at = "queue"
    /\ Ends("ask")
    /\ wire' = IF reply.request.stream THEN Status(200) ELSE wire
    /\ UNCHANGED <<turn, stopper>>

\* do_POST answers an exception with a status of its own, also when the
\* header of a stream has been sent.
FailsWith(code) == Ends("failed") /\ wire' = Status(code) /\ UNCHANGED <<turn, stopper>>

\* Engine.generate up to the request's line: a NUL in the prompt is found
\* here, and so is an engine that has ended.
AskEngine(running) ==
    /\ reply.at = "ask"
    /\ IF reply.request.nul THEN FailsWith(400)
       ELSE IF ~ running THEN FailsWith(500)
       ELSE Ends("read") /\ UNCHANGED <<turn, stopper, wire>>

-----------------------------------------------------------------------------
(* StopFilter *)

Stops == IF reply.request.stops = NotGiven THEN {} ELSE ToSet(reply.request.stops)

\* Mutant: one character too few is held back.
KeepShort == IF Stops = {} \/ Max({Len(s) : s \in Stops}) = 1 THEN 0
             ELSE Max({Len(s) : s \in Stops}) - 2

Keep == IF Stops = {} THEN 0 ELSE Max({Len(s) : s \in Stops}) - 1

\* Where stops begin in text, from 0.
Found(text) == {i \in 0..Len(text) : \E s \in Stops : IsPrefix(s, SubSeq(text, i + 1, Len(text)))}

Emitted(text, pending, matched) ==
    [pending |-> pending, matched |-> matched, out |-> stopper.out \o text]

\* feed
Feed(text) ==
    LET all == stopper.pending \o text
        safe == Len(all) - Keep
    IN  IF stopper.matched THEN stopper
        ELSE IF Found(all) # {} THEN Emitted(SubSeq(all, 1, Min(Found(all))), <<>>, TRUE)
        ELSE IF safe > 0 THEN Emitted(SubSeq(all, 1, safe), SubSeq(all, safe + 1, Len(all)), FALSE)
        ELSE Emitted(<<>>, all, FALSE)

\* finish
Flushed == Emitted(IF stopper.matched THEN <<>> ELSE stopper.pending, <<>>, stopper.matched)

-----------------------------------------------------------------------------
(* read_engine_turn and UTF8StreamDecoder *)

\* What the decoder makes of a byte: characters, and whether it holds one.
Decode(byte) ==
    [text |-> IF byte = "lead" THEN <<>> ELSE IF byte = "trail" THEN <<"wide">> ELSE <<byte>>,
     lead |-> byte = "lead",
     bad |-> (byte = "trail") # turn.lead]

\* A stream's events are written as they come, while the client listens.
Streams(s) == IF reply.request.stream /\ wire.open THEN [wire EXCEPT !.text = s.out] ELSE wire

\* The loop's body for one byte: a mark ends the text, and what is longer
\* than the mark is passed on, which is at most one byte.
ReadByte(byte, marked, text) ==
    LET all == Append(turn.pending, byte)
        ended == IsSuffix(Mark, all)
        pass == Len(all) > Len(Mark)
        got == Decode(all[1])
        next == IF pass /\ got.text # <<>> THEN Feed(got.text) ELSE stopper
    IN  IF pass /\ got.bad THEN FailsWith(500)
        ELSE /\ turn' = [pending |-> IF ended THEN <<>> ELSE IF pass THEN Tail(all) ELSE all,
                         marked |-> marked, text |-> text,
                         lead |-> IF pass THEN got.lead ELSE turn.lead]
             /\ stopper' = next
             /\ wire' = Streams(next)
             /\ IF ended THEN Ends("stat") ELSE UNCHANGED reply

EngineText(byte) ==
    /\ reply.at = "read" /\ turn.marked = 0 /\ Len(turn.text) < MaxText
    /\ ~ IsSuffix(Mark, Append(turn.text, byte))
    /\ ReadByte(byte, 0, Append(turn.text, byte))

EngineMark ==
    /\ reply.at = "read"
    /\ ReadByte(Mark[turn.marked + 1], turn.marked + 1, turn.text)

\* The pipe ends, or the STAT line is not one.
EngineBreaks ==
    /\ reply.at \in {"read", "stat"}
    /\ FailsWith(500)

\* The STAT line; the decoder must not hold half a character.
EngineStat(limited) ==
    /\ reply.at = "stat"
    /\ IF turn.lead THEN FailsWith(500)
       ELSE /\ reply' = [reply EXCEPT !.at = "close", !.limited = limited]
            /\ UNCHANGED <<turn, stopper, wire>>

-----------------------------------------------------------------------------
(* The end of the answer *)

Finish == IF stopper.matched \/ ~ reply.limited THEN "stop" ELSE "length"

\* stop_filter.finish, then the final event and [DONE], or the whole answer.
CloseReply ==
    /\ reply.at = "close"
    /\ stopper' = Flushed
    /\ wire' = IF ~ wire.open THEN wire
               ELSE [wire EXCEPT !.text = Flushed.out, !.finish = Finish, !.done = TRUE,
                                 !.status = IF reply.request.stream THEN @ ELSE Append(@, 200)]
    /\ Ends("over")
    /\ UNCHANGED turn

\* The client goes; later writes fail and are not tried again.
ClientLeaves ==
    /\ reply.at \in {"read", "stat", "close"} /\ wire.open
    /\ wire' = [wire EXCEPT !.open = FALSE]
    /\ UNCHANGED <<reply, turn, stopper>>

CompletionNext ==
    \/ \E r \in ChatRequests : PostCompletion(r)
    \/ \E code \in {0, 429, 503} : NotAdmitted(code)
    \/ Begin
    \/ \E running \in BOOLEAN : AskEngine(running)
    \/ \E byte \in TextBytes : EngineText(byte)
    \/ EngineMark
    \/ EngineBreaks
    \/ \E limited \in BOOLEAN : EngineStat(limited)
    \/ CloseReply
    \/ ClientLeaves

CompletionSpec == CompletionInit /\ [][CompletionNext]_replyVars

-----------------------------------------------------------------------------
(* Properties *)

CompletionTypeOK ==
    /\ reply.at \in {"none", "queue", "ask", "read", "stat", "close", "over", "failed"}
    /\ turn.marked \in 0..Len(Mark) /\ Len(turn.pending) <= Len(Mark) /\ Len(turn.text) <= MaxText
    /\ Len(stopper.pending) <= MaxStopLength
    /\ wire.finish \in {"none", "stop", "length"}

\* The characters of a text, each at its first byte, and of the engine's.
Characters(text) ==
    LET Upto[n \in 0..Len(text)] ==
            IF n = 0 THEN <<>>
            ELSE IF text[n] = "trail" THEN Upto[n - 1]
            ELSE Append(Upto[n - 1], IF text[n] = "lead" THEN "wide" ELSE text[n])
    IN  Upto[Len(text)]

Written == Characters(turn.text)

\* A reference definition of what the client should see of a text: all that
\* comes before the stop that is complete first, the longest if several are.
Shown(text) ==
    LET Stopping(i) == {s \in Stops : IsSuffix(s, SubSeq(text, 1, i))}
        complete == {i \in DOMAIN text : Stopping(i) # {}}
        first == Min(complete)
    IN  IF complete = {} THEN text
        ELSE SubSeq(text, 1, first - Max({Len(s) : s \in Stopping(first)}))

\* However the engine's bytes arrive, whatever they look like beside the END
\* mark and wherever the turn breaks, the client never sees a character of a
\* stop sequence or of the mark, a complete answer is exactly the text before
\* the first stop, and says "length" only if all of it is there.  A request
\* gets one status line, but for a stream that fails after its header.
AnswersAreFaithful ==
    reply # NoReply =>
        /\ IF wire.done THEN wire.text = Shown(Written)
           ELSE IsPrefix(wire.text, Shown(Written))
        /\ wire.done => (wire.finish = "length" <=> reply.limited /\ Shown(Written) = Written)
        /\ Len(wire.status) > 1 => reply.request.stream /\ reply.at = "failed"
        /\ reply.at = "over" /\ wire.status = <<200>> => wire.done \/ ~ wire.open
=============================================================================
