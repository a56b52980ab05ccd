---------------------------- MODULE DaemonProofs ----------------------------
(***************************************************************************)
(* Theorems about the local inference daemon, for any number of request    *)
(* frames, handles, keys and contents.                                     *)
(***************************************************************************)
EXTENDS Daemon, TLAPS, FiniteSetTheorems

Places == {"unsent", "started", "loading", "generating", "writing", "done"}

\* The thread of a frame only gets to the places of that frame's method.
FramesFit ==
    /\ \A r \in Requests : pc[r] # "unsent" => asked[r] \in Frames
    /\ \A r \in Requests : pc[r] = "loading" => asked[r] \in LoadRequests
    /\ \A r \in Requests : pc[r] = "generating" => asked[r] \in GenerateRequests \cup RuntimeRequests

\* What each method's frame looks like.
LEMMA FrameOfMethod ==
    ASSUME NEW f \in Frames
    PROVE  /\ f.method = "load" => f \in LoadRequests
           /\ f.method = "generate" => f \in GenerateRequests
           /\ f.method = "runtime_generate" => f \in RuntimeRequests
           /\ f.method = "unload" => f \in UnloadRequests
           /\ f.method = "cancel" => f \in CancelRequests
BY DEF Frames, Simple, LoadRequests, GenerateRequests, RuntimeRequests, UnloadRequests,
       CancelRequests

(***************************************************************************)
(* The ways a step moves a thread and the lock, whatever else it does.     *)
(***************************************************************************)
Still == UNCHANGED <<pc, lock, asked>>
Begins(r) == /\ pc[r] = "unsent" /\ pc' = [pc EXCEPT ![r] = "started"]
             /\ asked' \in [Requests -> Frames \cup {None}]
             /\ asked'[r] \in Frames
             /\ \A s \in Requests \ {r} : asked'[s] = asked[s]
             /\ UNCHANGED lock
AnswersAtOnce(r) == /\ pc[r] = "started" /\ pc' = [pc EXCEPT ![r] = "writing"]
               /\ UNCHANGED <<asked, lock>>
Takes(r) == /\ pc[r] = "started" /\ lock = None /\ lock' = r
            /\ \/ LoadServer(r) /\ pc' = [pc EXCEPT ![r] = "loading"]
               \/ GenerateBegin(r) /\ pc' = [pc EXCEPT ![r] = "generating"]
            /\ UNCHANGED asked
Gives(r) == /\ pc[r] \in {"loading", "generating"} /\ pc' = [pc EXCEPT ![r] = "writing"]
            /\ lock' = None
            /\ UNCHANGED asked
Writes(r) == /\ pc[r] = "writing" /\ pc' = [pc EXCEPT ![r] = "done"]
             /\ UNCHANGED <<asked, lock>>

LEMMA ThreadSteps ==
    ASSUME TypeOK, [Next]_vars
    PROVE  Still \/ \E r \in Requests : Begins(r) \/ AnswersAtOnce(r) \/ Takes(r) \/ Gives(r) \/ Writes(r)
<1> USE DEF history, Still
<1>1. ASSUME NEW r \in Requests, Handshake(r) \/ Drain(r) \/ Cancel(r) \/ Unload(r) \/ Shutdown(r)
      PROVE  AnswersAtOnce(r)
  BY <1>1 DEF Handshake, Drain, Cancel, Unload, Shutdown, Enters, Reply, AnswersAtOnce
<1>2. ASSUME NEW r \in Requests, LoadRefused(r) \/ LoadFixture(r) \/ Expired(r) \/ Replay(r)
                                 \/ GenerateAtOnce(r)
      PROVE  AnswersAtOnce(r)
  BY <1>2 DEF LoadRefused, LoadFixture, Expired, Replay, GenerateAtOnce, EntersGenerate, Enters,
              Reply, AnswersAtOnce
<1>3. ASSUME NEW r \in Requests, LoadServer(r) \/ GenerateBegin(r) PROVE Takes(r)
  BY <1>3 DEF LoadServer, Spawn, GenerateBegin, EntersGenerate, Enters, Takes
<1>4. ASSUME NEW r \in Requests, LoadReady(r) \/ LoadFailed(r) PROVE Gives(r)
  BY <1>4 DEF LoadReady, LoadFailed, Reply, Gives
<1>5. ASSUME NEW r \in Requests, Generated(r) \/ GenerationRaises(r) PROVE Gives(r)
  BY <1>5 DEF Generated, GenerationRaises, GenerateEnd, Reply, Gives
<1>6. ASSUME NEW r \in Requests, Write(r) PROVE Writes(r)
  BY <1>6 DEF Write, Writes
<1>7. ASSUME NEW r \in Requests, NEW frame \in Frames, Receive(r, frame) PROVE Begins(r)
  BY <1>7 DEF Receive, Begins, TypeOK
<1>8. ASSUME NEW r \in Requests, ServerDies(r) PROVE Still
  BY <1>8 DEF ServerDies
<1>9. CASE EndOfFrames \/ Exit \/ UNCHANGED vars
  BY <1>9 DEF EndOfFrames, Exit, vars
<1>10. QED
  BY <1>1, <1>2, <1>3, <1>4, <1>5, <1>6, <1>7, <1>8, <1>9 DEF Next, Thread, Load, Generate

LEMMA InitFramesFit == Init => FramesFit
BY DEF Init, FramesFit

LEMMA NextFramesFit == TypeOK /\ FramesFit /\ [Next]_vars => FramesFit'
<1> SUFFICES ASSUME TypeOK, FramesFit, [Next]_vars PROVE FramesFit'
  OBVIOUS
<1>a. pc \in [Requests -> Places]
  BY DEF TypeOK, Places
<1>1. CASE Still
  BY <1>1 DEF Still, FramesFit
<1>2. ASSUME NEW r \in Requests, Begins(r) PROVE FramesFit'
  BY <1>2, <1>a DEF Begins, FramesFit
<1>3. ASSUME NEW r \in Requests, AnswersAtOnce(r) \/ Gives(r) \/ Writes(r) PROVE FramesFit'
  BY <1>3, <1>a DEF AnswersAtOnce, Gives, Writes, FramesFit
<1>4. ASSUME NEW r \in Requests, Takes(r) PROVE FramesFit'
  <2>1. asked[r] \in Frames
    BY <1>4 DEF Takes, FramesFit
  <2>2. CASE LoadServer(r) /\ pc' = [pc EXCEPT ![r] = "loading"]
    <3>1. asked[r] \in LoadRequests
      BY <2>1, <2>2, FrameOfMethod DEF LoadServer, Spawn, Enters
    <3>2. QED
      BY <1>4, <1>a, <2>1, <2>2, <3>1 DEF Takes, FramesFit
  <2>3. CASE GenerateBegin(r) /\ pc' = [pc EXCEPT ![r] = "generating"]
    <3>1. asked[r] \in GenerateRequests \cup RuntimeRequests
      BY <2>1, <2>3, FrameOfMethod DEF GenerateBegin, EntersGenerate, Enters
    <3>2. QED
      BY <1>4, <1>a, <2>1, <2>3, <3>1 DEF Takes, FramesFit
  <2>4. QED
    BY <1>4, <2>2, <2>3 DEF Takes
<1>5. QED
  BY <1>1, <1>2, <1>3, <1>4, ThreadSteps

(***************************************************************************)
(* TypeOK, one variable at a time.                                         *)
(***************************************************************************)
LEMMA InitTypeOK == Init => TypeOK
<1> SUFFICES ASSUME Init PROVE TypeOK
  OBVIOUS
<1>1. server \in [Requests -> {"none", "up", "stopped"}]
  BY DEF Init
<1>2. pc \in [Requests -> {"unsent", "started", "loading", "generating", "writing", "done"}]
  BY DEF Init
<1>3. /\ asked \in [Requests -> Frames \cup {None}]
      /\ answer \in [Requests -> Answers \cup {None}]
      /\ lock \in Requests \cup {None}
      /\ replays \in [Keys -> [digest : Digests, answer : Answers] \cup {None}]
      /\ produced \in [Keys -> SUBSET Requests]
  BY DEF Init
<1>4. handles \in [Handles -> [backend : {"fixture", "llama"}, server : Requests \cup {None}] \cup {None}]
  BY DEF Init
<1>5. QED
  BY <1>1, <1>2, <1>3, <1>4 DEF Init, TypeOK

LEMMA NextTypeOK == TypeOK /\ FramesFit /\ [Next]_vars => TypeOK'
<1> SUFFICES ASSUME TypeOK, FramesFit, [Next]_vars PROVE TypeOK'
  OBVIOUS
<1>a. pc \in [Requests -> Places]
  BY DEF TypeOK, Places
<1>1. pc' \in [Requests -> Places] /\ lock' \in Requests \cup {None}
  BY <1>a, ThreadSteps DEF TypeOK, Still, Begins, AnswersAtOnce, Takes, Gives, Writes, Places
<1>2. asked' \in [Requests -> Frames \cup {None}]
  BY ThreadSteps DEF TypeOK, Still, Begins, AnswersAtOnce, Takes, Gives, Writes
<1>3. answer' \in [Requests -> Answers \cup {None}]
  <2>1. UNCHANGED answer \/ \E r \in Requests, what \in Answers : answer' = [answer EXCEPT ![r] = what]
    <3> USE DEF Answers
    <3>1. ASSUME NEW r \in Requests, Thread(r)
          PROVE  UNCHANGED answer \/ \E what \in Answers : answer' = [answer EXCEPT ![r] = what]
      <4>1. CASE Handshake(r) \/ Drain(r) \/ Cancel(r) \/ Unload(r) \/ Shutdown(r) \/ Write(r)
        BY <4>1 DEF Handshake, Drain, Cancel, Unload, Shutdown, Reply, Write
      <4>2. CASE Load(r)
        BY <4>2 DEF Load, LoadRefused, LoadFixture, LoadServer, Spawn, LoadReady, LoadFailed, Reply
      <4>3. CASE Generate(r)
        <5>1. CASE Expired(r) \/ Replay(r) \/ GenerateBegin(r) \/ GenerationRaises(r)
          BY <5>1 DEF Expired, Replay, GenerateBegin, GenerationRaises, GenerateEnd, Reply
        <5>2. CASE GenerateAtOnce(r)
          BY <5>2 DEF GenerateAtOnce, AtOnce, Reply
        <5>3. CASE Generated(r)
          BY <5>3 DEF Generated, GenerateEnd, Reply
        <5>4. QED
          BY <4>3, <5>1, <5>2, <5>3 DEF Generate
      <4>4. QED
        BY <3>1, <4>1, <4>2, <4>3 DEF Thread
    <3>2. CASE UNCHANGED vars \/ EndOfFrames \/ Exit
      BY <3>2 DEF vars, EndOfFrames, Exit
    <3>3. ASSUME NEW r \in Requests, ServerDies(r) PROVE UNCHANGED answer
      BY <3>3 DEF ServerDies
    <3>4. ASSUME NEW r \in Requests, NEW frame \in Frames, Receive(r, frame) PROVE UNCHANGED answer
      BY <3>4 DEF Receive
    <3>5. QED
      BY <3>1, <3>2, <3>3, <3>4 DEF Next
  <2>2. QED
    BY <2>1 DEF TypeOK
<1>4. handles' \in [Handles -> [backend : {"fixture", "llama"}, server : Requests \cup {None}] \cup {None}]
  <2> DEFINE Handle == [backend : {"fixture", "llama"}, server : Requests \cup {None}]
  <2>0. handles \in [Handles -> Handle \cup {None}]
    BY DEF TypeOK
  <2>1. ASSUME NEW r \in Requests, LoadFixture(r) \/ LoadReady(r) PROVE handles' \in [Handles -> Handle \cup {None}]
    <3>1. CASE LoadFixture(r)
      <4>1. [backend |-> "fixture", server |-> None] \in Handle
        OBVIOUS
      <4>2. QED
        BY <2>0, <3>1, <4>1 DEF LoadFixture
    <3>2. CASE LoadReady(r)
      <4>1. [backend |-> "llama", server |-> r] \in Handle
        OBVIOUS
      <4>2. QED
        BY <2>0, <3>2, <4>1 DEF LoadReady
    <3>3. QED
      BY <2>1, <3>1, <3>2
  <2>2. ASSUME NEW r \in Requests, Unload(r) PROVE handles' \in [Handles -> Handle \cup {None}]
    BY <2>0, <2>2 DEF Unload
  <2>3. ASSUME NEW r \in Requests, Thread(r), ~LoadFixture(r), ~LoadReady(r), ~Unload(r)
        PROVE  UNCHANGED handles
    BY <2>3, SMTT(30)
       DEF Thread, Handshake, Drain, Cancel, Shutdown, Load, LoadRefused, LoadServer, Spawn, LoadFailed,
           Generate, Expired, Replay, GenerateAtOnce, GenerateBegin, Generated, GenerationRaises,
           GenerateEnd, Write, models
  <2>4. ASSUME NEW r \in Requests, ServerDies(r) PROVE UNCHANGED handles
    BY <2>4 DEF ServerDies
  <2>5. ASSUME NEW r \in Requests, NEW frame \in Frames, Receive(r, frame) PROVE UNCHANGED handles
    BY <2>5 DEF Receive, models
  <2>6. CASE UNCHANGED vars \/ EndOfFrames \/ Exit
    BY <2>0, <2>6 DEF vars, EndOfFrames, Exit, models
  <2>7. QED
    BY <2>0, <2>1, <2>2, <2>3, <2>4, <2>5, <2>6 DEF Next
<1>5. server' \in [Requests -> {"none", "up", "stopped"}]
  <2>1. \/ UNCHANGED server
        \/ \E r \in Requests, s \in {"up", "stopped"} : server' = [server EXCEPT ![r] = s]
        \/ \E hs \in SUBSET Handles : StopServers(hs)
    <3>1. ASSUME NEW r \in Requests, Unload(r) \/ Shutdown(r)
          PROVE  UNCHANGED server \/ \E hs \in SUBSET Handles : StopServers(hs)
      <4>1. CASE Shutdown(r)
        BY <4>1 DEF Shutdown
      <4>2. CASE Unload(r)
        <5>1. asked[r] \in UnloadRequests
          BY <4>2, FrameOfMethod DEF Unload, Enters, FramesFit
        <5>2. asked[r].handle \in Handles
          BY <5>1 DEF UnloadRequests
        <5>3. QED
          BY <4>2, <5>2 DEF Unload
      <4>3. QED
        BY <3>1, <4>1, <4>2
    <3>2. ASSUME NEW r \in Requests, Load(r) \/ ServerDies(r)
          PROVE  UNCHANGED server \/ \E s \in {"up", "stopped"} : server' = [server EXCEPT ![r] = s]
      BY <3>2 DEF Load, LoadRefused, LoadFixture, LoadServer, Spawn, LoadReady, LoadFailed, ServerDies, models
    <3>3. ASSUME NEW r \in Requests, Handshake(r) \/ Drain(r) \/ Cancel(r) \/ Generate(r) \/ Write(r)
          PROVE  UNCHANGED server
      BY <3>3 DEF Handshake, Drain, Cancel, Generate, Expired, Replay, GenerateAtOnce, GenerateBegin,
                  Generated, GenerationRaises, GenerateEnd, Write, models
    <3>4. ASSUME NEW r \in Requests, NEW frame \in Frames, Receive(r, frame) PROVE UNCHANGED server
      BY <3>4 DEF Receive, models
    <3>5. CASE UNCHANGED vars \/ EndOfFrames \/ Exit
      BY <3>5 DEF vars, EndOfFrames, Exit, models
    <3>6. QED
      BY <3>1, <3>2, <3>3, <3>4, <3>5 DEF Next, Thread
  <2>2. ASSUME NEW hs \in SUBSET Handles, StopServers(hs)
        PROVE  server' \in [Requests -> {"none", "up", "stopped"}]
    BY <2>2 DEF StopServers, TypeOK
  <2>3. QED
    BY <2>1, <2>2 DEF TypeOK
<1>6. /\ state' \in {"cold", "ready", "draining", "stopped"}
      /\ draining' \in BOOLEAN
      /\ phase' \in {"reading", "joining", "exited"}
      /\ intime' \subseteq Requests
  <2>1. ASSUME NEW r \in Requests, Thread(r)
        PROVE  /\ UNCHANGED <<phase, intime>>
               /\ UNCHANGED state \/ state' \in {"ready", "draining", "stopped"}
               /\ UNCHANGED draining \/ draining' = TRUE
    <3> USE DEF lifecycle, history
    <3>1. CASE Handshake(r) \/ Drain(r) \/ Cancel(r) \/ Unload(r) \/ Shutdown(r) \/ Write(r)
      BY <3>1 DEF Handshake, Drain, Cancel, Unload, Shutdown, Write
    <3>2. CASE Load(r)
      BY <3>2 DEF Load, LoadRefused, LoadFixture, LoadServer, Spawn, LoadReady, LoadFailed
    <3>3. CASE Generate(r)
      BY <3>3 DEF Generate, Expired, Replay, GenerateAtOnce, GenerateBegin, Generated,
                  GenerationRaises, GenerateEnd
    <3>4. QED
      BY <2>1, <3>1, <3>2, <3>3 DEF Thread
  <2>2. ASSUME NEW r \in Requests, ServerDies(r) PROVE UNCHANGED <<phase, intime, state, draining>>
    BY <2>2 DEF ServerDies, lifecycle, history
  <2>3. ASSUME NEW r \in Requests, NEW frame \in Frames, Receive(r, frame)
        PROVE  /\ intime' \subseteq Requests /\ phase' \in {phase, "joining"}
               /\ UNCHANGED <<state, draining>>
    BY <2>3 DEF Receive, lifecycle, TypeOK
  <2>4. CASE UNCHANGED vars \/ EndOfFrames \/ Exit
    BY <2>4 DEF TypeOK, vars, EndOfFrames, Exit, lifecycle, history
  <2>5. QED
    BY <2>1, <2>2, <2>3, <2>4 DEF Next, TypeOK
<1>7. inflight' \subseteq Requests /\ flagged' \subseteq inflight'
  <2>1. \/ UNCHANGED <<inflight, flagged>>
        \/ \E r \in Requests : inflight' = inflight \cup {r} /\ UNCHANGED flagged
        \/ \E r \in Requests : inflight' = inflight \ {r} /\ flagged' = flagged \ {r}
        \/ UNCHANGED inflight /\ flagged' \subseteq flagged \cup inflight
    <3>1. ASSUME NEW r \in Requests, Cancel(r) \/ Shutdown(r)
          PROVE  UNCHANGED inflight /\ flagged' \subseteq flagged \cup inflight
      BY <3>1 DEF Cancel, Shutdown
    <3>2. ASSUME NEW r \in Requests, Generate(r)
          PROVE  \/ UNCHANGED <<inflight, flagged>>
                 \/ inflight' = inflight \cup {r} /\ UNCHANGED flagged
                 \/ inflight' = inflight \ {r} /\ flagged' = flagged \ {r}
      BY <3>2 DEF Generate, Expired, Replay, GenerateAtOnce, GenerateBegin, Generated,
                  GenerationRaises, GenerateEnd, generations
    <3>3. ASSUME NEW r \in Requests,
                 Handshake(r) \/ Drain(r) \/ Unload(r) \/ Load(r) \/ Write(r) \/ ServerDies(r)
          PROVE  UNCHANGED <<inflight, flagged>>
      BY <3>3 DEF Handshake, Drain, Unload, Load, LoadRefused, LoadFixture, LoadServer, Spawn, LoadReady,
                  LoadFailed, Write, ServerDies, generations
    <3>4. ASSUME NEW r \in Requests, NEW frame \in Frames, Receive(r, frame)
          PROVE  UNCHANGED <<inflight, flagged>>
      BY <3>4 DEF Receive, generations
    <3>5. CASE UNCHANGED vars \/ EndOfFrames \/ Exit
      BY <3>5 DEF vars, EndOfFrames, Exit, generations
    <3>6. QED
      BY <3>1, <3>2, <3>3, <3>4, <3>5 DEF Next, Thread
  <2>2. QED
    BY <2>1 DEF TypeOK
<1>8. /\ replays' \in [Keys -> [digest : Digests, answer : Answers] \cup {None}]
      /\ produced' \in [Keys -> SUBSET Requests]
  <2>0. /\ replays \in [Keys -> [digest : Digests, answer : Answers] \cup {None}]
        /\ produced \in [Keys -> SUBSET Requests]
    BY DEF TypeOK
  <2>1. ASSUME NEW r \in Requests, asked[r] \in GenerateRequests \cup RuntimeRequests,
               NEW what \in Answers, Remember(r, what)
        PROVE  replays' \in [Keys -> [digest : Digests, answer : Answers] \cup {None}]
    <3>1. CASE Runtime(r)
      <4>1. asked[r].key \in Keys /\ asked[r].digest \in Digests
        BY <2>1, <3>1 DEF Runtime, GenerateRequests, RuntimeRequests
      <4>2. [digest |-> asked[r].digest, answer |-> what] \in [digest : Digests, answer : Answers]
        BY <4>1, <2>1
      <4>3. QED
        BY <2>0, <2>1, <3>1, <4>1, <4>2 DEF Remember
    <3>2. QED
      BY <2>0, <2>1, <3>1 DEF Remember
  <2>2. ASSUME NEW r \in Requests, GenerateAtOnce(r)
        PROVE  asked[r] \in GenerateRequests \cup RuntimeRequests /\ AtOnce(r) \in Answers
    BY <2>2, FrameOfMethod DEF GenerateAtOnce, EntersGenerate, Enters, FramesFit, AtOnce, Answers
  <2>3. ASSUME NEW r \in Requests, Generated(r)
        PROVE  /\ asked[r] \in GenerateRequests \cup RuntimeRequests
               /\ \E what \in Answers : Remember(r, what)
               /\ produced' \in [Keys -> SUBSET Requests]
    <3>1. asked[r] \in GenerateRequests \cup RuntimeRequests
      BY <2>3 DEF Generated, FramesFit
    <3>2. \E what \in Answers : Remember(r, what)
      BY <2>3 DEF Generated, Answers
    <3>3. Runtime(r) => asked[r].key \in Keys
      BY <3>1 DEF Runtime, GenerateRequests, RuntimeRequests
    <3>4. produced' = IF Runtime(r) THEN [produced EXCEPT ![asked[r].key] = @ \cup {r}] ELSE produced
      BY <2>3 DEF Generated
    <3>5. QED
      BY <2>0, <3>1, <3>2, <3>3, <3>4
  <2>4. ASSUME NEW r \in Requests, Thread(r), ~GenerateAtOnce(r), ~Generated(r)
        PROVE  UNCHANGED <<replays, produced>>
    BY <2>4, SMTT(30)
       DEF Thread, Handshake, Drain, Cancel, Unload, Shutdown, Load, LoadRefused, LoadFixture,
           LoadServer, Spawn, LoadReady, LoadFailed, Generate, Expired, Replay, GenerateBegin,
           GenerationRaises, GenerateEnd, Write, generations
  <2>5. ASSUME NEW r \in Requests, ServerDies(r) PROVE UNCHANGED <<replays, produced>>
    BY <2>5 DEF ServerDies, generations
  <2>6. ASSUME NEW r \in Requests, NEW frame \in Frames, Receive(r, frame)
        PROVE  UNCHANGED <<replays, produced>>
    BY <2>6 DEF Receive, generations
  <2>7. CASE UNCHANGED vars \/ EndOfFrames \/ Exit
    BY <2>0, <2>7 DEF vars, EndOfFrames, Exit, generations
  <2>8. ASSUME NEW r \in Requests, GenerateAtOnce(r) 
        PROVE  /\ replays' \in [Keys -> [digest : Digests, answer : Answers] \cup {None}]
               /\ produced' \in [Keys -> SUBSET Requests]
    BY <2>0, <2>1, <2>2, <2>8 DEF GenerateAtOnce
  <2>9. QED
    BY <2>0, <2>1, <2>3, <2>4, <2>5, <2>6, <2>7, <2>8 DEF Next
<1>9. late' \subseteq Requests
  <2>1. ASSUME NEW r \in Requests, Load(r) PROVE late' \subseteq Requests
    BY <2>1 DEF Load, LoadRefused, LoadFixture, LoadServer, Spawn, LoadReady, LoadFailed, TypeOK,
                history
  <2>2. ASSUME NEW r \in Requests, Handshake(r) \/ Drain(r) \/ Cancel(r) \/ Unload(r)
                                   \/ Shutdown(r) \/ Write(r)
        PROVE  UNCHANGED late
    BY <2>2 DEF Handshake, Drain, Cancel, Unload, Shutdown, Write, history
  <2>3. ASSUME NEW r \in Requests, Generate(r) PROVE UNCHANGED late
    BY <2>3 DEF Generate, Expired, Replay, GenerateAtOnce, GenerateBegin, Generated,
                GenerationRaises, GenerateEnd, history
  <2>4. ASSUME NEW r \in Requests, NEW frame \in Frames, Receive(r, frame) PROVE UNCHANGED late
    BY <2>4 DEF Receive
  <2>5. ASSUME NEW r \in Requests, ServerDies(r) PROVE UNCHANGED late
    BY <2>5 DEF ServerDies, history
  <2>6. CASE EndOfFrames \/ Exit \/ UNCHANGED vars
    BY <2>6 DEF EndOfFrames, Exit, vars, history, TypeOK
  <2> QED
    BY <2>1, <2>2, <2>3, <2>4, <2>5, <2>6 DEF Next, Thread, TypeOK
<1>10. QED
  BY <1>1, <1>2, <1>3, <1>4, <1>5, <1>6, <1>7, <1>8, <1>9 DEF TypeOK, Places

LEMMA NextTyped == TypeOK /\ FramesFit /\ [Next]_vars => (TypeOK /\ FramesFit)'
BY NextTypeOK, NextFramesFit

\* Every variable of the daemon holds a value of its kind (InferenceDaemon,
\* RuntimeInferenceBridge, LlamaCppProvider), and no thread is anywhere but
\* where its own method leads.
THEOREM DaemonTypeCorrect == Spec => []TypeOK
<1>1. Init => TypeOK /\ FramesFit
  BY InitTypeOK, InitFramesFit
<1>2. QED
  BY <1>1, NextTyped, PTL DEF Spec

(***************************************************************************)
(* The lock.  It belongs to the load or the generation that is under way,  *)
(* so none is under way when a frame is taken up, and draining, which      *)
(* takes the lock to be set, is never TRUE during one.                     *)
(***************************************************************************)
LockHeld == \A r \in Requests : pc[r] \in {"loading", "generating"} <=> lock = r

NotDraining == \A r \in Requests : pc[r] \in {"loading", "generating"} => ~draining

LEMMA InitLocked == Init => LockHeld /\ NotDraining /\ CancelFindsNothing
BY DaemonAssumption DEF Init, LockHeld, NotDraining, CancelFindsNothing

LEMMA NextLockHeld == TypeOK /\ LockHeld /\ [Next]_vars => LockHeld'
<1> SUFFICES ASSUME TypeOK, LockHeld, [Next]_vars PROVE LockHeld'
  OBVIOUS
<1>a. pc \in [Requests -> Places] /\ None \notin Requests
  BY DaemonAssumption DEF TypeOK, Places
<1>1. CASE Still
  BY <1>1 DEF Still, LockHeld
<1>2. ASSUME NEW r \in Requests, Begins(r) \/ AnswersAtOnce(r) \/ Writes(r) PROVE LockHeld'
  BY <1>2, <1>a DEF Begins, AnswersAtOnce, Writes, LockHeld
<1>3. ASSUME NEW r \in Requests, Takes(r) PROVE LockHeld'
  BY <1>3, <1>a DEF Takes, LockHeld
<1>4. ASSUME NEW r \in Requests, Gives(r) PROVE LockHeld'
  BY <1>4, <1>a DEF Gives, LockHeld
<1>5. QED
  BY <1>1, <1>2, <1>3, <1>4, ThreadSteps

LEMMA NextNotDraining ==
    TypeOK /\ LockHeld /\ NotDraining /\ [Next]_vars => NotDraining' /\ (draining => draining')
<1> SUFFICES ASSUME TypeOK, LockHeld, NotDraining, [Next]_vars
             PROVE  NotDraining' /\ (draining => draining')
  OBVIOUS
<1>a. pc \in [Requests -> Places] /\ None \notin Requests
  BY DaemonAssumption DEF TypeOK, Places
<1>1. ASSUME NEW r \in Requests, Drain(r) PROVE NotDraining' /\ draining'
  BY <1>1, <1>a DEF Drain, Enters, Reply, LockHeld, NotDraining
<1>2. UNCHANGED draining \/ \E r \in Requests : Drain(r)
  <2> USE DEF lifecycle
  <2>1. ASSUME NEW r \in Requests,
               Handshake(r) \/ Cancel(r) \/ Unload(r) \/ Shutdown(r) \/ Load(r) \/ Write(r)
        PROVE  UNCHANGED draining
    BY <2>1 DEF Handshake, Cancel, Unload, Shutdown, Load, LoadRefused, LoadFixture, LoadServer, Spawn,
                LoadReady, LoadFailed, Write
  <2>2. ASSUME NEW r \in Requests, Generate(r) PROVE UNCHANGED draining
    BY <2>2 DEF Generate, Expired, Replay, GenerateAtOnce, GenerateBegin, Generated,
                GenerationRaises, GenerateEnd
  <2>3. ASSUME NEW r \in Requests, ServerDies(r) PROVE UNCHANGED draining
    BY <2>3 DEF ServerDies
  <2>4. ASSUME NEW r \in Requests, NEW frame \in Frames, Receive(r, frame) PROVE UNCHANGED draining
    BY <2>4 DEF Receive
  <2>5. CASE UNCHANGED vars \/ EndOfFrames \/ Exit
    BY <2>5 DEF vars, EndOfFrames, Exit
  <2>6. QED
    BY <2>1, <2>2, <2>3, <2>4, <2>5 DEF Next, Thread
<1>3. CASE UNCHANGED draining
  <2>1. ASSUME NEW r \in Requests, Takes(r) PROVE ~draining
    BY <2>1, DaemonAssumption DEF Takes, LoadServer, Spawn, GenerateBegin, AtOnce, Answers
  <2>2. ASSUME NEW r \in Requests, Takes(r) PROVE NotDraining'
    BY <1>3, <2>1, <2>2 DEF NotDraining
  <2>3. ASSUME NEW r \in Requests, Begins(r) \/ AnswersAtOnce(r) \/ Gives(r) \/ Writes(r)
        PROVE  NotDraining'
    BY <1>3, <1>a, <2>3 DEF Begins, AnswersAtOnce, Gives, Writes, NotDraining
  <2>4. CASE Still
    BY <1>3, <2>4 DEF Still, NotDraining
  <2>5. QED
    BY <1>3, <2>2, <2>3, <2>4, ThreadSteps
<1>4. QED
  BY <1>1, <1>2, <1>3

LEMMA NextCancelFindsNothing ==
    TypeOK /\ LockHeld /\ CancelFindsNothing /\ [Next]_vars => CancelFindsNothing'
<1> SUFFICES ASSUME TypeOK, LockHeld, CancelFindsNothing, [Next]_vars PROVE CancelFindsNothing'
  OBVIOUS
<1>a. pc \in [Requests -> Places] /\ None \notin Requests /\ lock \in Requests \cup {None}
  BY DaemonAssumption DEF TypeOK, Places
<1>b. lock = None => inflight = {}
  BY DEF CancelFindsNothing
<1>c. \A r \in Requests : pc[r] = "generating" => inflight = {r}
  BY <1>a DEF CancelFindsNothing, LockHeld
<1>1. ASSUME NEW r \in Requests, pc[r] \notin {"loading", "generating"},
             \E p \in Places \ {"loading", "generating"} : pc' = [pc EXCEPT ![r] = p],
             UNCHANGED <<lock, inflight, flagged>>
      PROVE  CancelFindsNothing'
  BY <1>1, <1>a DEF CancelFindsNothing, LockHeld
<1>2. CASE UNCHANGED <<pc, lock, inflight, flagged>>
  BY <1>2 DEF CancelFindsNothing
<1>3. ASSUME NEW r \in Requests, Cancel(r) \/ Shutdown(r)
      PROVE  CancelFindsNothing'
  <2>1. UNCHANGED <<lock, inflight, flagged>>
    <3>1. lock = None /\ flagged = {} /\ inflight = {}
      BY <1>3, <1>b DEF Cancel, Shutdown, Enters, CancelFindsNothing
    <3>2. flagged' \subseteq flagged \cup inflight /\ UNCHANGED <<lock, inflight>>
      BY <1>3 DEF Cancel, Shutdown
    <3>3. QED
      BY <3>1, <3>2
  <2>2. pc[r] = "started" /\ pc' = [pc EXCEPT ![r] = "writing"]
    BY <1>3 DEF Cancel, Shutdown, Enters, Reply
  <2>3. QED
    BY <1>1, <2>1, <2>2 DEF Places
<1>4. ASSUME NEW r \in Requests, Handshake(r) \/ Drain(r) \/ Unload(r) \/ Write(r)
      PROVE  CancelFindsNothing'
  <2>1. /\ pc[r] \in {"started", "writing"} /\ UNCHANGED <<lock, inflight, flagged>>
        /\ \E p \in {"writing", "done"} : pc' = [pc EXCEPT ![r] = p]
    BY <1>4 DEF Handshake, Drain, Unload, Write, Enters, Reply, generations
  <2>2. QED
    BY <1>1, <2>1 DEF Places
<1>5. ASSUME NEW r \in Requests, Load(r) PROVE CancelFindsNothing'
  <2>1. CASE LoadRefused(r) \/ LoadFixture(r)
    <3>1. /\ pc[r] = "started" /\ UNCHANGED <<lock, inflight, flagged>>
          /\ pc' = [pc EXCEPT ![r] = "writing"]
      BY <2>1 DEF LoadRefused, LoadFixture, Enters, Reply, generations
    <3>2. QED
      BY <1>1, <3>1 DEF Places
  <2>2. CASE LoadServer(r)
    BY <2>2, <1>a, <1>b DEF LoadServer, Spawn, Enters, generations, CancelFindsNothing
  <2>3. CASE LoadReady(r) \/ LoadFailed(r)
    <3>1. pc[r] = "loading" /\ lock' = None /\ UNCHANGED <<inflight, flagged>>
      BY <2>3 DEF LoadReady, LoadFailed, generations
    <3>2. lock = r /\ inflight = {}
      BY <1>a, <3>1 DEF LockHeld, CancelFindsNothing
    <3>3. QED
      BY <3>1, <3>2 DEF CancelFindsNothing
  <2>4. QED
    BY <1>5, <2>1, <2>2, <2>3 DEF Load
<1>6. ASSUME NEW r \in Requests, Generate(r) PROVE CancelFindsNothing'
  <2>1. CASE Expired(r) \/ Replay(r) \/ GenerateAtOnce(r)
    <3>1. /\ pc[r] = "started" /\ UNCHANGED <<lock, inflight, flagged>>
          /\ pc' = [pc EXCEPT ![r] = "writing"]
      BY <2>1 DEF Expired, Replay, GenerateAtOnce, EntersGenerate, Enters, Reply, generations
    <3>2. QED
      BY <1>1, <3>1 DEF Places
  <2>2. CASE GenerateBegin(r)
    BY <2>2, <1>a, <1>b DEF GenerateBegin, EntersGenerate, Enters, CancelFindsNothing
  <2>3. CASE Generated(r) \/ GenerationRaises(r)
    <3>1. pc[r] = "generating" /\ lock' = None /\ inflight' = inflight \ {r} /\ flagged' = flagged \ {r}
      BY <2>3 DEF Generated, GenerationRaises, GenerateEnd
    <3>2. QED
      BY <1>c, <3>1 DEF CancelFindsNothing
  <2>4. QED
    BY <1>6, <2>1, <2>2, <2>3 DEF Generate
<1>7. ASSUME NEW r \in Requests, NEW frame \in Frames, Receive(r, frame) PROVE CancelFindsNothing'
  <2>1. /\ pc[r] = "unsent" /\ UNCHANGED <<lock, inflight, flagged>>
        /\ pc' = [pc EXCEPT ![r] = "started"]
    BY <1>7 DEF Receive, generations
  <2>2. QED
    BY <1>1, <2>1 DEF Places
<1>8. QED
  <2>1. ASSUME NEW r \in Requests, ServerDies(r) PROVE UNCHANGED <<pc, lock, inflight, flagged>>
    BY <2>1 DEF ServerDies, generations
  <2>2. UNCHANGED vars \/ EndOfFrames \/ Exit => UNCHANGED <<pc, lock, inflight, flagged>>
    BY DEF vars, EndOfFrames, Exit, generations
  <2>3. QED
    BY <1>2, <1>3, <1>4, <1>5, <1>6, <1>7, <2>1, <2>2 DEF Next, Thread

Locked == TypeOK /\ FramesFit /\ LockHeld /\ NotDraining /\ CancelFindsNothing

LEMMA LockedAlways == Spec => []Locked
<1>1. Init => Locked
  BY InitTypeOK, InitFramesFit, InitLocked DEF Locked
<1>2. Locked /\ [Next]_vars => Locked'
  BY NextTyped, NextLockHeld, NextNotDraining, NextCancelFindsNothing DEF Locked
<1>3. QED
  BY <1>1, <1>2, PTL DEF Spec

\* The generations cancel and shutdown could reach (daemon.py:195, 219) are only
\* ever the one that holds the lock both of them need: whatever the number of
\* requests and their timing, no generation is flagged.
THEOREM CancelNeverReaches == Spec => []CancelFindsNothing
BY LockedAlways, PTL DEF Locked

(***************************************************************************)
(* Draining.  A load or a generation under way has the lock, so drain is   *)
(* only handled when there is none; from then on draining stays TRUE and   *)
(* every action that would start one refuses.                              *)
(***************************************************************************)
TakesNoWork ==
    draining => /\ draining'
                /\ \A h \in Handles : handles'[h] # None => handles[h] # None
                /\ \A r \in Requests : server'[r] = "up" => server[r] = "up"
                /\ \A r \in Requests : pc'[r] = "generating" => pc[r] = "generating"

LEMMA NextTakesNoWork == Locked /\ [Next]_vars => TakesNoWork
<1> SUFFICES ASSUME Locked, [Next]_vars, draining
             PROVE  /\ draining'
                    /\ \A h \in Handles : handles'[h] # None => handles[h] # None
                    /\ \A r \in Requests : server'[r] = "up" => server[r] = "up"
                    /\ \A r \in Requests : pc'[r] = "generating" => pc[r] = "generating"
  BY DEF TakesNoWork
<1>a. /\ TypeOK /\ LockHeld /\ NotDraining
      /\ pc \in [Requests -> Places]
      /\ server \in [Requests -> {"none", "up", "stopped"}]
      /\ handles \in [Handles -> [backend : {"fixture", "llama"}, server : Requests \cup {None}] \cup {None}]
  BY DEF Locked, TypeOK, Places
<1>1. draining'
  BY <1>a, NextNotDraining
<1>2. ASSUME NEW r \in Requests PROVE ~LoadServer(r) /\ ~LoadFixture(r) /\ ~LoadReady(r) /\ ~GenerateBegin(r)
  BY <1>a, DaemonAssumption
     DEF LoadServer, Spawn, LoadFixture, LoadReady, GenerateBegin, AtOnce, NotDraining, Answers
<1>3. \A r \in Requests : pc'[r] = "generating" => pc[r] = "generating"
  BY <1>a, <1>2, ThreadSteps DEF Still, Begins, AnswersAtOnce, Takes, Gives, Writes
<1>4. \A h \in Handles : handles'[h] # None => handles[h] # None
  <2>1. ASSUME NEW r \in Requests, Unload(r) PROVE \A h \in Handles : handles'[h] # None => handles[h] # None
    BY <1>a, <2>1 DEF Unload
  <2>2. ASSUME NEW r \in Requests, Thread(r), ~Unload(r) PROVE UNCHANGED handles
    <3> USE DEF models
    <3>1. CASE Handshake(r) \/ Drain(r) \/ Cancel(r) \/ Shutdown(r) \/ Write(r)
      BY <3>1 DEF Handshake, Drain, Cancel, Shutdown, Write
    <3>2. CASE Load(r)
      BY <1>2, <3>2 DEF Load, LoadRefused, LoadFailed
    <3>3. CASE Generate(r)
      BY <1>2, <3>3 DEF Generate, Expired, Replay, GenerateAtOnce, Generated, GenerationRaises, GenerateEnd
    <3>4. QED
      BY <2>2, <3>1, <3>2, <3>3 DEF Thread
  <2>3. ASSUME NEW r \in Requests, ServerDies(r) PROVE UNCHANGED handles
    BY <2>3 DEF ServerDies
  <2>4. ASSUME NEW r \in Requests, NEW frame \in Frames, Receive(r, frame) PROVE UNCHANGED handles
    BY <2>4 DEF Receive, models
  <2>5. UNCHANGED vars \/ EndOfFrames \/ Exit => UNCHANGED handles
    BY DEF vars, EndOfFrames, Exit, models
  <2>6. QED
    BY <2>1, <2>2, <2>3, <2>4, <2>5 DEF Next
<1>5. \A r \in Requests : server'[r] = "up" => server[r] = "up"
  <2>1. ASSUME NEW r \in Requests, Unload(r) \/ Shutdown(r) \/ Load(r) \/ ServerDies(r)
        PROVE  \A s \in Requests : server'[s] = "up" => server[s] = "up"
    <3>1. CASE Unload(r) \/ Shutdown(r)
      BY <1>a, <3>1 DEF Unload, Shutdown, StopServers
    <3>2. CASE Load(r) \/ ServerDies(r)
      BY <1>a, <1>2, <3>2 DEF Load, LoadRefused, LoadFailed, ServerDies, models
    <3>3. QED
      BY <2>1, <3>1, <3>2
  <2>2. ASSUME NEW r \in Requests, Handshake(r) \/ Drain(r) \/ Cancel(r) \/ Generate(r) \/ Write(r)
        PROVE  UNCHANGED server
    BY <2>2 DEF Handshake, Drain, Cancel, Generate, Expired, Replay, GenerateAtOnce, GenerateBegin,
                Generated, GenerationRaises, GenerateEnd, Write, models
  <2>3. ASSUME NEW r \in Requests, NEW frame \in Frames, Receive(r, frame) PROVE UNCHANGED server
    BY <2>3 DEF Receive, models
  <2>4. UNCHANGED vars \/ EndOfFrames \/ Exit => UNCHANGED server
    BY DEF vars, EndOfFrames, Exit, models
  <2>5. QED
    BY <2>1, <2>2, <2>3, <2>4 DEF Next, Thread
<1>6. QED
  BY <1>1, <1>3, <1>4, <1>5

\* A draining daemon loads no model, starts no server and begins no generation,
\* although a handshake may have set its state back to "ready" (daemon.py:107).
THEOREM DrainIsFinal == Spec => DrainedTakesNoWork
<1>1. Locked /\ Locked' /\ [Next]_vars => [TakesNoWork]_vars
  BY NextTakesNoWork
<1>2. QED
  BY <1>1, LockedAlways, PTL DEF Spec, DrainedTakesNoWork, TakesNoWork

(***************************************************************************)
(* The replay cache.  What is kept for a key is never replaced, a          *)
(* generation for a key is only under way while nothing is kept for it,    *)
(* and the lock keeps a second one from being under way.                   *)
(***************************************************************************)
KeyServed(k) ==
    /\ produced[k] # {} => replays[k] # None
    /\ produced[k] = {} \/ \E r \in Requests : produced[k] = {r}
    /\ \A r \in produced[k] : asked[r] \in RuntimeRequests /\ pc[r] \in {"writing", "done"}
                              /\ replays[k].digest = asked[r].digest

GeneratesUnkept == \A r \in Requests : pc[r] = "generating" => ~Known(r)

ReplayFits ==
    \A r \in Requests :
        pc[r] \in {"writing", "done"} /\ answer[r] = "replayed" =>
            /\ asked[r] \in RuntimeRequests
            /\ Known(r)
            /\ replays[asked[r].key].digest = asked[r].digest

Served == GeneratesUnkept /\ ReplayFits /\ \A k \in Keys : KeyServed(k)

LEMMA InitServed == Init => Served
BY DEF Init, Served, GeneratesUnkept, ReplayFits, KeyServed

LEMMA NextServed == Locked /\ Served /\ [Next]_vars => Served'
<1> SUFFICES ASSUME Locked, Served, [Next]_vars PROVE Served'
  OBVIOUS
<1>a. /\ pc \in [Requests -> Places] /\ answer \in [Requests -> Answers \cup {None}]
      /\ replays \in [Keys -> [digest : Digests, answer : Answers] \cup {None}]
      /\ produced \in [Keys -> SUBSET Requests]
      /\ asked \in [Requests -> Frames \cup {None}]
  BY DEF Locked, TypeOK, Places
<1>b. TypeOK /\ FramesFit /\ LockHeld
  BY DEF Locked
<1>c. GeneratesUnkept /\ ReplayFits /\ \A k \in Keys : KeyServed(k)
  BY DEF Served
<1>d. lock = None => \A r \in Requests : pc[r] # "generating"
  BY <1>b, DaemonAssumption DEF LockHeld
\* Steps that keep nothing new and answer with no replay.
<1>1. ASSUME NEW r \in Requests, pc[r] \in {"started", "loading", "generating"},
             \E p \in {"loading", "writing"} : pc' = [pc EXCEPT ![r] = p],
             pc'[r] = "writing" => answer'[r] # "replayed",
             \A s \in Requests \ {r} : answer'[s] = answer[s],
             UNCHANGED <<asked, replays, produced>>
      PROVE  Served'
  <2>1. GeneratesUnkept'
    BY <1>1, <1>a, <1>c DEF GeneratesUnkept, Known, Runtime
  <2>2. ReplayFits'
    BY <1>1, <1>a, <1>c DEF ReplayFits, Known, Runtime
  <2>3. ASSUME NEW k \in Keys PROVE KeyServed(k)'
    BY <1>1, <1>a, <1>c DEF KeyServed
  <2>4. QED
    BY <2>1, <2>2, <2>3 DEF Served
<1>2. CASE UNCHANGED <<pc, asked, answer, replays, produced>>
  BY <1>2, <1>c DEF Served, GeneratesUnkept, ReplayFits, KeyServed, Known, Runtime
<1>3. ASSUME NEW r \in Requests,
             Handshake(r) \/ Drain(r) \/ Cancel(r) \/ Unload(r) \/ Shutdown(r)
      PROVE  Served'
  <2>1. /\ pc[r] = "started" /\ pc' = [pc EXCEPT ![r] = "writing"]
        /\ answer' \in {[answer EXCEPT ![r] = "ok"], [answer EXCEPT ![r] = "unknown"]}
        /\ UNCHANGED <<asked, replays, produced>>
    BY <1>3 DEF Handshake, Drain, Cancel, Unload, Shutdown, Enters, Reply, generations, history
  <2>2. QED
    BY <1>1, <1>a, <2>1
<1>4. ASSUME NEW r \in Requests, Write(r) PROVE Served'
  <2>1. /\ pc[r] = "writing" /\ pc' = [pc EXCEPT ![r] = "done"]
        /\ UNCHANGED <<asked, answer, replays, produced>>
    BY <1>4 DEF Write, generations, history
  <2>2. GeneratesUnkept'
    BY <1>a, <1>c, <2>1 DEF GeneratesUnkept, Known, Runtime
  <2>3. ReplayFits'
    BY <1>a, <1>c, <2>1 DEF ReplayFits, Known, Runtime
  <2>4. ASSUME NEW k \in Keys PROVE KeyServed(k)'
    BY <1>a, <1>c, <2>1 DEF KeyServed
  <2>5. QED
    BY <2>2, <2>3, <2>4 DEF Served
<1>5. ASSUME NEW r \in Requests, Load(r) PROVE Served'
  <2>1. /\ pc[r] \in {"started", "loading"}
        /\ UNCHANGED <<asked, replays, produced>>
    BY <1>5 DEF Load, LoadRefused, LoadFixture, LoadServer, Spawn, LoadReady, LoadFailed, Enters,
                generations, history
  <2>2. \/ pc' = [pc EXCEPT ![r] = "loading"] /\ UNCHANGED answer
        \/ /\ pc' = [pc EXCEPT ![r] = "writing"]
           /\ \E what \in {"ok", "draining", "idempotent", "start_failed"} :
                 answer' = [answer EXCEPT ![r] = what]
    BY <1>5 DEF Load, LoadRefused, LoadFixture, LoadServer, Spawn, LoadReady, LoadFailed, Reply
  <2>3. QED
    BY <1>1, <1>a, <2>1, <2>2
<1>6. ASSUME NEW r \in Requests, Expired(r) \/ GenerationRaises(r) PROVE Served'
  <2>1. /\ pc[r] \in {"started", "generating"} /\ pc' = [pc EXCEPT ![r] = "writing"]
        /\ answer' \in {[answer EXCEPT ![r] = "expired"], [answer EXCEPT ![r] = "internal"]}
        /\ UNCHANGED <<asked, replays, produced>>
    BY <1>6 DEF Expired, GenerationRaises, GenerateEnd, Enters, Reply, generations, history
  <2>2. QED
    BY <1>1, <1>a, <2>1
<1>7. ASSUME NEW r \in Requests, Replay(r) PROVE Served'
  <2>1. /\ pc[r] = "started" /\ pc' = [pc EXCEPT ![r] = "writing"]
        /\ Known(r) /\ asked[r] \in Frames /\ asked[r].method = "runtime_generate"
        /\ UNCHANGED <<asked, replays, produced>>
    BY <1>7, <1>b DEF Replay, Enters, Reply, FramesFit, generations, history
  <2>2. \/ answer' = [answer EXCEPT ![r] = "conflict"]
        \/ /\ answer' = [answer EXCEPT ![r] = "replayed"]
           /\ replays[asked[r].key].digest = asked[r].digest
    BY <1>7 DEF Replay, Reply
  <2>3. asked[r] \in RuntimeRequests
    BY <2>1, FrameOfMethod
  <2>4. GeneratesUnkept'
    BY <1>a, <1>c, <2>1 DEF GeneratesUnkept, Known, Runtime
  <2>5. ReplayFits'
    BY <1>a, <1>c, <2>1, <2>2, <2>3 DEF ReplayFits, Known, Runtime
  <2>6. ASSUME NEW k \in Keys PROVE KeyServed(k)'
    BY <1>a, <1>c, <2>1 DEF KeyServed
  <2>7. QED
    BY <2>4, <2>5, <2>6 DEF Served
<1>8. ASSUME NEW r \in Requests, GenerateAtOnce(r) PROVE Served'
  <2>1. /\ pc[r] = "started" /\ lock = None /\ pc' = [pc EXCEPT ![r] = "writing"]
        /\ asked[r] \in Frames /\ ~Known(r)
        /\ UNCHANGED <<asked, produced>>
        /\ Remember(r, AtOnce(r))
        /\ answer' = [answer EXCEPT ![r] = AtOnce(r)]
    BY <1>8, <1>b DEF GenerateAtOnce, EntersGenerate, Enters, Reply, FramesFit, history
  <2>2. AtOnce(r) \in Answers /\ AtOnce(r) # "replayed"
    BY <1>8 DEF GenerateAtOnce, AtOnce, Answers
  <2>3. CASE ~Runtime(r)
    <3>1. UNCHANGED replays
      BY <2>1, <2>3 DEF Remember
    <3>2. QED
      BY <1>1, <1>a, <2>1, <2>2, <3>1
  <2>4. CASE Runtime(r)
    <3>1. asked[r] \in RuntimeRequests
      BY <2>1, <2>4, FrameOfMethod DEF Runtime
    <3>2. asked[r].key \in Keys /\ asked[r].digest \in Digests
      BY <3>1 DEF RuntimeRequests
    <3>3. replays[asked[r].key] = None
      BY <2>1, <2>4 DEF Known
    <3>4. \A k \in Keys : replays[k] # None => replays'[k] = replays[k]
      BY <1>a, <2>1, <2>4, <3>2, <3>3 DEF Remember
    <3>5. GeneratesUnkept'
      BY <1>a, <1>d, <2>1 DEF GeneratesUnkept
    <3>6. ReplayFits'
      <4>1. ASSUME NEW s \in Requests, (pc[s] \in {"writing", "done"} /\ answer[s] = "replayed")',
                   s # r
            PROVE  /\ asked[s] \in RuntimeRequests /\ asked[s].key \in Keys /\ Known(s)
                   /\ replays[asked[s].key].digest = asked[s].digest
        BY <1>a, <1>c, <2>1, <4>1 DEF ReplayFits, RuntimeRequests
      <4>2. answer'[r] # "replayed"
        BY <1>a, <2>1, <2>2
      <4>3. QED
        BY <2>1, <3>4, <4>1, <4>2 DEF ReplayFits, Known, Runtime
    <3>7. ASSUME NEW k \in Keys PROVE KeyServed(k)'
      BY <1>a, <1>c, <2>1, <3>3, <3>4 DEF KeyServed
    <3>8. QED
      BY <3>5, <3>6, <3>7 DEF Served
  <2>5. QED
    BY <2>3, <2>4
<1>9. ASSUME NEW r \in Requests, GenerateBegin(r) PROVE Served'
  <2>1. /\ pc[r] = "started" /\ pc' = [pc EXCEPT ![r] = "generating"]
        /\ ~Known(r)
        /\ UNCHANGED <<asked, answer, replays, produced>>
    BY <1>9 DEF GenerateBegin, EntersGenerate, Enters, history
  <2>2. GeneratesUnkept'
    BY <1>a, <1>c, <2>1 DEF GeneratesUnkept, Known, Runtime
  <2>3. ReplayFits'
    BY <1>a, <1>c, <2>1 DEF ReplayFits, Known, Runtime
  <2>4. ASSUME NEW k \in Keys PROVE KeyServed(k)'
    BY <1>a, <1>c, <2>1 DEF KeyServed
  <2>5. QED
    BY <2>2, <2>3, <2>4 DEF Served
<1>10. ASSUME NEW r \in Requests, Generated(r) PROVE Served'
  <2>1. PICK what \in {"ok", "cancelled", "failed"} : GenerateEnd(r, what) /\ Remember(r, what)
    BY <1>10 DEF Generated
  <2>2. /\ pc[r] = "generating" /\ pc' = [pc EXCEPT ![r] = "writing"]
        /\ answer' = [answer EXCEPT ![r] = what]
        /\ UNCHANGED asked
    BY <1>10, <2>1 DEF Generated, GenerateEnd, Reply, history
  <2>3. ~Known(r) /\ asked[r] \in GenerateRequests \cup RuntimeRequests
    BY <1>b, <1>c, <2>2 DEF GeneratesUnkept, FramesFit
  <2>4. produced' = IF Runtime(r) THEN [produced EXCEPT ![asked[r].key] = @ \cup {r}] ELSE produced
    BY <1>10 DEF Generated
  <2>5. \A s \in Requests : pc'[s] # "generating"
    BY <1>a, <1>b, <2>2 DEF LockHeld
  <2>6. CASE ~Runtime(r)
    <3>1. UNCHANGED <<replays, produced>>
      BY <2>1, <2>4, <2>6 DEF Remember
    <3>2. QED
      BY <1>1, <1>a, <2>2, <3>1
  <2>7. CASE Runtime(r)
    <3>1. asked[r] \in RuntimeRequests
      BY <2>3, <2>7 DEF Runtime, GenerateRequests
    <3>2. asked[r].key \in Keys /\ asked[r].digest \in Digests
      BY <3>1 DEF RuntimeRequests
    <3>3. replays[asked[r].key] = None /\ produced[asked[r].key] = {}
      BY <1>c, <2>3, <2>7, <3>2 DEF Known, KeyServed
    <3>4. replays' = [replays EXCEPT ![asked[r].key] = [digest |-> asked[r].digest, answer |-> what]]
      BY <2>1, <2>7 DEF Remember
    <3>5. [digest |-> asked[r].digest, answer |-> what] # None
      <4>1. [digest |-> asked[r].digest, answer |-> what] \in [digest : Digests, answer : Answers]
        BY <3>2 DEF Answers
      <4>2. QED
        BY <4>1, DaemonAssumption
    <3>6. \A k \in Keys : replays[k] # None => replays'[k] = replays[k]
      BY <1>a, <3>2, <3>3, <3>4
    <3>7. ReplayFits'
      <4>1. ASSUME NEW s \in Requests, (pc[s] \in {"writing", "done"} /\ answer[s] = "replayed")',
                   s # r
            PROVE  /\ asked[s] \in RuntimeRequests /\ asked[s].key \in Keys /\ Known(s)
                   /\ replays[asked[s].key].digest = asked[s].digest
        BY <1>a, <1>c, <2>2, <4>1 DEF ReplayFits, RuntimeRequests
      <4>2. answer'[r] # "replayed"
        BY <1>a, <2>2
      <4>3. QED
        BY <2>2, <3>6, <4>1, <4>2 DEF ReplayFits, Known, Runtime
    <3>8. ASSUME NEW k \in Keys PROVE KeyServed(k)'
      <4>1. CASE k = asked[r].key
        <5>1. produced'[k] = {r} /\ replays'[k] = [digest |-> asked[r].digest, answer |-> what]
          BY <1>a, <2>4, <2>7, <3>2, <3>3, <3>4, <4>1
        <5>2. asked'[r] \in RuntimeRequests /\ pc'[r] = "writing" /\ replays'[k].digest = asked'[r].digest
          BY <1>a, <2>2, <3>1, <5>1
        <5>3. QED
          BY <3>5, <5>1, <5>2 DEF KeyServed
      <4>2. CASE k # asked[r].key
        <5>1. produced'[k] = produced[k] /\ replays'[k] = replays[k]
          BY <1>a, <2>4, <2>7, <3>4, <4>2
        <5>2. QED
          BY <1>a, <1>c, <2>2, <5>1 DEF KeyServed
      <4>3. QED
        BY <4>1, <4>2
    <3>9. QED
      BY <2>5, <3>7, <3>8 DEF Served, GeneratesUnkept
  <2>8. QED
    BY <2>6, <2>7
<1>11. ASSUME NEW r \in Requests, NEW frame \in Frames, Receive(r, frame) PROVE Served'
  <2>1. /\ pc[r] = "unsent" /\ pc' = [pc EXCEPT ![r] = "started"]
        /\ asked' = [asked EXCEPT ![r] = frame]
        /\ UNCHANGED <<answer, replays, produced>>
    BY <1>11 DEF Receive, generations
  <2>2. GeneratesUnkept'
    BY <1>a, <1>c, <2>1 DEF GeneratesUnkept, Known, Runtime
  <2>3. ReplayFits'
    BY <1>a, <1>c, <2>1 DEF ReplayFits, Known, Runtime
  <2>4. ASSUME NEW k \in Keys PROVE KeyServed(k)'
    BY <1>a, <1>c, <2>1 DEF KeyServed
  <2>5. QED
    BY <2>2, <2>3, <2>4 DEF Served
<1>12. QED
  <2>1. ASSUME NEW r \in Requests, ServerDies(r) PROVE UNCHANGED <<pc, asked, answer, replays, produced>>
    BY <2>1 DEF ServerDies, generations, history
  <2>2. UNCHANGED vars \/ EndOfFrames \/ Exit => UNCHANGED <<pc, asked, answer, replays, produced>>
    BY DEF vars, EndOfFrames, Exit, generations, history
  <2>3. QED
    BY <1>2, <1>3, <1>4, <1>5, <1>6, <1>7, <1>8, <1>9, <1>10, <1>11, <2>1, <2>2
       DEF Next, Thread, Generate

LEMMA ServedAlways == Spec => []Served
<1>1. Init => Served
  BY InitServed
<1>2. QED
  BY <1>1, LockedAlways, NextServed, PTL DEF Spec

LEMMA ServedOnce == Served => OneGenerationPerKey
<1> SUFFICES ASSUME Served, NEW k \in Keys PROVE Cardinality(produced[k]) <= 1
  BY DEF OneGenerationPerKey
<1>1. produced[k] = {} \/ \E r \in Requests : produced[k] = {r}
  BY DEF Served, KeyServed
<1>2. CASE produced[k] = {}
  BY <1>2, FS_EmptySet
<1>3. ASSUME NEW r \in Requests, produced[k] = {r} PROVE Cardinality(produced[k]) <= 1
  BY <1>3, FS_Singleton
<1>4. QED
  BY <1>1, <1>2, <1>3

\* However the requests with one idempotency_key meet (the first one still
\* generating, failed, refused, replayed), at most one generation for it ends
\* with an answer (RuntimeInferenceBridge.generate).
THEOREM AtMostOneGeneration == Spec => []OneGenerationPerKey
BY ServedAlways, ServedOnce, PTL

LEMMA ServedSame == Served => SameKeySameRequest
<1> SUFFICES ASSUME Served, NEW r \in Requests, NEW s \in Requests,
                    pc[r] \in {"writing", "done"}, answer[r] = "replayed",
                    s \in produced[asked[r].key]
             PROVE  asked[r].digest = asked[s].digest
  BY DEF SameKeySameRequest
<1>1. /\ asked[r] \in RuntimeRequests
      /\ replays[asked[r].key].digest = asked[r].digest
  BY DEF Served, ReplayFits
<1>2. asked[r].key \in Keys
  BY <1>1 DEF RuntimeRequests
<1>3. replays[asked[r].key].digest = asked[s].digest
  BY <1>2 DEF Served, KeyServed
<1>4. QED
  BY <1>1, <1>3

\* A replayed answer was produced for the same request, byte for byte, as the
\* one it is replayed to (idempotency_conflict, runtime_bridge.py:194).
THEOREM ReplayIsOfTheSameRequest == Spec => []SameKeySameRequest
BY ServedAlways, ServedSame, PTL

(***************************************************************************)
(* The servers.  A load under way keeps the lock, so the handle that it    *)
(* found free is still free when its server is ready and nothing is        *)
(* overwritten; the server of a handle belongs to a load that has ended,   *)
(* so no later load starts or stops it.                                    *)
(***************************************************************************)
HandlesFree ==
    /\ \A r \in Requests : pc[r] = "loading" => handles[asked[r].handle] = None
    /\ \A h \in Handles : handles[h] # None /\ handles[h].server # None =>
          handles[h].server \in Requests /\ pc[handles[h].server] \in {"writing", "done"}

LEMMA InitServers == Init => ServersAreHeld /\ HandlesFree
BY DEF Init, ServersAreHeld, HandlesFree

\* Steps that touch neither handles nor servers.
LEMMA OtherStepsKeepServers ==
    ASSUME Locked, LockHeld', ServersAreHeld, HandlesFree, UNCHANGED models,
           \A s \in Requests : /\ pc'[s] = "loading" <=> pc[s] = "loading"
                               /\ pc[s] \in {"writing", "done"} => pc'[s] \in {"writing", "done"}
                               /\ pc[s] = "loading" => asked'[s] = asked[s]
    PROVE  (ServersAreHeld /\ HandlesFree)'
<1>1. handles' = handles /\ server' = server
  BY DEF models
<1>2. \A s \in Requests : pc'[s] = "loading" => lock' = s
  BY DEF LockHeld
<1>3. ServersAreHeld'
  BY <1>1, <1>2 DEF ServersAreHeld
<1>4. HandlesFree'
  BY <1>1 DEF HandlesFree
<1> QED
  BY <1>3, <1>4

LEMMA NextServers ==
    ASSUME Locked, LockHeld', ServersAreHeld, HandlesFree, [Next]_vars
    PROVE  (ServersAreHeld /\ HandlesFree)'
<1>a. /\ pc \in [Requests -> Places] /\ lock \in Requests \cup {None}
      /\ handles \in [Handles -> [backend : {"fixture", "llama"}, server : Requests \cup {None}] \cup {None}]
      /\ server \in [Requests -> {"none", "up", "stopped"}]
      /\ asked \in [Requests -> Frames \cup {None}]
      /\ LockHeld
  BY DEF Locked, TypeOK, Places
<1>b. None \notin Requests
  BY DaemonAssumption
<1>c. lock = None => \A s \in Requests : pc[s] # "loading"
  BY <1>a, <1>b DEF LockHeld
<1>1. ASSUME NEW r \in Requests,
             Handshake(r) \/ Drain(r) \/ Cancel(r) \/ LoadRefused(r) \/ Expired(r) \/ Replay(r)
             \/ GenerateAtOnce(r) \/ Write(r)
      PROVE  (ServersAreHeld /\ HandlesFree)'
  <2>1. /\ pc[r] \in {"started", "writing"} /\ UNCHANGED models /\ UNCHANGED asked
        /\ pc' = [pc EXCEPT ![r] = "writing"] \/ pc' = [pc EXCEPT ![r] = "done"]
    BY <1>1 DEF Handshake, Drain, Cancel, LoadRefused, Expired, Replay, GenerateAtOnce, Write,
                EntersGenerate, Enters, Reply, history
  <2> QED
    BY <1>a, <2>1, OtherStepsKeepServers
<1>2. ASSUME NEW r \in Requests, GenerateBegin(r) \/ Generated(r) \/ GenerationRaises(r)
      PROVE  (ServersAreHeld /\ HandlesFree)'
  <2>1. /\ pc[r] \in {"started", "generating"} /\ UNCHANGED models /\ UNCHANGED asked
        /\ pc' = [pc EXCEPT ![r] = "writing"] \/ pc' = [pc EXCEPT ![r] = "generating"]
    BY <1>2 DEF GenerateBegin, Generated, GenerationRaises, GenerateEnd, EntersGenerate, Enters,
                Reply, history
  <2> QED
    BY <1>a, <2>1, OtherStepsKeepServers
<1>3. ASSUME NEW r \in Requests, NEW frame \in Frames, Receive(r, frame)
      PROVE  (ServersAreHeld /\ HandlesFree)'
  <2>1. /\ pc[r] = "unsent" /\ UNCHANGED models /\ pc' = [pc EXCEPT ![r] = "started"]
        /\ asked' = [asked EXCEPT ![r] = frame]
    BY <1>3 DEF Receive
  <2> QED
    BY <1>a, <2>1, OtherStepsKeepServers
<1>4. ASSUME EndOfFrames \/ Exit \/ UNCHANGED vars
      PROVE  (ServersAreHeld /\ HandlesFree)'
  <2>1. UNCHANGED <<pc, asked>> /\ UNCHANGED models
    BY <1>4 DEF EndOfFrames, Exit, vars, history, models
  <2> QED
    BY <2>1, OtherStepsKeepServers
<1>5. ASSUME NEW s \in Requests, ServerDies(s)
      PROVE  (ServersAreHeld /\ HandlesFree)'
  <2>1. UNCHANGED <<pc, asked, lock, handles>> /\ server' = [server EXCEPT ![s] = "stopped"]
    BY <1>5 DEF ServerDies, history
  <2>2. \A q \in Requests : server'[q] = "up" => server[q] = "up"
    BY <1>a, <2>1
  <2> QED
    BY <2>1, <2>2 DEF ServersAreHeld, HandlesFree
<1>6. ASSUME NEW r \in Requests, Unload(r)
      PROVE  (ServersAreHeld /\ HandlesFree)'
  <2> DEFINE h == asked[r].handle
  <2>1. /\ pc[r] = "started" /\ lock = None /\ pc' = [pc EXCEPT ![r] = "writing"]
        /\ UNCHANGED <<asked, lock>> /\ handles' = [handles EXCEPT ![h] = None] /\ StopServers({h})
    BY <1>6 DEF Unload, Enters, Reply, history
  <2>2. h \in Handles
    <3>1. asked[r] \in Frames /\ asked[r].method = "unload"
      BY <1>6 DEF Unload, Enters, Locked, FramesFit
    <3> QED
      BY <3>1, FrameOfMethod DEF UnloadRequests
  <2> HIDE DEF h
  <2>3. \A s \in Requests : pc'[s] # "loading"
    BY <1>a, <1>c, <2>1
  <2>4. ASSUME NEW s \in Requests, server'[s] = "up"
        PROVE  \E g \in Handles : handles'[g] # None /\ handles'[g].server = s
    <3>1. server[s] = "up" /\ s \notin ServersOf({h})
      BY <1>a, <2>1, <2>4 DEF StopServers
    <3>2. PICK g \in Handles : handles[g] # None /\ handles[g].server = s
      BY <1>c, <2>1, <3>1 DEF ServersAreHeld
    <3>3. g # h
      BY <3>1, <3>2 DEF ServersOf
    <3> QED
      BY <1>a, <2>1, <2>2, <3>2, <3>3
  <2>5. \A g \in Handles : handles'[g] # None => handles'[g] = handles[g] /\ handles[g] # None
    BY <1>a, <2>1, <2>2
  <2>6. ServersAreHeld'
    BY <2>4, <2>5 DEF ServersAreHeld
  <2>7. \A s \in Requests : pc[s] \in {"writing", "done"} => pc'[s] \in {"writing", "done"}
    BY <1>a, <2>1
  <2>8. HandlesFree'
    BY <2>3, <2>5, <2>7 DEF HandlesFree
  <2> QED
    BY <2>6, <2>8
<1>7. ASSUME NEW r \in Requests, Shutdown(r)
      PROVE  (ServersAreHeld /\ HandlesFree)'
  <2>1. /\ pc[r] = "started" /\ lock = None /\ pc' = [pc EXCEPT ![r] = "writing"]
        /\ UNCHANGED <<asked, lock, handles>> /\ StopServers(Handles)
    BY <1>7 DEF Shutdown, Enters, Reply, history
  <2>2. \A s \in Requests : server'[s] = "up" => server[s] = "up"
    BY <1>a, <2>1 DEF StopServers
  <2>3. \A s \in Requests : /\ pc'[s] = "loading" <=> pc[s] = "loading"
                            /\ pc[s] \in {"writing", "done"} => pc'[s] \in {"writing", "done"}
    BY <1>a, <2>1
  <2> QED
    BY <2>1, <2>2, <2>3 DEF ServersAreHeld, HandlesFree
<1>8. ASSUME NEW r \in Requests, LoadFixture(r)
      PROVE  (ServersAreHeld /\ HandlesFree)'
  <2> DEFINE h == asked[r].handle
  <2>1. /\ pc[r] = "started" /\ lock = None /\ pc' = [pc EXCEPT ![r] = "writing"]
        /\ handles[h] = None /\ UNCHANGED <<asked, lock, server>>
        /\ handles' = [handles EXCEPT ![h] = [backend |-> "fixture", server |-> None]]
    BY <1>8 DEF LoadFixture, Enters, Reply, history
  <2> HIDE DEF h
  <2>2. \A s \in Requests : /\ pc'[s] # "loading" /\ pc[s] # "loading"
                            /\ pc[s] \in {"writing", "done"} => pc'[s] \in {"writing", "done"}
    BY <1>a, <1>c, <2>1
  <2>3. \A g \in Handles : handles[g] # None => handles'[g] = handles[g]
    BY <1>a, <2>1
  <2>4. \A g \in Handles : handles'[g] # None => handles'[g] = handles[g] \/ handles'[g].server = None
    BY <1>a, <2>1
  <2>5. ServersAreHeld'
    BY <1>b, <2>1, <2>2, <2>3, <2>4 DEF ServersAreHeld
  <2>6. HandlesFree'
    BY <2>2, <2>4 DEF HandlesFree
  <2> QED
    BY <2>5, <2>6
<1>9. ASSUME NEW r \in Requests, LoadServer(r)
      PROVE  (ServersAreHeld /\ HandlesFree)'
  <2>1. /\ pc[r] = "started" /\ lock = None /\ pc' = [pc EXCEPT ![r] = "loading"] /\ lock' = r
        /\ handles[asked[r].handle] = None /\ UNCHANGED <<asked, handles>>
        /\ server' = [server EXCEPT ![r] = "up"]
    BY <1>9 DEF LoadServer, Spawn, Enters, history
  <2>2. \A s \in Requests : /\ pc'[s] = "loading" => s = r
                            /\ pc[s] \in {"writing", "done"} => pc'[s] \in {"writing", "done"}
                            /\ server'[s] = "up" => s = r \/ server[s] = "up"
    BY <1>a, <1>c, <2>1
  <2>3. pc'[r] = "loading"
    BY <1>a, <2>1
  <2>4. ServersAreHeld'
    BY <1>c, <2>1, <2>2, <2>3 DEF ServersAreHeld
  <2>5. HandlesFree'
    BY <2>1, <2>2 DEF HandlesFree
  <2> QED
    BY <2>4, <2>5
<1>10. ASSUME NEW r \in Requests, LoadReady(r)
       PROVE  (ServersAreHeld /\ HandlesFree)'
  <2> DEFINE h == asked[r].handle
  <2>1. /\ pc[r] = "loading" /\ pc' = [pc EXCEPT ![r] = "writing"] /\ lock' = None
        /\ UNCHANGED <<asked, server>>
        /\ handles' = [handles EXCEPT ![h] = [backend |-> "llama", server |-> r]]
    BY <1>10 DEF LoadReady, Reply, history
  <2>2. h \in Handles /\ handles[h] = None
    BY <2>1 DEF Locked, FramesFit, LoadRequests, HandlesFree
  <2> HIDE DEF h
  <2>3. \A s \in Requests : /\ pc'[s] # "loading" /\ (pc[s] = "loading" => s = r)
                            /\ pc[s] \in {"writing", "done"} => pc'[s] \in {"writing", "done"}
    BY <1>a, <2>1 DEF LockHeld
  <2>4. /\ handles'[h] # None /\ handles'[h].server = r /\ pc'[r] = "writing"
        /\ \A g \in Handles : g # h => handles'[g] = handles[g]
    <3>1. handles'[h] = [backend |-> "llama", server |-> r] /\ pc'[r] = "writing"
      BY <1>a, <2>1, <2>2
    <3>2. [backend |-> "llama", server |-> r] # None
      BY DaemonAssumption
    <3> QED
      BY <1>a, <2>1, <3>1, <3>2
  <2>5. \A g \in Handles : handles[g] # None => handles[g].server # r
    BY <1>b, <2>1 DEF HandlesFree
  <2>6. ServersAreHeld'
    BY <2>1, <2>2, <2>3, <2>4, <2>5 DEF ServersAreHeld
  <2>7. HandlesFree'
    BY <2>3, <2>4 DEF HandlesFree
  <2> QED
    BY <2>6, <2>7
<1>11. ASSUME NEW r \in Requests, LoadFailed(r)
       PROVE  (ServersAreHeld /\ HandlesFree)'
  <2>1. /\ pc[r] = "loading" /\ pc' = [pc EXCEPT ![r] = "writing"] /\ lock' = None
        /\ UNCHANGED <<asked, handles>> /\ server' = [server EXCEPT ![r] = "stopped"]
    BY <1>11 DEF LoadFailed, Reply, history
  <2>2. \A s \in Requests : /\ pc'[s] # "loading" /\ (pc[s] = "loading" => s = r)
                            /\ pc[s] \in {"writing", "done"} => pc'[s] \in {"writing", "done"}
                            /\ server'[s] = "up" => server[s] = "up" /\ s # r
    BY <1>a, <2>1 DEF LockHeld
  <2> QED
    BY <2>1, <2>2 DEF ServersAreHeld, HandlesFree
<1> QED
  BY <1>1, <1>2, <1>3, <1>4, <1>5, <1>6, <1>7, <1>8, <1>9, <1>10, <1>11
     DEF Next, Thread, Load, Generate

THEOREM ServersKeepTheirHandles == Spec => []ServersAreHeld
<1>1. Locked /\ Locked' /\ ServersAreHeld /\ HandlesFree /\ [Next]_vars
      => (ServersAreHeld /\ HandlesFree)'
  BY NextServers DEF Locked
<1> QED
  BY <1>1, InitServers, LockedAlways, PTL DEF Spec

(***************************************************************************)
(* Shutdown.  It finds every server that runs by its handle, for it has    *)
(* the lock and no load is under way; after it, only a load that gets the  *)
(* lock later starts a server.                                             *)
(***************************************************************************)
\* A step of a thread that does not handle a shutdown frame.
LEMMA ShutDownIsOld ==
    ASSUME TypeOK, NEW r \in Requests, NEW place, pc' = [pc EXCEPT ![r] = place], asked' = asked,
           asked[r].method # "shutdown" \/ pc[r] \in {"writing", "done"}
    PROVE  ShutDown' => ShutDown
<1>1. pc \in [Requests -> Places]
  BY DEF TypeOK, Places
<1> QED
  BY <1>1 DEF ShutDown

LEMMA NoServerComes ==
    ASSUME ShutdownStopsServers, ShutDown' => ShutDown, UNCHANGED late,
           \A s \in Requests : server'[s] = "up" => server[s] = "up"
    PROVE  ShutdownStopsServers'
BY DEF ShutdownStopsServers

LEMMA NextStops ==
    ASSUME Locked, ServersAreHeld, ShutdownStopsServers, [Next]_vars
    PROVE  ShutdownStopsServers'
<1>a. /\ TypeOK /\ FramesFit /\ LockHeld
      /\ pc \in [Requests -> Places]
      /\ server \in [Requests -> {"none", "up", "stopped"}]
  BY DEF Locked, TypeOK, Places
<1>b. None \notin Requests
  BY DaemonAssumption
<1>1. ASSUME NEW r \in Requests, Shutdown(r) PROVE ShutdownStopsServers'
  <2>1. lock = None /\ StopServers(Handles)
    BY <1>1 DEF Shutdown, Enters
  <2>2. \A s \in Requests : pc[s] # "loading"
    BY <1>a, <1>b, <2>1 DEF LockHeld
  <2>3. \A s \in Requests : server[s] = "up" => s \in ServersOf(Handles)
    BY <2>2 DEF ServersAreHeld, ServersOf
  <2>4. \A s \in Requests : server'[s] # "up"
    BY <1>a, <2>1, <2>3 DEF StopServers
  <2> QED
    BY <2>4 DEF ShutdownStopsServers
<1>2. ASSUME NEW r \in Requests, LoadServer(r) PROVE ShutdownStopsServers'
  <2>1. /\ asked[r].method = "load" /\ pc' = [pc EXCEPT ![r] = "loading"] /\ asked' = asked
        /\ server' = [server EXCEPT ![r] = "up"] /\ late' = late \cup {c \in {r} : ShutDown}
    BY <1>2 DEF LoadServer, Spawn, Enters
  <2>2. ShutDown' => ShutDown
    BY <1>a, <2>1, ShutDownIsOld
  <2>3. ASSUME NEW s \in Requests, ShutDown', server'[s] = "up" PROVE s \in late'
    BY <1>a, <2>1, <2>2, <2>3 DEF ShutdownStopsServers
  <2> QED
    BY <2>3 DEF ShutdownStopsServers
<1>3. ASSUME NEW r \in Requests, Handshake(r) \/ Drain(r) \/ Cancel(r) \/ Unload(r)
      PROVE  ShutdownStopsServers'
  <2>1. /\ asked[r].method # "shutdown" /\ pc' = [pc EXCEPT ![r] = "writing"]
        /\ asked' = asked /\ UNCHANGED late
    BY <1>3 DEF Handshake, Drain, Cancel, Unload, Enters, Reply, history
  <2>2. \A s \in Requests : server'[s] = "up" => server[s] = "up"
    BY <1>3, <1>a DEF Handshake, Drain, Cancel, Unload, StopServers, models
  <2> QED
    BY <1>a, <2>1, <2>2, ShutDownIsOld, NoServerComes
<1>4. ASSUME NEW r \in Requests, LoadRefused(r) \/ LoadFixture(r) \/ Expired(r) \/ Replay(r)
                                 \/ GenerateAtOnce(r) \/ GenerateBegin(r)
      PROVE  ShutdownStopsServers'
  <2>1. /\ asked[r].method # "shutdown" /\ asked' = asked /\ UNCHANGED <<late, server>>
        /\ pc' = [pc EXCEPT ![r] = "writing"] \/ pc' = [pc EXCEPT ![r] = "generating"]
    BY <1>4 DEF LoadRefused, LoadFixture, Expired, Replay, GenerateAtOnce, GenerateBegin,
                EntersGenerate, Enters, Reply, history, models
  <2> QED
    BY <1>a, <2>1, ShutDownIsOld, NoServerComes
<1>5. ASSUME NEW r \in Requests, LoadReady(r) \/ LoadFailed(r) \/ Generated(r) \/ GenerationRaises(r)
      PROVE  ShutdownStopsServers'
  <2>1. /\ pc[r] \in {"loading", "generating"} /\ asked' = asked /\ UNCHANGED late
        /\ pc' = [pc EXCEPT ![r] = "writing"]
    BY <1>5 DEF LoadReady, LoadFailed, Generated, GenerationRaises, GenerateEnd, Reply, history
  <2>2. asked[r].method # "shutdown"
    BY <1>a, <2>1 DEF FramesFit, LoadRequests, GenerateRequests, RuntimeRequests
  <2>3. \A s \in Requests : server'[s] = "up" => server[s] = "up"
    BY <1>5, <1>a DEF LoadReady, LoadFailed, Generated, GenerationRaises, GenerateEnd, models
  <2> QED
    BY <1>a, <2>1, <2>2, <2>3, ShutDownIsOld, NoServerComes
<1>6. ASSUME NEW r \in Requests, Write(r) PROVE ShutdownStopsServers'
  <2>1. /\ pc[r] = "writing" /\ pc' = [pc EXCEPT ![r] = "done"] /\ asked' = asked
        /\ UNCHANGED <<late, server>>
    BY <1>6 DEF Write, history, models
  <2> QED
    BY <1>a, <2>1, ShutDownIsOld, NoServerComes
<1>7. ASSUME NEW r \in Requests, NEW frame \in Frames, Receive(r, frame)
      PROVE  ShutdownStopsServers'
  <2>1. /\ pc' = [pc EXCEPT ![r] = "started"] /\ asked' = [asked EXCEPT ![r] = frame]
        /\ UNCHANGED <<late, server>>
    BY <1>7 DEF Receive, models
  <2>2. ShutDown' => ShutDown
    BY <1>a, <2>1 DEF ShutDown, TypeOK
  <2> QED
    BY <2>1, <2>2, NoServerComes
<1>8. ASSUME (\E s \in Requests : ServerDies(s)) \/ EndOfFrames \/ Exit \/ UNCHANGED vars
      PROVE  ShutdownStopsServers'
  <2>1. UNCHANGED <<pc, asked, late>>
    BY <1>8 DEF ServerDies, EndOfFrames, Exit, vars, history
  <2>2. \A s \in Requests : server'[s] = "up" => server[s] = "up"
    BY <1>8, <1>a DEF ServerDies, EndOfFrames, Exit, vars, models
  <2>3. ShutDown' => ShutDown
    BY <2>1 DEF ShutDown
  <2> QED
    BY <2>1, <2>2, <2>3, NoServerComes
<1> QED
  BY <1>1, <1>2, <1>3, <1>4, <1>5, <1>6, <1>7, <1>8 DEF Next, Thread, Load, Generate

(***************************************************************************)
(* A llama-server that runs belongs to one handle, or its load is under    *)
(* way (InferenceDaemon.handle and LlamaCppProvider.start_server), for any *)
(* frames in any order and servers that fail to start or die.  Once        *)
(* shutdown has been handled, it was started by a load that got the lock   *)
(* afterwards: none that was there is overlooked, not one that was being   *)
(* started either (daemon.py:218).                                         *)
(***************************************************************************)
THEOREM NoServerIsLost == Spec => []ServersAccountedFor
<1>1. Init => ShutdownStopsServers
  BY DEF Init, ShutdownStopsServers
<1>2. Spec => []ShutdownStopsServers
  BY <1>1, NextStops, ServersKeepTheirHandles, LockedAlways, PTL DEF Spec
<1>3. ServersAccountedFor <=> ServersAreHeld /\ ShutdownStopsServers
  BY DEF ServersAccountedFor
<1> QED
  BY <1>2, <1>3, ServersKeepTheirHandles, PTL
=============================================================================
