---------------------------- MODULE GatewayProofs ----------------------------
(***************************************************************************)
(* Theorems about the gateway, for any set of requests, any queue length   *)
(* and turns of any length.                                                *)
(***************************************************************************)
EXTENDS Gateway, FiniteSetTheorems, TLAPS, SequenceTheorems

(***************************************************************************)
(* What taking one element out of a sequence returns.                      *)
(***************************************************************************)
LEMMA WithoutPlaceProperties ==
    ASSUME NEW S, NEW s \in Seq(S), NEW i \in 1 .. Len(s)
    PROVE  /\ WithoutPlace(s, i) \in Seq(S)
           /\ Len(WithoutPlace(s, i)) = Len(s) - 1
           /\ \A j \in 1 .. Len(s) - 1 :
                WithoutPlace(s, i)[j] = IF j < i THEN s[j] ELSE s[j + 1]
<1>1. Len(s) - 1 \in Nat
  BY LenProperties
<1>2. \A j \in 1 .. Len(s) - 1 : (IF j < i THEN s[j] ELSE s[j + 1]) \in S
  BY ElementOfSeq, LenProperties
<1>3. WithoutPlace(s, i) \in [1 .. Len(s) - 1 -> S]
  BY <1>2 DEF WithoutPlace
<1>4. WithoutPlace(s, i) \in Seq(S)
  BY <1>1, <1>3, SeqDef
<1>5. Len(WithoutPlace(s, i)) = Len(s) - 1
  BY <1>1, <1>3, <1>4, LenProperties
<1>6. QED
  BY <1>4, <1>5 DEF WithoutPlace

(***************************************************************************)
(* How a step of the gateway may change each variable, whichever action it *)
(* is a step of.                                                           *)
(***************************************************************************)
LEMMA StepsOfEachVariable ==
    ASSUME [Next]_vars
    PROVE  /\ \/ UNCHANGED pc
              \/ \E r \in Requests, p \in Places : pc' = [pc EXCEPT ![r] = p]
           /\ \/ UNCHANGED outcome
              \/ \E r \in Requests, o \in Outcomes : outcome' = [outcome EXCEPT ![r] = o]
           /\ \/ UNCHANGED queue
              \/ queue # <<>> /\ queue' = Tail(queue)
              \/ \E r \in Requests : queue' = Append(queue, r)
              \/ \E r \in Requests : Withdraw(r)
           /\ UNCHANGED stats \/ \E c \in Counters : Count(c)
           /\ \/ UNCHANGED stdin \/ stdin' = <<>>
              \/ stdin # <<>> /\ stdin' = Tail(stdin)
              \/ \E r \in Requests : stdin' = Append(stdin, r)
           /\ \/ UNCHANGED turn \/ turn' = None
              \/ stdin # <<>> /\ turn' = Head(stdin)
           /\ \/ UNCHANGED pipe
              \/ pipe # <<>> /\ pipe' = Tail(pipe)
              \/ turn # None /\ \E k \in Kinds : Emit(k)
           /\ \/ UNCHANGED heard
              \/ pipe # <<>> /\ \E r \in Requests :
                    heard' = [heard EXCEPT ![r] = @ \cup {Head(pipe).turn}]
<1> USE DEF Next, vars, Thread, Admit, Wake, Generate, Engine, EngineStep, Main,
            EnterClosed, EnterFull, EnterAtOnce, EnterQueue, EnterGone,
            WakeClosed, WakeAdmit, WakeGone, WakeTimeout,
            NotSent, Acquire, AcquireDown, WritePrompt, WriteBroken, ReadText, ReadInvalid, ReadEnd,
            ReadEof, Leave, EngineRead, EngineEmit, EngineEnd, EngineCrash, EngineHang,
            CloseScheduler, CloseEngine, Exit, admission, wire, Refuse, EndTurn, Die
<1>1. \/ UNCHANGED pc
      \/ \E r \in Requests, p \in Places : pc' = [pc EXCEPT ![r] = p]
  BY SMTT(30) DEF Places
<1>2. \/ UNCHANGED outcome
      \/ \E r \in Requests, o \in Outcomes : outcome' = [outcome EXCEPT ![r] = o]
  BY SMTT(30) DEF Outcomes
<1>3. \/ UNCHANGED queue
      \/ queue # <<>> /\ queue' = Tail(queue)
      \/ \E r \in Requests : queue' = Append(queue, r)
      \/ \E r \in Requests : Withdraw(r)
  BY SMTT(30) DEF MyTurn
<1>4. UNCHANGED stats \/ \E c \in Counters : Count(c)
  BY SMTT(30) DEF Counters
<1>5. \/ UNCHANGED stdin \/ stdin' = <<>>
      \/ stdin # <<>> /\ stdin' = Tail(stdin)
      \/ \E r \in Requests : stdin' = Append(stdin, r)
  BY SMTT(30)
<1>6. \/ UNCHANGED turn \/ turn' = None
      \/ stdin # <<>> /\ turn' = Head(stdin)
  BY SMTT(30)
<1>7. \/ UNCHANGED pipe
      \/ pipe # <<>> /\ pipe' = Tail(pipe)
      \/ turn # None /\ \E k \in {"text", "bad", "end", "cut"} : Emit(k)
  BY SMTT(30)
<1>8. \/ UNCHANGED heard
      \/ pipe # <<>> /\ \E r \in Requests :
            heard' = [heard EXCEPT ![r] = @ \cup {Head(pipe).turn}]
  BY SMTT(30)
<1>9. QED
  BY <1>1, <1>2, <1>3, <1>4, <1>5, <1>6, <1>7, <1>8 DEF Kinds

(***************************************************************************)
(* TypeOK is inductive by itself.                                          *)
(***************************************************************************)
LEMMA InitTypeOK == Init => TypeOK
<1> SUFFICES ASSUME Init PROVE TypeOK
  OBVIOUS
<1> USE GatewayAssumption DEF Init
<1>1. pc \in [Requests -> Places]
  BY DEF Places
<1>2. outcome \in [Requests -> Outcomes]
  BY DEF Outcomes
<1>3. queue \in Seq(Requests)
  OBVIOUS
<1>4. active \in BOOLEAN
  OBVIOUS
<1>5. closed \in BOOLEAN
  OBVIOUS
<1>6. stats \in [Counters -> Nat]
  BY DEF Counters
<1>7. lock \in Requests \cup {None}
  OBVIOUS
<1>8. engine \in {"up", "hung", "down"}
  OBVIOUS
<1>9. stdin \in Seq(Requests)
  OBVIOUS
<1>10. turn \in Requests \cup {None}
  OBVIOUS
<1>11. emitted \in 0 .. MaxChunks
  OBVIOUS
<1>12. pipe \in Seq(Items)
  OBVIOUS
<1>13. heard \in [Requests -> SUBSET Requests]
  OBVIOUS
<1>14. phase \in Phases
  BY DEF Phases
<1>15. QED
  BY <1>1, <1>2, <1>3, <1>4, <1>5, <1>6, <1>7, <1>8, <1>9, <1>10, <1>11, <1>12, <1>13, <1>14
     DEF TypeOK

LEMMA NextTypeOK == TypeOK /\ [Next]_vars => TypeOK'
<1> SUFFICES ASSUME TypeOK, [Next]_vars PROVE TypeOK'
  OBVIOUS
<1>1. pc' \in [Requests -> Places]
  BY StepsOfEachVariable DEF TypeOK
<1>2. outcome' \in [Requests -> Outcomes]
  BY StepsOfEachVariable DEF TypeOK
<1>3. queue' \in Seq(Requests)
  <2>1. CASE UNCHANGED queue
    BY <2>1 DEF TypeOK
  <2>2. CASE queue # <<>> /\ queue' = Tail(queue)
    BY <2>2 DEF TypeOK
  <2>3. CASE \E r \in Requests : queue' = Append(queue, r)
    BY <2>3 DEF TypeOK
  <2>4. CASE \E r \in Requests : Withdraw(r)
    BY <2>4, WithoutPlaceProperties DEF TypeOK, Withdraw
  <2>5. QED
    BY <2>1, <2>2, <2>3, <2>4, StepsOfEachVariable
<1>4. stats' \in [Counters -> Nat]
  <2>1. stats \in [Counters -> Nat]
    BY DEF TypeOK
  <2>2. ASSUME NEW c \in Counters, Count(c) PROVE stats' \in [Counters -> Nat]
    BY <2>1, <2>2 DEF Count
  <2>3. QED
    BY <2>1, <2>2, StepsOfEachVariable
<1>5. stdin' \in Seq(Requests)
  <2>1. stdin \in Seq(Requests) /\ <<>> \in Seq(Requests)
    BY DEF TypeOK
  <2>2. CASE stdin # <<>> /\ stdin' = Tail(stdin)
    BY <2>2 DEF TypeOK
  <2>3. CASE \E r \in Requests : stdin' = Append(stdin, r)
    BY <2>3 DEF TypeOK
  <2>4. QED
    BY <2>1, <2>2, <2>3, StepsOfEachVariable
<1>6. turn' \in Requests \cup {None}
  <2>1. stdin # <<>> => Head(stdin) \in Requests
    BY DEF TypeOK
  <2>2. QED
    BY <2>1, StepsOfEachVariable DEF TypeOK
<1>7. pipe' \in Seq(Items)
  <2>1. CASE pipe # <<>> /\ pipe' = Tail(pipe)
    BY <2>1 DEF TypeOK
  <2>2. ASSUME turn # None, NEW k \in Kinds, Emit(k) PROVE pipe' \in Seq(Items)
    <3>1. [turn |-> turn, kind |-> k] \in Items
      BY <2>2 DEF TypeOK, Items
    <3>2. QED
      BY <2>2, <3>1 DEF TypeOK, Emit
  <2>3. QED
    BY <2>1, <2>2, StepsOfEachVariable DEF TypeOK
<1>8. heard' \in [Requests -> SUBSET Requests]
  <2>1. pipe # <<>> => Head(pipe) \in Items
    BY DEF TypeOK
  <2>2. pipe # <<>> => Head(pipe).turn \in Requests
    BY <2>1 DEF Items
  <2>3. ASSUME pipe # <<>>, NEW r \in Requests,
               heard' = [heard EXCEPT ![r] = @ \cup {Head(pipe).turn}]
        PROVE  heard' \in [Requests -> SUBSET Requests]
    BY <2>2, <2>3 DEF TypeOK
  <2>4. QED
    BY <2>3, StepsOfEachVariable DEF TypeOK
<1>9. /\ active' \in BOOLEAN
      /\ closed' \in BOOLEAN
      /\ lock' \in Requests \cup {None}
      /\ engine' \in {"up", "hung", "down"}
      /\ emitted' \in 0 .. MaxChunks
      /\ phase' \in Phases
  <2> USE GatewayAssumption
      DEF TypeOK, Next, vars, Thread, Admit, Wake, Generate, Engine, EngineStep, Main,
          EnterClosed, EnterFull, EnterAtOnce, EnterQueue, EnterGone,
          WakeClosed, WakeAdmit, WakeGone, WakeTimeout,
          NotSent, Acquire, AcquireDown, WritePrompt, WriteBroken, ReadText, ReadInvalid, ReadEnd,
          ReadEof, Leave, EngineRead, EngineEmit, EngineEnd, EngineCrash, EngineHang,
          CloseScheduler, CloseEngine, Exit, admission, wire, Refuse, EndTurn, Die
  <2>1. active' \in BOOLEAN
    BY ZenonT(30)
  <2>2. closed' \in BOOLEAN
    BY ZenonT(30)
  <2>3. lock' \in Requests \cup {None}
    OBVIOUS
  <2>4. engine' \in {"up", "hung", "down"}
    OBVIOUS
  <2>5. emitted' \in 0 .. MaxChunks
    OBVIOUS
  <2>6. phase' \in Phases
    BY DEF Phases
  <2>7. QED
    BY <2>1, <2>2, <2>3, <2>4, <2>5, <2>6
<1>10. QED
  BY <1>1, <1>2, <1>3, <1>4, <1>5, <1>6, <1>7, <1>8, <1>9 DEF TypeOK

(***************************************************************************)
(* Every variable of the gateway holds a value of its kind in every state. *)
(***************************************************************************)
THEOREM TypeCorrect == Spec => []TypeOK
<1>1. QED
  BY InitTypeOK, NextTypeOK, PTL DEF Spec

(***************************************************************************)
(* Mutual exclusion.  The conjuncts of OneAtATime hold one another up: a   *)
(* request is admitted only when "active" is FALSE, hence when nobody is   *)
(* inside, and only somebody inside takes or drops Engine.lock.            *)
(***************************************************************************)
LEMMA NextOneAtATime == TypeOK /\ OneAtATime /\ [Next]_vars => OneAtATime'
<1> SUFFICES ASSUME TypeOK, OneAtATime, [Next]_vars PROVE OneAtATime'
  OBVIOUS
<1> USE GatewayAssumption DEF Inside
<1>a. pc \in [Requests -> Places] /\ active \in BOOLEAN /\ lock \in Requests \cup {None}
  BY DEF TypeOK
\* Steps that leave this part of the state alone or only end a request
\* that is not inside.
<1>1. ASSUME NEW r \in Requests,
             pc[r] \in {"new", "waiting"}, 
             \E p \in {"waiting", "done"} : pc' = [pc EXCEPT ![r] = p],
             UNCHANGED <<active, lock>>
      PROVE  OneAtATime'
  BY <1>1, <1>a DEF OneAtATime
<1>2. ASSUME NEW r \in Requests, EnterAtOnce(r) \/ WakeAdmit(r) PROVE OneAtATime'
  BY <1>2, <1>a DEF OneAtATime, EnterAtOnce, WakeAdmit, MyTurn
<1>3. ASSUME NEW r \in Requests, Leave(r) PROVE OneAtATime'
  BY <1>3, <1>a DEF OneAtATime, Leave
<1>4. ASSUME NEW r \in Requests, Acquire(r) \/ WritePrompt(r) PROVE OneAtATime'
  BY <1>4, <1>a DEF OneAtATime, Acquire, WritePrompt, admission
<1>5. ASSUME NEW r \in Requests, pc[r] \in {"admitted", "writing", "reading"},
             pc[r] = "admitted" => lock = None,
             NEW how, EndTurn(r, how), UNCHANGED admission
      PROVE  OneAtATime'
  BY <1>5, <1>a DEF OneAtATime, EndTurn, admission
<1>6. CASE UNCHANGED <<pc, active, lock>>
  BY <1>6 DEF OneAtATime
<1>7. QED
  <2>1. ASSUME NEW r \in Requests, Thread(r) PROVE OneAtATime'
    <3>1. CASE EnterClosed(r) \/ EnterFull(r) \/ EnterQueue(r) \/ EnterGone(r)
      BY <3>1, <1>1 DEF EnterClosed, EnterFull, EnterQueue, EnterGone, Refuse, admission
    <3>2. CASE WakeClosed(r) \/ WakeGone(r) \/ WakeTimeout(r)
      BY <3>2, <1>1 DEF WakeClosed, WakeGone, WakeTimeout, Refuse
    <3>3. CASE AcquireDown(r) \/ WriteBroken(r) \/ ReadInvalid(r) \/ ReadEnd(r) \/ ReadEof(r)
      BY <3>3, <1>5 DEF AcquireDown, WriteBroken, ReadInvalid, ReadEnd, ReadEof
    <3>4. CASE ReadText(r)
      BY <3>4, <1>6 DEF ReadText, admission
    <3>5. CASE NotSent(r)
      BY <3>5 DEF NotSent, OneAtATime, TypeOK, Inside, admission
    <3>6. QED
      BY <2>1, <3>1, <3>2, <3>3, <3>4, <3>5, <1>2, <1>3, <1>4 DEF Thread, Admit, Wake, Generate
  <2>2. CASE Engine
    BY <2>2, <1>6 DEF Engine, EngineStep, EngineRead, EngineEmit, EngineEnd, EngineCrash,
                      EngineHang, admission
  <2>3. CASE Main
    BY <2>3, <1>6 DEF Main, CloseScheduler, CloseEngine, Exit, admission
  <2>4. CASE UNCHANGED vars
    BY <2>4, <1>6 DEF vars, admission
  <2>5. QED
    BY <2>1, <2>2, <2>3, <2>4 DEF Next

(***************************************************************************)
(* At most one request is between its admission and the end of its with    *)
(* block, "active" says exactly that, and Engine.lock belongs to the one   *)
(* that writes or reads: GenerationScheduler.admit and Engine.generate.    *)
(***************************************************************************)
THEOREM MutualExclusion == Spec => []OneAtATime
<1>1. Init => OneAtATime
  BY GatewayAssumption DEF Init, OneAtATime, Inside
<1>2. QED
  BY <1>1, TypeCorrect, NextOneAtATime, PTL DEF Spec

(***************************************************************************)
(* The deque.  Taking a ticket out, from the head or from the middle,      *)
(* takes out that request alone, because no request is in it twice.        *)
(***************************************************************************)
LEMMA NextQueueHoldsWaiters ==
    TypeOK /\ QueueHoldsWaiters /\ [Next]_vars => QueueHoldsWaiters'
<1> SUFFICES ASSUME TypeOK, QueueHoldsWaiters, [Next]_vars PROVE QueueHoldsWaiters'
  OBVIOUS
<1> USE GatewayAssumption
<1>a. /\ pc \in [Requests -> Places] /\ queue \in Seq(Requests) /\ Len(queue) \in Nat
      /\ \A i \in 1 .. Len(queue) : queue[i] \in Requests
  BY DEF TypeOK
<1>1. ASSUME NEW r \in Requests, NEW p \in Places,
             pc[r] # "waiting", p # "waiting",
             pc' = [pc EXCEPT ![r] = p], UNCHANGED queue
      PROVE  QueueHoldsWaiters'
  BY <1>1, <1>a DEF QueueHoldsWaiters
<1>2. ASSUME NEW r \in Requests, EnterQueue(r) PROVE QueueHoldsWaiters'
  <2>1. /\ queue' \in Seq(Requests) /\ Len(queue') = Len(queue) + 1
        /\ \A i \in 1 .. Len(queue) : queue'[i] = queue[i]
        /\ queue'[Len(queue) + 1] = r
    BY <1>2, <1>a, AppendProperties DEF EnterQueue
  <2>2. Len(queue) < MaxQueue
    BY <1>2, <1>a DEF EnterQueue, QueueFull
  <2>3. pc[r] = "new" /\ pc' = [pc EXCEPT ![r] = "waiting"]
    BY <1>2 DEF EnterQueue
  <2>4. \A s \in Requests : pc'[s] = "waiting" <=> \E i \in 1 .. Len(queue') : queue'[i] = s
    BY <2>1, <2>3, <1>a DEF QueueHoldsWaiters
  <2>5. \A i, j \in 1 .. Len(queue') : queue'[i] = queue'[j] => i = j
    BY <2>1, <2>3, <1>a DEF QueueHoldsWaiters
  <2>6. QED
    BY <2>1, <2>2, <2>4, <2>5, <1>a DEF QueueHoldsWaiters
<1>3. ASSUME NEW r \in Requests, NEW k \in 1 .. Len(queue), queue[k] = r,
             queue' \in Seq(Requests), Len(queue') = Len(queue) - 1,
             \A j \in 1 .. Len(queue) - 1 :
                queue'[j] = IF j < k THEN queue[j] ELSE queue[j + 1],
             NEW p \in Places, p # "waiting", pc' = [pc EXCEPT ![r] = p]
      PROVE  QueueHoldsWaiters'
  <2>1. ASSUME NEW s \in Requests, s # r
        PROVE  pc'[s] = "waiting" <=> \E i \in 1 .. Len(queue') : queue'[i] = s
    <3>1. ASSUME NEW i \in 1 .. Len(queue), queue[i] = s
          PROVE  \E j \in 1 .. Len(queue') : queue'[j] = s
      <4>1. i # k
        BY <3>1, <2>1, <1>3
      <4>2. CASE i < k
        BY <4>2, <3>1, <1>3, <1>a
      <4>3. CASE i > k
        <5>1. i - 1 \in 1 .. Len(queue') /\ queue'[i - 1] = queue[i]
          BY <4>3, <1>3, <1>a
        <5>2. QED
          BY <5>1, <3>1
      <4>4. QED
        BY <4>1, <4>2, <4>3, <1>a
    <3>2. ASSUME NEW j \in 1 .. Len(queue'), queue'[j] = s
          PROVE  \E i \in 1 .. Len(queue) : queue[i] = s
      BY <3>2, <1>3, <1>a
    <3>3. QED
      BY <3>1, <3>2, <2>1, <1>3, <1>a DEF QueueHoldsWaiters
  <2>2. pc'[r] # "waiting" /\ ~\E i \in 1 .. Len(queue') : queue'[i] = r
    BY <1>3, <1>a DEF QueueHoldsWaiters
  <2>3. \A i, j \in 1 .. Len(queue') : queue'[i] = queue'[j] => i = j
    BY <1>3, <1>a DEF QueueHoldsWaiters
  <2>4. Len(queue') <= MaxQueue
    BY <1>3, <1>a DEF QueueHoldsWaiters
  <2>5. QED
    BY <2>1, <2>2, <2>3, <2>4 DEF QueueHoldsWaiters
<1>4. ASSUME NEW r \in Requests, WakeAdmit(r) PROVE QueueHoldsWaiters'
  <2>1. queue # <<>> /\ queue[1] = r /\ queue' = Tail(queue) /\ pc' = [pc EXCEPT ![r] = "admitted"]
    BY <1>4, <1>a DEF WakeAdmit, MyTurn
  <2>2. /\ 1 \in 1 .. Len(queue) /\ Len(queue') = Len(queue) - 1
        /\ \A j \in 1 .. Len(queue) - 1 : queue'[j] = queue[j + 1]
        /\ queue' \in Seq(Requests)
    BY <2>1, <1>a, HeadTailProperties, EmptySeq
  <2>3. "admitted" \in Places
    BY DEF Places
  <2>4. \A j \in 1 .. Len(queue) - 1 : queue'[j] = IF j < 1 THEN queue[j] ELSE queue[j + 1]
    BY <2>2, <1>a
  <2>5. QED
    BY <2>1, <2>2, <2>3, <2>4, <1>3
<1>5. ASSUME NEW r \in Requests, Withdraw(r), NEW why, Refuse(r, why) PROVE QueueHoldsWaiters'
  <2>1. PICK k \in 1 .. Len(queue) : queue[k] = r /\ queue' = WithoutPlace(queue, k)
    BY <1>5 DEF Withdraw
  <2>2. /\ queue' \in Seq(Requests) /\ Len(queue') = Len(queue) - 1
        /\ \A j \in 1 .. Len(queue) - 1 :
                queue'[j] = IF j < k THEN queue[j] ELSE queue[j + 1]
    BY <2>1, <1>a, WithoutPlaceProperties
  <2>3. "done" \in Places /\ pc' = [pc EXCEPT ![r] = "done"]
    BY <1>5 DEF Places, Refuse
  <2>4. QED
    BY <2>1, <2>2, <2>3, <1>3
<1>6. CASE UNCHANGED <<pc, queue>>
  BY <1>6 DEF QueueHoldsWaiters
<1>7. QED
  <2>1. ASSUME NEW r \in Requests, Thread(r) PROVE QueueHoldsWaiters'
    <3>1. CASE EnterClosed(r) \/ EnterFull(r) \/ EnterAtOnce(r) \/ EnterGone(r)
      BY <3>1, <1>1 DEF EnterClosed, EnterFull, EnterAtOnce, EnterGone, Refuse, admission, Places
    <3>2. CASE WakeClosed(r) \/ WakeGone(r) \/ WakeTimeout(r)
      BY <3>2, <1>5 DEF WakeClosed, WakeGone, WakeTimeout
    <3>3. CASE Generate(r) \/ Leave(r)
      <4>1. pc[r] # "waiting" /\ UNCHANGED queue
        BY <3>3 DEF Generate, NotSent, Acquire, AcquireDown, WritePrompt, WriteBroken, ReadText,
                    ReadInvalid, ReadEnd, ReadEof, Leave, admission
      <4>2. \/ UNCHANGED pc
            \/ \E p \in Places : p # "waiting" /\ pc' = [pc EXCEPT ![r] = p]
        BY <3>3 DEF Generate, NotSent, Acquire, AcquireDown, WritePrompt, WriteBroken, ReadText,
                    ReadInvalid, ReadEnd, ReadEof, Leave, EndTurn, Places
      <4>3. QED
        BY <4>1, <4>2, <1>1, <1>6
    <3>4. QED
      BY <2>1, <3>1, <3>2, <3>3, <1>2, <1>4 DEF Thread, Admit, Wake
  <2>2. CASE Engine \/ Main \/ UNCHANGED vars
    BY <2>2, <1>6 DEF Engine, EngineStep, EngineRead, EngineEmit, EngineEnd, EngineCrash,
                      EngineHang, Main, CloseScheduler, CloseEngine, Exit, vars, admission
  <2>3. QED
    BY <2>1, <2>2 DEF Next

(***************************************************************************)
(* The scheduler's deque holds exactly the waiting requests, once each and *)
(* never more than max_queue of them (GenerationScheduler.admit).          *)
(***************************************************************************)
THEOREM QueueIsTheWaiters == Spec => []QueueHoldsWaiters
<1>1. Init => QueueHoldsWaiters
  BY GatewayAssumption DEF Init, QueueHoldsWaiters
<1>2. QED
  BY <1>1, TypeCorrect, NextQueueHoldsWaiters, PTL DEF Spec

(***************************************************************************)
(* Gateway and engine in step.  OwnTurnOnly alone is not inductive: it     *)
(* holds because the pipe is empty whenever a turn begins, and InStep says *)
(* why it is.  The engine's text must be valid UTF-8: after a decoding     *)
(* error read_engine_turn leaves the rest of the turn in the pipe.         *)
(***************************************************************************)
LEMMA NextInStep ==
    ASSUME InvalidText = FALSE, TypeOK, OneAtATime, InStep, [Next]_vars
    PROVE  InStep'
<1> USE GatewayAssumption
<1>a. /\ pc \in [Requests -> Places] /\ heard \in [Requests -> SUBSET Requests]
      /\ turn \in Requests \cup {None}
      /\ stdin \in Seq(Requests) /\ pipe \in Seq(Items) /\ Len(pipe) \in Nat
  BY DEF TypeOK
<1>b. \A r, s \in Requests : pc[r] \in {"writing", "reading"} /\ pc[s] \in {"writing", "reading"} => r = s
  BY DEF OneAtATime, Inside
<1>c. turn # None \/ stdin # <<>> => engine # "down" /\ \E r \in Requests : pc[r] = "reading"
  BY DEF InStep, Quiet
<1>1. ASSUME NEW r \in Requests, NEW p \in Places,
             pc[r] # "reading", p # "reading",
             pc' = [pc EXCEPT ![r] = p], UNCHANGED <<wire, heard>>
      PROVE  InStep'
  BY <1>1, <1>a DEF InStep, OwnTurnOnly, Quiet, InTurn, wire
<1>2. ASSUME NEW r \in Requests, WritePrompt(r) PROVE InStep'
  <2>1. Quiet
    BY <1>2, <1>b DEF WritePrompt, InStep
  <2>2. \A s \in Requests : pc'[s] = "reading" <=> s = r
    BY <1>2, <1>a, <1>b DEF WritePrompt
  <2>3. stdin' = <<r>> /\ pipe' = <<>> /\ turn' = None /\ engine' # "down" /\ heard' = heard
    BY <1>2, <2>1 DEF WritePrompt, Quiet
  <2>4. InTurn(r)'
    BY <2>3 DEF InTurn
  <2>5. QED
    BY <2>2, <2>3, <2>4 DEF InStep, OwnTurnOnly
<1>3. ASSUME NEW r \in Requests, ReadText(r) \/ ReadEnd(r) PROVE InStep'
  <2>1. /\ pc[r] = "reading" /\ pipe # <<>> /\ InTurn(r)
        /\ heard' = [heard EXCEPT ![r] = @ \cup {Head(pipe).turn}]
        /\ pipe' = Tail(pipe) /\ UNCHANGED <<engine, stdin, turn>>
    BY <1>3 DEF ReadText, ReadEnd, InStep
  <2>2. /\ 1 \in 1 .. Len(pipe) /\ Head(pipe) = pipe[1]
        /\ Len(pipe') = Len(pipe) - 1
        /\ \A i \in 1 .. Len(pipe) - 1 : pipe'[i] = pipe[i + 1]
    BY <2>1, <1>a, HeadTailProperties, EmptySeq
  <2>3. OwnTurnOnly'
    <3>1. Head(pipe).turn = r
      BY <2>1, <2>2 DEF InTurn
    <3>2. QED
      BY <2>1, <3>1, <1>a DEF InStep, OwnTurnOnly
  <2>4. InTurn(r)'
    BY <2>1, <2>2, <1>a DEF InTurn
  <2>5. CASE ReadText(r)
    BY <2>1, <2>3, <2>4, <2>5, <1>b DEF ReadText, InStep, InTurn
  <2>6. CASE ReadEnd(r)
    <3>1. Head(pipe).kind # "text"
      BY <2>6 DEF ReadEnd
    <3>2. Len(pipe) = 1 /\ turn = None
      BY <3>1, <2>1, <2>2, <1>a DEF InTurn
    <3>3. Quiet'
      BY <3>2, <2>1, <2>2, <1>a, HeadTailProperties, EmptySeq DEF Quiet, InTurn
    <3>4. \A s \in Requests : pc'[s] # "reading"
      BY <2>6, <1>a, <1>b DEF ReadEnd, EndTurn
    <3>5. QED
      BY <2>3, <3>3, <3>4 DEF InStep, Quiet
  <2>7. QED
    BY <1>3, <2>5, <2>6
<1>4. ASSUME NEW r \in Requests, ReadInvalid(r) PROVE InStep'
  <2>1. InTurn(r) /\ 1 \in 1 .. Len(pipe) /\ pipe[1].kind = "bad"
    BY <1>4, <1>a, EmptySeq DEF ReadInvalid, InStep
  <2>2. QED
    BY <2>1 DEF InTurn
<1>5. ASSUME NEW r \in Requests, ReadEof(r) PROVE InStep'
  BY <1>5, <1>a, <1>b DEF ReadEof, EndTurn, InStep, OwnTurnOnly, Quiet, wire
<1>6. CASE EngineRead
  <2>1. PICK r \in Requests : pc[r] = "reading" /\ InTurn(r)
    BY <1>6, <1>c DEF EngineRead, InStep
  <2>2. stdin = <<r>> /\ pipe = <<>>
    BY <1>6, <2>1 DEF EngineRead, InTurn
  <2>3. stdin' = <<>> /\ turn' = r /\ pipe' = <<>> /\ UNCHANGED <<pc, heard, engine>>
    BY <1>6, <2>2 DEF EngineRead
  <2>4. QED
    BY <1>6, <2>1, <2>3, <1>b DEF EngineRead, InStep, OwnTurnOnly, InTurn
<1>7. CASE EngineEmit \/ EngineEnd
  <2>1. PICK r \in Requests : pc[r] = "reading" /\ InTurn(r)
    BY <1>7, <1>c DEF EngineEmit, EngineEnd, InStep
  <2>2. turn = r /\ stdin = <<>> /\ \A i \in 1 .. Len(pipe) : pipe[i].turn = r /\ pipe[i].kind = "text"
    BY <1>7, <2>1 DEF EngineEmit, EngineEnd, InTurn
  <2>3. PICK k \in Kinds \ {"bad"} : /\ pipe' = Append(pipe, [turn |-> r, kind |-> k])
                                     /\ k = "text" \/ turn' = None
    BY <1>7, <2>2 DEF EngineEmit, EngineEnd, Emit, Kinds
  <2>4. [turn |-> r, kind |-> k] \in Items
    BY DEF Items
  <2>5. /\ Len(pipe') = Len(pipe) + 1
        /\ \A i \in 1 .. Len(pipe) : pipe'[i] = pipe[i]
        /\ pipe'[Len(pipe) + 1] = [turn |-> r, kind |-> k]
    BY <2>3, <2>4, <1>a, AppendProperties
  <2>6. turn' \in {r, None} /\ UNCHANGED <<pc, heard, engine, stdin>>
    BY <1>7, <2>2 DEF EngineEmit, EngineEnd
  <2>7. \A i \in 1 .. Len(pipe') : /\ pipe'[i].turn = r
                                   /\ pipe'[i].kind # "bad"
                                   /\ i < Len(pipe') \/ turn' # None => pipe'[i].kind = "text"
    BY <2>2, <2>3, <2>5, <2>6, <1>a
  <2>8. InTurn(r)'
    BY <2>2, <2>6, <2>7 DEF InTurn
  <2>9. QED
    BY <1>7, <2>1, <2>2, <2>6, <2>8, <1>b DEF InStep, OwnTurnOnly, EngineEmit, EngineEnd
<1>8. ASSUME Die, UNCHANGED <<pc, heard, pipe>> PROVE InStep'
  BY <1>8 DEF Die, InStep, OwnTurnOnly, Quiet, InTurn
<1>9. ASSUME engine' = "down" => engine = "down", UNCHANGED <<pc, heard, stdin, turn, pipe>>
      PROVE  InStep'
  BY <1>9 DEF InStep, OwnTurnOnly, Quiet, InTurn
<1>10. QED
  <2>1. ASSUME NEW r \in Requests, Thread(r) PROVE InStep'
    <3>1. CASE Admit(r)
      BY <3>1, <1>1 DEF Admit, EnterClosed, EnterFull, EnterAtOnce, EnterQueue, EnterGone,
                        Refuse, Places
    <3>2. CASE Wake(r)
      BY <3>2, <1>1 DEF Wake, WakeClosed, WakeAdmit, WakeGone, WakeTimeout, Refuse, Places
    <3>3. CASE Leave(r) \/ NotSent(r) \/ Acquire(r) \/ AcquireDown(r) \/ WriteBroken(r)
      BY <3>3, <1>1 DEF Leave, NotSent, Acquire, AcquireDown, WriteBroken, EndTurn, Places
    <3>4. QED
      BY <2>1, <3>1, <3>2, <3>3, <1>2, <1>3, <1>4, <1>5 DEF Thread, Generate
  <2>2. CASE Engine
    BY <2>2, <1>6, <1>7, <1>8, <1>9 DEF Engine, EngineStep, EngineCrash, EngineHang
  <2>3. CASE Main
    BY <2>3, <1>8, <1>9 DEF Main, CloseScheduler, CloseEngine, Exit, wire
  <2>4. CASE UNCHANGED vars
    BY <2>4, <1>9 DEF vars, wire
  <2>5. QED
    BY <2>1, <2>2, <2>3, <2>4 DEF Next

(***************************************************************************)
(* While the engine's text is UTF-8, gateway and engine are in step, turn  *)
(* for turn, whatever crashes, timeouts, disconnects and shutdowns happen  *)
(* (read_engine_turn and run_serve).                                       *)
(***************************************************************************)
THEOREM EngineInStep == ASSUME InvalidText = FALSE PROVE Spec => []InStep
<1>1. Init => InStep
  BY GatewayAssumption DEF Init, InStep, OwnTurnOnly, Quiet
<1>2. TypeOK /\ OneAtATime /\ InStep /\ [Next]_vars => InStep'
  BY NextInStep
<1>3. QED
  BY <1>1, <1>2, TypeCorrect, MutualExclusion, PTL DEF Spec

(***************************************************************************)
(* ... and then no client is ever sent a piece of another client's answer. *)
(***************************************************************************)
THEOREM NoForeignOutput == ASSUME InvalidText = FALSE PROVE Spec => []OwnTurnOnly
<1>1. InStep => OwnTurnOnly
  BY DEF InStep
<1>2. QED
  BY <1>1, EngineInStep, PTL

(***************************************************************************)
(* The turnstile.  Holder is the request inside, by mutual exclusion the   *)
(* only one; it changes at an admission and in the finally clause, and     *)
(* nowhere else.                                                           *)
(***************************************************************************)
LEMMA HolderIs ==
    ASSUME OneAtATime
    PROVE  /\ \A r \in Requests : pc[r] \in Inside => Holder = r
           /\ (\A r \in Requests : pc[r] \notin Inside) => Holder = None
           /\ active <=> Holder # None
<1>1. ASSUME NEW r \in Requests, pc[r] \in Inside PROVE Holder = r
  BY <1>1 DEF Holder, OneAtATime
<1>2. (\A r \in Requests : pc[r] \notin Inside) => Holder = None
  BY DEF Holder
<1>3. active <=> Holder # None
  BY <1>1, <1>2, GatewayAssumption DEF OneAtATime
<1>4. QED
  BY <1>1, <1>2, <1>3

\* Moving one request to another place, inside or not, moves the holder.
LEMMA HolderMoves ==
    ASSUME TypeOK, OneAtATime, OneAtATime', NEW r \in Requests, NEW p,
           pc' = [pc EXCEPT ![r] = p]
    PROVE  /\ p \in Inside => Holder' = r
           /\ p \notin Inside /\ pc[r] \in Inside => Holder' = None
           /\ p \notin Inside /\ pc[r] \notin Inside => Holder' = Holder
<1>1. pc \in [Requests -> Places]
  BY DEF TypeOK
<1>2. /\ \A s \in Requests : pc'[s] \in Inside => Holder' = s
      /\ (\A s \in Requests : pc'[s] \notin Inside) => Holder' = None
  <2>1. ASSUME NEW s \in Requests, pc'[s] \in Inside PROVE Holder' = s
    BY <2>1 DEF Holder, OneAtATime
  <2>2. QED
    BY <2>1 DEF Holder
<1>3. p \in Inside => Holder' = r
  BY <1>1, <1>2
<1>4. p \notin Inside /\ pc[r] \in Inside => Holder' = None
  BY <1>1, <1>2 DEF OneAtATime
<1>5. ASSUME p \notin Inside, pc[r] \notin Inside PROVE Holder' = Holder
  <2>1. \A s \in Requests : pc'[s] \in Inside <=> pc[s] \in Inside
    BY <1>5, <1>1
  <2>2. QED
    BY <2>1, <1>2, HolderIs
<1>6. QED
  BY <1>3, <1>4, <1>5

LEMMA NextIsLineNext ==
    ASSUME TypeOK, OneAtATime, OneAtATime', QueueHoldsWaiters, [Next]_vars
    PROVE  [Line!Next]_(Line!tvars)
<1> USE GatewayAssumption
<1>a. /\ pc \in [Requests -> Places] /\ queue \in Seq(Requests) /\ Len(queue) \in Nat
  BY DEF TypeOK
<1>b. active <=> Holder # None
  BY HolderIs
<1>1. ASSUME NEW r \in Requests, EnterClosed(r) \/ EnterFull(r) \/ EnterGone(r)
      PROVE  UNCHANGED Line!tvars
  <2>1. pc[r] = "new" /\ pc' = [pc EXCEPT ![r] = "done"] /\ UNCHANGED queue
    BY <1>1 DEF EnterClosed, EnterFull, EnterGone, Refuse, admission
  <2>2. "done" \notin Inside /\ pc[r] \notin Inside
    BY <2>1 DEF Inside
  <2>3. Holder' = Holder
    BY <2>1, <2>2, HolderMoves
  <2>4. QED
    BY <2>1, <2>3 DEF Line!tvars
<1>2. ASSUME NEW r \in Requests, EnterAtOnce(r) PROVE Line!WalkIn(r)
  <2>1. pc' = [pc EXCEPT ![r] = "admitted"] /\ ~active /\ queue = <<>> /\ UNCHANGED queue
    BY <1>2 DEF EnterAtOnce
  <2>2. Holder' = r
    BY <2>1, HolderMoves DEF Inside
  <2>3. QED
    BY <2>1, <2>2, <1>b DEF Line!WalkIn
<1>3. ASSUME NEW r \in Requests, EnterQueue(r) PROVE Line!Join(r)
  <2>1. /\ pc[r] = "new" /\ pc' = [pc EXCEPT ![r] = "waiting"]
        /\ queue' = Append(queue, r) /\ Len(queue) < MaxQueue
    BY <1>3, <1>a DEF EnterQueue, QueueFull
  <2>a. "waiting" \notin Inside /\ pc[r] \notin Inside
    BY <2>1 DEF Inside
  <2>b. Holder' = Holder
    BY <2>1, <2>a, HolderMoves
  <2>c. r # Holder
    BY <2>a DEF Holder
  <2>2. Holder' = Holder /\ r # Holder
    BY <2>b, <2>c
  <2>3. \A i \in 1 .. Len(queue) : queue[i] # r
    BY <2>1, <1>a DEF QueueHoldsWaiters
  <2>4. QED
    BY <2>1, <2>2, <2>3 DEF Line!Join
<1>4. ASSUME NEW r \in Requests, WakeAdmit(r) PROVE Line!CallNext
  <2>1. /\ pc' = [pc EXCEPT ![r] = "admitted"] /\ ~active
        /\ queue # <<>> /\ Head(queue) = r /\ queue' = Tail(queue)
    BY <1>4 DEF WakeAdmit, MyTurn
  <2>2. Holder' = r
    BY <2>1, HolderMoves DEF Inside
  <2>3. QED
    BY <2>1, <2>2, <1>b DEF Line!CallNext
<1>5. ASSUME NEW r \in Requests, WakeClosed(r) \/ WakeGone(r) \/ WakeTimeout(r)
      PROVE  \E i \in 1 .. Len(queue) : Line!GiveUp(i)
  <2>1. pc[r] = "waiting" /\ pc' = [pc EXCEPT ![r] = "done"] /\ Withdraw(r)
    BY <1>5 DEF WakeClosed, WakeGone, WakeTimeout, Refuse
  <2>a. "done" \notin Inside /\ pc[r] \notin Inside
    BY <2>1 DEF Inside
  <2>2. Holder' = Holder
    BY <2>1, <2>a, HolderMoves
  <2>3. QED
    BY <2>1, <2>2 DEF Withdraw, Line!GiveUp, WithoutPlace, Line!WithoutPlace
<1>6. ASSUME NEW r \in Requests, Generate(r) PROVE UNCHANGED Line!tvars
  <2>1. UNCHANGED queue /\ pc[r] \in Inside
    BY <1>6 DEF Generate, NotSent, Acquire, AcquireDown, WritePrompt, WriteBroken, ReadText, ReadInvalid,
                ReadEnd, ReadEof, admission, Inside
  <2>2. UNCHANGED pc \/ \E p \in Inside : pc' = [pc EXCEPT ![r] = p]
    BY <1>6 DEF Generate, NotSent, Acquire, AcquireDown, WritePrompt, WriteBroken, ReadText, ReadInvalid,
                ReadEnd, ReadEof, EndTurn, Inside
  <2>3. CASE UNCHANGED pc
    BY <2>1, <2>3 DEF Holder, Line!tvars
  <2>4. CASE \E p \in Inside : pc' = [pc EXCEPT ![r] = p]
    BY <2>1, <2>4, HolderMoves, HolderIs DEF Line!tvars
  <2>5. QED
    BY <2>2, <2>3, <2>4
<1>7. ASSUME NEW r \in Requests, Leave(r) PROVE Line!Finish
  <2>1. pc[r] = "leaving" /\ pc' = [pc EXCEPT ![r] = "done"] /\ UNCHANGED queue
    BY <1>7 DEF Leave
  <2>a. "done" \notin Inside /\ pc[r] \in Inside
    BY <2>1 DEF Inside
  <2>2. Holder' = None /\ Holder # None
    BY <2>1, <2>a, HolderMoves, HolderIs
  <2>3. QED
    BY <2>1, <2>2 DEF Line!Finish
<1>8. CASE UNCHANGED <<pc, queue>>
  BY <1>8 DEF Holder, Line!tvars
<1>9. QED
  <2>1. ASSUME NEW r \in Requests, Thread(r) PROVE [Line!Next]_(Line!tvars)
    BY <2>1, <1>1, <1>2, <1>3, <1>4, <1>5, <1>6, <1>7 DEF Thread, Admit, Wake, Line!Next
  <2>2. CASE Engine \/ Main \/ UNCHANGED vars
    BY <2>2, <1>8 DEF Engine, EngineStep, EngineRead, EngineEmit, EngineEnd, EngineCrash,
                      EngineHang, Main, CloseScheduler, CloseEngine, Exit, vars, admission
  <2>3. QED
    BY <2>1, <2>2 DEF Next

(***************************************************************************)
(* GenerationScheduler implements the turnstile: a bounded line, served    *)
(* one at a time and strictly in order of arrival.                         *)
(***************************************************************************)
THEOREM SchedulerIsATurnstile == Spec => FirstComeFirstServed
<1>1. Init => Line!Init
  BY DEF Init, Line!Init, Holder, Inside
<1>2. TypeOK /\ OneAtATime /\ OneAtATime' /\ QueueHoldsWaiters /\ [Next]_vars
      => [Line!Next]_(Line!tvars)
  BY NextIsLineNext
<1>3. QED
  BY <1>1, <1>2, TypeCorrect, MutualExclusion, QueueIsTheWaiters, PTL
     DEF Spec, FirstComeFirstServed, Line!Spec

(***************************************************************************)
(* The counters.  What is counted are the requests that ended, so a step   *)
(* adds one to a counter exactly when it adds a request to the set that    *)
(* the counter is the size of.  The sets are finite because they grow by   *)
(* one at a time, however many requests there are; a request that leaves   *)
(* its turn has ended well or failed, which is what completed counts.      *)
(***************************************************************************)
Enders(why) == {r \in Requests : pc[r] = "done" /\ outcome[r] = why}

CountersInv ==
    /\ CountersAddUp
    /\ \A why \in Outcomes : IsFiniteSet(Enders(why))
    /\ \A r \in Requests : pc[r] = "leaving" => outcome[r] \in {"ok", "failed"}

\* One request more, or the same requests.
LEMMA EndersChange ==
    ASSUME TypeOK, NEW r \in Requests, pc[r] # "done", NEW p \in Places, NEW o \in Outcomes,
           pc' = [pc EXCEPT ![r] = p], outcome' = [outcome EXCEPT ![r] = o]
    PROVE  /\ \A why : r \notin Enders(why)
           /\ p = "done" => /\ Enders(o)' = Enders(o) \cup {r}
                            /\ \A why : why # o => Enders(why)' = Enders(why)
           /\ p # "done" => \A why : Enders(why)' = Enders(why)
BY DEF TypeOK, Enders

LEMMA EndedIsSize == \A why : Ended(why) = Cardinality(Enders(why))
BY DEF Ended, Enders

LEMMA EndedCounts ==
    ASSUME CountersInv, NEW why \in Outcomes
    PROVE  Ended(why) \in Nat
BY EndedIsSize, FS_CardinalityType DEF CountersInv

\* A step that ends a request in some way adds one to that way's number.
LEMMA EndsOneMore ==
    ASSUME TypeOK, CountersInv, NEW r \in Requests, pc[r] # "done", NEW o \in Outcomes,
           pc' = [pc EXCEPT ![r] = "done"], outcome' = [outcome EXCEPT ![r] = o]
    PROVE  /\ Ended(o)' = Ended(o) + 1
           /\ \A why \in Outcomes : why # o => Ended(why)' = Ended(why)
           /\ \A why \in Outcomes : IsFiniteSet(Enders(why)')
<1>1. "done" \in Places
  BY DEF Places
<1>2. /\ r \notin Enders(o) /\ Enders(o)' = Enders(o) \cup {r}
      /\ \A why : why # o => Enders(why)' = Enders(why)
  BY <1>1, EndersChange
<1>3. \A why \in Outcomes : IsFiniteSet(Enders(why))
  BY DEF CountersInv
<1>4. IsFiniteSet(Enders(o)') /\ Cardinality(Enders(o)') = Cardinality(Enders(o)) + 1
  BY <1>2, <1>3, FS_AddElement
<1>5. \A why : Ended(why)' = Cardinality(Enders(why)')
  BY DEF Ended, Enders
<1>6. \A why \in Outcomes : why # o => Ended(why)' = Ended(why)
  BY <1>2, <1>5, EndedIsSize
<1> QED
  BY <1>2, <1>3, <1>4, <1>5, <1>6, EndedIsSize

\* A step that ends no request.
LEMMA EndsNone ==
    ASSUME CountersInv, \A why : Enders(why)' = Enders(why)
    PROVE  /\ \A why \in Outcomes : Ended(why)' = Ended(why)
           /\ \A why \in Outcomes : IsFiniteSet(Enders(why)')
<1>1. \A why : Ended(why)' = Cardinality(Enders(why)')
  BY DEF Ended, Enders
<1> QED
  BY <1>1, EndedIsSize DEF CountersInv

LEMMA NextCounters ==
    ASSUME TypeOK, OneAtATime, CountersInv, [Next]_vars PROVE CountersInv'
<1> DEFINE Leaving == \A r \in Requests : pc[r] = "leaving" => outcome[r] \in {"ok", "failed"}
<1>a. /\ pc \in [Requests -> Places] /\ outcome \in [Requests -> Outcomes]
      /\ active \in BOOLEAN /\ stats \in [Counters -> Nat]
  BY DEF TypeOK
<1>b. \A why \in Outcomes : Ended(why) \in Nat
  BY EndedCounts
<1>c. {"ok", "failed", "full", "timeout", "cancelled", "closed"} \subseteq Outcomes
      /\ {"waiting", "admitted", "writing", "reading", "leaving", "done"} \subseteq Places
  BY DEF Outcomes, Places
<1>d. CountersAddUp /\ Leaving
  BY DEF CountersInv
\* Nobody ends, and nothing is counted but an admission.
<1>1. ASSUME NEW r \in Requests, pc[r] # "done", NEW p \in Places \ {"done"}, NEW o \in Outcomes,
             pc' = [pc EXCEPT ![r] = p], outcome' = [outcome EXCEPT ![r] = o],
             p = "leaving" => o \in {"ok", "failed"},
             \/ UNCHANGED <<stats, active>>
             \/ ~ active /\ active' = TRUE /\ Count("admitted")
      PROVE  CountersInv'
  <2>1. \A why : Enders(why)' = Enders(why)
    BY <1>1, EndersChange
  <2>2. \A why \in Outcomes : Ended(why)' = Ended(why) /\ IsFiniteSet(Enders(why)')
    BY <2>1, EndsNone
  <2>3. Leaving'
    BY <1>1, <1>a, <1>d
  <2>4. CountersAddUp'
    BY <1>1, <1>a, <1>b, <1>c, <1>d, <2>2 DEF CountersAddUp, Count, Counters
  <2> QED
    BY <2>2, <2>3, <2>4 DEF CountersInv
\* A request is refused before its admission.
<1>2. ASSUME NEW r \in Requests, pc[r] \in {"new", "waiting"}, UNCHANGED active,
             \/ Refuse(r, "closed") /\ UNCHANGED stats
             \/ Refuse(r, "full") /\ Count("rejected")
             \/ Refuse(r, "timeout") /\ Count("timed_out")
             \/ Refuse(r, "cancelled") /\ Count("cancelled")
      PROVE  CountersInv'
  <2>1. PICK o \in {"closed", "full", "timeout", "cancelled"} :
          /\ pc' = [pc EXCEPT ![r] = "done"] /\ outcome' = [outcome EXCEPT ![r] = o]
          /\ o = "closed" => UNCHANGED stats
          /\ o = "full" => Count("rejected")
          /\ o = "timeout" => Count("timed_out")
          /\ o = "cancelled" => Count("cancelled")
    BY <1>2 DEF Refuse
  <2>2. /\ Ended(o)' = Ended(o) + 1
        /\ \A why \in Outcomes : why # o => Ended(why)' = Ended(why)
        /\ \A why \in Outcomes : IsFiniteSet(Enders(why)')
    BY <1>2, <1>c, <2>1, EndsOneMore
  <2>3. Leaving'
    BY <1>a, <1>d, <2>1
  <2>4. CountersAddUp'
    BY <1>2, <1>a, <1>b, <1>c, <1>d, <2>1, <2>2 DEF CountersAddUp, Count, Counters
  <2> QED
    BY <2>2, <2>3, <2>4 DEF CountersInv
\* The finally clause: the request inside, which active stands for, ends.
<1>3. ASSUME NEW r \in Requests, Leave(r) PROVE CountersInv'
  <2>1. PICK o \in {"ok", "failed"} : o = outcome[r]
    BY <1>3, <1>d DEF Leave
  <2>2. active = TRUE
    BY <1>3, <1>a DEF Leave, OneAtATime, Inside
  <2>3. /\ pc[r] # "done" /\ pc' = [pc EXCEPT ![r] = "done"] /\ active' = FALSE
        /\ outcome' = [outcome EXCEPT ![r] = o] /\ Count("completed")
    BY <1>3, <1>a, <2>1 DEF Leave
  <2>4. /\ Ended(o)' = Ended(o) + 1
        /\ \A why \in Outcomes : why # o => Ended(why)' = Ended(why)
        /\ \A why \in Outcomes : IsFiniteSet(Enders(why)')
    BY <1>c, <2>3, EndsOneMore
  <2>5. Leaving'
    BY <1>a, <1>d, <2>3
  <2>6. CountersAddUp'
    BY <1>a, <1>b, <1>c, <1>d, <2>2, <2>3, <2>4 DEF CountersAddUp, Count, Counters
  <2> QED
    BY <2>4, <2>5, <2>6 DEF CountersInv
<1>4. ASSUME UNCHANGED <<pc, outcome, stats, active>> PROVE CountersInv'
  BY <1>4 DEF CountersInv, CountersAddUp, Ended, Enders
<1>5. ASSUME NEW r \in Requests, Thread(r) PROVE CountersInv'
  <2>1. CASE EnterClosed(r) \/ EnterFull(r) \/ EnterGone(r)
    BY <1>2, <2>1 DEF EnterClosed, EnterFull, EnterGone, admission
  <2>2. CASE WakeClosed(r) \/ WakeGone(r) \/ WakeTimeout(r)
    BY <1>2, <2>2 DEF WakeClosed, WakeGone, WakeTimeout
  <2>3. CASE EnterAtOnce(r) \/ WakeAdmit(r) \/ EnterQueue(r) \/ Acquire(r) \/ WritePrompt(r)
    <3>1. PICK o \in Outcomes : o = outcome[r]
      BY <1>a
    <3>2. outcome' = [outcome EXCEPT ![r] = o]
      BY <1>a, <2>3, <3>1 DEF EnterAtOnce, WakeAdmit, EnterQueue, Acquire, WritePrompt
    <3>3. /\ pc[r] # "done"
          /\ \E p \in {"waiting", "admitted", "writing", "reading"} : pc' = [pc EXCEPT ![r] = p]
          /\ UNCHANGED <<stats, active>> \/ (~ active /\ active' = TRUE /\ Count("admitted"))
      BY <2>3 DEF EnterAtOnce, WakeAdmit, MyTurn, EnterQueue, Acquire, WritePrompt, admission
    <3> QED
      BY <1>1, <1>c, <3>2, <3>3
  <2>4. CASE NotSent(r) \/ AcquireDown(r) \/ WriteBroken(r) \/ ReadInvalid(r) \/ ReadEnd(r) \/ ReadEof(r)
    BY <1>1, <1>a, <1>c, <2>4
       DEF NotSent, AcquireDown, WriteBroken, ReadInvalid, ReadEnd, ReadEof, EndTurn, admission
  <2>5. CASE ReadText(r)
    BY <1>4, <2>5 DEF ReadText, admission
  <2> QED
    BY <1>3, <1>5, <2>1, <2>2, <2>3, <2>4, <2>5 DEF Thread, Admit, Wake, Generate
<1>6. CASE Engine
  BY <1>4, <1>6 DEF Engine, EngineStep, EngineRead, EngineEmit, EngineEnd, EngineCrash,
                    EngineHang, admission
<1>7. CASE Main
  BY <1>4, <1>7 DEF Main, CloseScheduler, CloseEngine, Exit, admission
<1>8. CASE UNCHANGED vars
  BY <1>4, <1>8 DEF vars, admission
<1> QED
  BY <1>5, <1>6, <1>7, <1>8 DEF Next

(***************************************************************************)
(* The counters of snapshot() are the numbers of requests that ended in    *)
(* each way, and admitted is ahead of completed by the request inside:     *)
(* GenerationScheduler.admit, for any number of requests.                  *)
(***************************************************************************)
THEOREM CountersAreExact == Spec => []CountersAddUp
<1>1. Init => CountersInv
  <2> SUFFICES ASSUME Init PROVE CountersInv
    OBVIOUS
  <2>1. \A why : Enders(why) = {}
    BY DEF Init, Enders
  <2>2. \A why : Ended(why) = 0
    BY <2>1, EndedIsSize, FS_EmptySet
  <2>3. CountersAddUp
    BY <2>2 DEF Init, CountersAddUp, Counters
  <2> QED
    BY <2>1, <2>3, FS_EmptySet DEF Init, CountersInv
<1>2. CountersInv => CountersAddUp
  BY DEF CountersInv
<1> QED
  BY <1>1, <1>2, TypeCorrect, MutualExclusion, NextCounters, PTL DEF Spec
=============================================================================
