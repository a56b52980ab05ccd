------------------------------ MODULE Turnstile ------------------------------
(***************************************************************************)
(* What GenerationScheduler (engine/c/openai_server.py:58) promises to the *)
(* single mutable engine context behind it: a bounded line served strictly *)
(* in order of arrival, one request at a time.  A request may walk out of  *)
(* the line from any place (timeout, disconnect, shutdown), but nobody is  *)
(* served before somebody who arrived earlier and is still in the line.    *)
(***************************************************************************)
EXTENDS Naturals, Sequences

CONSTANTS Requests,    \* requests that may come to the line
          Capacity,    \* places in the line, the request being served excluded
          None         \* not a request

VARIABLES line,        \* requests in the line, oldest first
          serving      \* the request being served, or None

tvars == <<line, serving>>

\* The line without its i-th request.
WithoutPlace(s, i) == [j \in 1 .. Len(s) - 1 |-> IF j < i THEN s[j] ELSE s[j + 1]]

Init == line = <<>> /\ serving = None

\* A request finds the counter free and nobody in front of it.
WalkIn(r) == /\ serving = None
             /\ line = <<>>
             /\ serving' = r
             /\ UNCHANGED line

Join(r) == /\ Len(line) < Capacity
           /\ r # serving
           /\ \A i \in 1 .. Len(line) : line[i] # r
           /\ line' = Append(line, r)
           /\ UNCHANGED serving

GiveUp(i) == /\ i \in 1 .. Len(line)
             /\ line' = WithoutPlace(line, i)
             /\ UNCHANGED serving

CallNext == /\ serving = None
            /\ line # <<>>
            /\ serving' = Head(line)
            /\ line' = Tail(line)

Finish == /\ serving # None
          /\ serving' = None
          /\ UNCHANGED line

Next == \/ \E r \in Requests : WalkIn(r) \/ Join(r)
        \/ \E i \in 1 .. Len(line) : GiveUp(i)
        \/ CallNext
        \/ Finish

Spec == Init /\ [][Next]_tvars
=============================================================================
