--------------------------- MODULE DurableHistory ---------------------------
(***************************************************************************)
(* What the .coli_kv file promises to a conversation (engine/c/glm.c:2051, *)
(* "la conversazione si riapre CALDA"): there is always one history a      *)
(* restart would resume with; it is replaced by the current one all at     *)
(* once, or cut back to a beginning of itself, and never anything else.    *)
(***************************************************************************)
EXTENDS Naturals, Sequences, SequencesExt

CONSTANTS Histories    \* the histories a conversation may have

VARIABLES up,          \* a process runs
          live,        \* the history in memory, <<>> while nothing runs
          kept         \* the history a restart would resume with

dvars == <<up, live, kept>>

Init == up = FALSE /\ live = <<>> /\ kept = <<>>

\* The conversation goes on in memory only.
Talk == /\ up /\ up' = up
        /\ live' \in Histories /\ IsPrefix(live, live')
        /\ kept' = kept

\* The conversation departs from its history: what is kept is cut back to what
\* it shares with the history in memory; one that was too long to be resumed
\* may so become short enough.
CutBack == /\ up /\ up' = up
           /\ live' \in Histories
           /\ IsPrefix(kept', live')
           /\ IsPrefix(kept', kept) \/ (kept = <<>> /\ IsPrefix(kept', live))

\* The whole history is kept, or, being too long to be resumed, nothing.
Keep == /\ up /\ up' = up
        /\ live' = live
        /\ kept' \in {live, <<>>}

Stop == /\ up /\ up' = FALSE
        /\ live' = <<>>
        /\ kept' = kept

\* The next process goes on with exactly what was kept.
Resume == /\ ~ up /\ up' = TRUE
          /\ live' = kept
          /\ kept' = kept

Next == Talk \/ CutBack \/ Keep \/ Stop \/ Resume

Spec == Init /\ [][Next]_dvars
=============================================================================
