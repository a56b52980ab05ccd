------------------------------- MODULE KvDisk -------------------------------
(***************************************************************************)
(* One conversation of the colibri engine and its .coli_kv file            *)
(* (engine/c/glm.c: kv_disk_*, serve_ctx_init, the turns of run_serve,     *)
(* spec_decode).                                                           *)
(*                                                                         *)
(* In memory a conversation is a history of tokens and one KV row for each *)
(* of them, computed from the tokens up to it.  After a turn the new rows  *)
(* are appended to the file and the record count in its header is          *)
(* rewritten last; when a prompt departs from the history the count is     *)
(* first cut back.  The process may crash between any two writes, and the  *)
(* next one loads what the header says is there.  The next one may also    *)
(* run with another context length, or with DSA=0, which makes a record    *)
(* shorter.                                                                *)
(***************************************************************************)
EXTENDS Naturals, Sequences, SequencesExt, FiniteSetsExt

CONSTANTS Tokens,         \* the vocabulary
          NoToken,        \* not a token
          Layouts,        \* record layouts the engine is started with: "dsa", "plain"
          Contexts,       \* context lengths (CTX) the engine is started with
          LoadReserve,    \* positions a prompt or a resumed history leaves free
          DecodeReserve,  \* positions a generation leaves free
          NGen            \* tokens generated in a turn at most (NGEN)

ASSUME KvDiskAssumption ==
    /\ Layouts \subseteq {"dsa", "plain"}
    /\ Contexts \subseteq Nat
    /\ LoadReserve \in Nat /\ DecodeReserve \in Nat
    /\ DecodeReserve <= LoadReserve
    /\ \A c \in Contexts : LoadReserve < c
    /\ NGen \in Nat
    /\ NoToken \notin Tokens

VARIABLES
    pc,        \* "down", "idle", "decode" or "append"
    layout,    \* the record layout of the running (or last) process
    maxctx,    \* its context length
    hist,      \* the first len tokens of the history
    rows,      \* their KV rows: the tokens each was computed from
    disknrec,  \* KVState.disk_nrec
    file,      \* the .coli_kv file: header and cells, or NoFile
    at,        \* the cell the append writes next
    shown      \* the last token printed of the last answer, or NoToken

vars == <<pc, layout, maxctx, hist, rows, disknrec, file, at, shown>>
memory == <<hist, rows, shown>>
config == <<layout, maxctx>>

NoFile == [layout |-> "none", nrec |-> 0, cells |-> <<>>]

Init ==
    /\ pc = "down"
    /\ layout \in Layouts
    /\ maxctx \in Contexts
    /\ hist = <<>>
    /\ rows = <<>>
    /\ disknrec = 0
    /\ file = NoFile
    /\ at = 0
    /\ shown = NoToken

-----------------------------------------------------------------------------
(* The file.  A record is a token and its row; under "dsa" it is longer    *)
(* than under "plain" and written in two pieces.                           *)

Size(l) == IF l = "dsa" THEN 2 ELSE 1

Cell(l, p, part) == [layout |-> l, tok |-> hist[p], row |-> rows[p], part |-> part]

\* The cell number n (from 0) of the file of this history.
CellAt(l, n) == Cell(l, n \div Size(l) + 1, n % Size(l))

Put(cells, n, cell) == IF n < Len(cells) THEN ReplaceAt(cells, n + 1, cell)
                       ELSE Append(cells, cell)

\* The record at position p read with layout l: a row is good only if all its
\* bytes were written as this record.
Piece(f, l, p, part) == f.cells[(p - 1) * Size(l) + part + 1]
ReadTok(f, l, p) == Piece(f, l, p, 0).tok
ReadRow(f, l, p) ==
    LET head == Piece(f, l, p, 0)
    IN IF \A part \in 0 .. Size(l) - 1 :
              Piece(f, l, p, part) = [layout |-> l, tok |-> head.tok, row |-> head.row, part |-> part]
       THEN head.row
       ELSE <<>>

\* How many records kv_disk_load takes: none from a file of another layout or
\* one too long for the context, and only those the file really has.
Loadable(f, l, c) ==
    IF f.layout # l \/ f.nrec + LoadReserve >= c THEN 0
    ELSE Min({f.nrec, Len(f.cells) \div Size(l)})

Load(l, c) ==
    LET n == Loadable(file, l, c)
    IN /\ hist' = [p \in 1 .. n |-> ReadTok(file, l, p)]
       /\ rows' = [p \in 1 .. n |-> ReadRow(file, l, p)]
       /\ disknrec' = n
       /\ at' = 0
       /\ shown' = NoToken

\* Mutant: the count in the header is left alone.
TruncateMemoryOnly(n) ==
    IF file = NoFile THEN disknrec' = 0 /\ UNCHANGED file
    ELSE disknrec' = n /\ UNCHANGED file

\* kv_disk_truncate: only the count in the header is rewritten.
Truncate(n) ==
    IF file = NoFile THEN disknrec' = 0 /\ UNCHANGED file
    ELSE disknrec' = n /\ file' = [file EXCEPT !.nrec = n]

\* kv_disk_append starts where the file's good records end, if there is
\* anything to append.
BeginAppend(len) ==
    IF len <= disknrec THEN pc' = "idle" /\ UNCHANGED at
    ELSE pc' = "append" /\ at' = disknrec * Size(layout)

-----------------------------------------------------------------------------
(* The engine process.                                                     *)

\* serve_ctx_init.
Start(l, c) ==
    /\ pc = "down"
    /\ pc' = "idle"
    /\ layout' = l
    /\ maxctx' = c
    /\ Load(l, c)
    /\ UNCHANGED file

\* A crash, or the end of the input: the file stays as it is.
Crash ==
    /\ pc # "down"
    /\ pc' = "down"
    /\ hist' = <<>>
    /\ rows' = <<>>
    /\ shown' = NoToken
    /\ disknrec' = 0
    /\ at' = 0
    /\ UNCHANGED <<config, file>>

-----------------------------------------------------------------------------
(* A turn: what run_serve does with one line of input.                     *)

\* step(): the rows of the tokens behind the first n, from all before them.
Forward(n, tokens) ==
    /\ hist' = SubSeq(hist, 1, n) \o tokens
    /\ rows' = SubSeq(rows, 1, n) \o
               [i \in 1 .. Len(tokens) |-> (IF n = 0 THEN <<>> ELSE rows[n]) \o SubSeq(tokens, 1, i)]

CommonPrefix(s, t) ==
    CHOOSE n \in 0 .. Min({Len(s), Len(t)}) :
        /\ SubSeq(s, 1, n) = SubSeq(t, 1, n)
        /\ n < Min({Len(s), Len(t)}) => s[n + 1] # t[n + 1]

Reset ==
    /\ pc = "idle"
    /\ hist' = <<>>
    /\ rows' = <<>>
    /\ shown' = NoToken
    /\ Truncate(0)
    /\ at' = 0
    /\ UNCHANGED <<pc, config>>

\* A prompt of the API: the whole conversation again.  What it shares with the
\* history is not computed again; the rest of the history is dropped.
Prompt(prompt) ==
    /\ pc = "idle"
    /\ Len(prompt) + LoadReserve <= maxctx
    /\ LET prefix == CommonPrefix(hist, prompt)
       IN /\ Forward(prefix, SubSeq(prompt, prefix + 1, Len(prompt)))
          /\ IF prefix < Len(hist) THEN Truncate(prefix) ELSE UNCHANGED <<disknrec, file>>
    /\ pc' = IF prompt = <<>> THEN "idle" ELSE "decode"
    /\ shown' = NoToken
    /\ at' = 0
    /\ UNCHANGED config

\* A line of the interactive protocol goes behind the history, or starts a new
\* one when the context is full.
Line(text) ==
    /\ pc = "idle" /\ text # <<>>
    /\ Len(text) + LoadReserve <= maxctx
    /\ IF Len(hist) + Len(text) + LoadReserve >= maxctx
       THEN Forward(0, text) /\ Truncate(0)
       ELSE Forward(Len(hist), text) /\ UNCHANGED <<disknrec, file>>
    /\ pc' = "decode"
    /\ shown' = NoToken
    /\ at' = 0
    /\ UNCHANGED config

\* Go on with the answer that NGEN cut off.
More ==
    /\ pc = "idle" /\ hist # <<>>
    /\ pc' = "decode"
    /\ UNCHANGED <<config, memory, disknrec, file, at>>

\* Mutant: a generation may fill the context to the last position and beyond.
DecodeUnbounded(out, n) ==
    /\ pc = "decode"
    /\ Len(out) <= n
    /\ shown' = IF out = <<>> THEN shown ELSE Last(out)
    /\ Forward(Len(hist), out)
    /\ BeginAppend(Len(hist'))
    /\ UNCHANGED <<config, disknrec, file>>

\* spec_decode.  The last of n tokens is not forwarded, unless it was drafted.
Decode(out, n) ==
    /\ pc = "decode"
    /\ Len(out) <= n /\ (n = 0 \/ Len(hist) + n + DecodeReserve <= maxctx)
    /\ shown' = IF out = <<>> THEN shown ELSE Last(out)
    /\ \/ Forward(Len(hist), out)
       \/ out # <<>> /\ Len(out) = n /\ Forward(Len(hist), Front(out))
    /\ BeginAppend(Len(hist'))
    /\ UNCHANGED <<config, disknrec, file>>

-----------------------------------------------------------------------------
(* kv_disk_append, cell by cell.                                           *)

\* The next cell to write is number "at"; a missing file is created, an
\* existing one is written to whatever its header says.
AppendCell ==
    /\ pc = "append"
    /\ at < Len(hist) * Size(layout)
    /\ file' = [layout |-> IF file = NoFile THEN layout ELSE file.layout,
                nrec   |-> file.nrec,
                cells  |-> Put(file.cells, at, CellAt(layout, at))]
    /\ at' = at + 1
    /\ UNCHANGED <<pc, config, memory, disknrec>>

\* Mutant: the counter is not the last thing written.
AppendCountFirst ==
    /\ pc = "append"
    /\ \/ /\ at = disknrec * Size(layout)
          /\ file # NoFile /\ file.nrec < Len(hist)
          /\ file' = [file EXCEPT !.nrec = Len(hist)]
          /\ UNCHANGED <<pc, disknrec>>
       \/ /\ at = Len(hist) * Size(layout)
          /\ disknrec' = Len(hist)
          /\ file' = [file EXCEPT !.nrec = Len(hist)]
          /\ pc' = "idle"
    /\ UNCHANGED <<config, memory, at>>

\* Mutant: the process does not remember how much it has saved.
AppendCountForgotten ==
    /\ pc = "append"
    /\ at = Len(hist) * Size(layout)
    /\ file' = [file EXCEPT !.nrec = Len(hist)]
    /\ pc' = "idle"
    /\ UNCHANGED <<config, memory, disknrec, at>>

\* fflush, then the count: "dati prima, contatore poi".
AppendCount ==
    /\ pc = "append"
    /\ at = Len(hist) * Size(layout)
    /\ file' = [file EXCEPT !.nrec = Len(hist)]
    /\ disknrec' = Len(hist)
    /\ pc' = "idle"
    /\ UNCHANGED <<config, memory, at>>

-----------------------------------------------------------------------------
Texts == UNION {BoundedSeq(Tokens, c) : c \in Contexts}
Outputs == BoundedSeq(Tokens, NGen)

Turn == \/ Reset \/ More
        \/ \E text \in Texts : Prompt(text) \/ Line(text)
        \/ \E out \in Outputs, n \in 0 .. NGen : Decode(out, n)

Next == \/ \E l \in Layouts, c \in Contexts : Start(l, c)
        \/ Turn
        \/ AppendCell \/ AppendCount
        \/ Crash

Spec == Init /\ [][Next]_vars

-----------------------------------------------------------------------------
(* Properties.                                                             *)

Rows == Seq(Tokens)
Cells == [layout : Layouts, tok : Tokens, row : Rows, part : {0, 1}]

\* Every variable holds a value of its kind; there is one row per token.
TypeOK ==
    /\ pc \in {"down", "idle", "decode", "append"}
    /\ layout \in Layouts /\ maxctx \in Contexts
    /\ hist \in Seq(Tokens) /\ rows \in Seq(Rows) /\ Len(rows) = Len(hist)
    /\ Len(hist) + DecodeReserve <= maxctx
    /\ disknrec \in 0 .. Len(hist)
    /\ file \in [layout : Layouts \cup {"none"}, nrec : Nat, cells : Seq(Cells)]
    /\ shown \in Tokens \cup {NoToken}
    /\ at \in 0 .. Len(hist) * Size(layout)

\* Every KV row in memory was computed from exactly the tokens up to its own,
\* wherever it came from: prefill, decode, a reused prefix or the file
\* ("un crash a meta' append lascia nrec vecchio = file coerente", glm.c:2055).
RowsMatchHistory == \A p \in 1 .. Len(rows) : rows[p] = SubSeq(hist, 1, p)

\* Between turns the file holds the whole conversation: a restart with the
\* same settings resumes with every token of it, unless it is too long to be
\* resumed ("il prossimo avvio riparte da qui", glm.c:2314).
SavedBetweenTurns ==
    pc = "idle" /\ hist # <<>> =>
        /\ disknrec = Len(hist) /\ file.nrec = Len(hist)
        /\ Len(hist) + LoadReserve < maxctx =>
             [p \in 1 .. Loadable(file, layout, maxctx) |-> ReadTok(file, layout, p)] = hist

\* What was printed of the last answer is in the history, so that More goes on
\* with it ("la storia e' gia' in KV", glm.c:2207).
ShownIsInHistory == pc = "idle" /\ shown # NoToken => hist # <<>> /\ Last(hist) = shown

\* The history a restart with these settings would resume with.
Kept == [p \in 1 .. Loadable(file, layout, maxctx) |-> ReadTok(file, layout, p)]

Durable == INSTANCE DurableHistory
    WITH up <- pc # "down", live <- hist, kept <- Kept, Histories <- Seq(Tokens)

\* The file always stands for one history; it is replaced as a whole, or cut
\* back, in one step, whatever is half written and wherever a crash falls.
FileIsAtomic == Durable!Spec
=============================================================================
