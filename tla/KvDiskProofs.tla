---------------------------- MODULE KvDiskProofs ----------------------------
(***************************************************************************)
(* Theorems about a conversation and its .coli_kv file, for any            *)
(* vocabulary, any lengths and any number of crashes.  Type correctness    *)
(* holds however the engine is started; the rest holds as long as every    *)
(* start uses the same record layout and the same context length, which    *)
(* KvDisk's other run shows to be necessary for the layout.                *)
(***************************************************************************)
EXTENDS KvDisk, WellFoundedInduction, TLAPS

(***************************************************************************)
(* Lemmas about numbers and sequences.                                     *)
(***************************************************************************)

\* A set of naturals that is not empty has a least member.
LEMMA LeastNat ==
    ASSUME NEW T, T \subseteq Nat, T # {}
    PROVE  \E n \in T : \A k \in T : n <= k
<1> DEFINE R == OpToRel(<, Nat)
<1>1. IsWellFoundedOn(R, Nat)
  BY NatLessThanWellFounded
<1>2. \A x, y \in Nat : <<x, y>> \in R <=> x < y
  BY DEF OpToRel
<1> HIDE DEF R
<1>3. PICK x \in T : \A y \in T : ~ (<<y, x>> \in R)
  BY <1>1, WFMin
<1>4. \A y \in T : x <= y
  <2> TAKE y \in T
  <2>1. x \in Nat /\ y \in Nat
    OBVIOUS
  <2>2. ~ (y < x)
    BY <1>2, <1>3, <2>1
  <2> QED
    BY <2>1, <2>2
<1> QED
  BY <1>4

LEMMA MinOfTwo ==
    ASSUME NEW a \in Nat, NEW b \in Nat
    PROVE  Min({a, b}) = IF a <= b THEN a ELSE b
<1>1. \E x \in {a, b} : \A y \in {a, b} : x <= y
  OBVIOUS
<1>2. Min({a, b}) \in {a, b} /\ \A y \in {a, b} : Min({a, b}) <= y
  BY <1>1 DEF Min
<1> QED
  BY <1>2

LEMMA Beginning ==
    ASSUME NEW S, NEW s \in Seq(S), NEW n \in 0 .. Len(s)
    PROVE  /\ SubSeq(s, 1, n) \in Seq(S) /\ Len(SubSeq(s, 1, n)) = n
           /\ \A i \in 1 .. n : SubSeq(s, 1, n)[i] = s[i]
OBVIOUS

\* CommonPrefix finds what it looks for: a least place where the two differ,
\* or where one of them ends.
LEMMA CommonPrefixExists ==
    ASSUME NEW S, NEW s \in Seq(S), NEW t \in Seq(S)
    PROVE  /\ CommonPrefix(s, t) \in 0 .. Len(s) /\ CommonPrefix(s, t) <= Len(t)
           /\ \A i \in 1 .. CommonPrefix(s, t) : s[i] = t[i]
           /\ t = <<>> => CommonPrefix(s, t) = 0
<1> DEFINE m == Min({Len(s), Len(t)})
           Differ == {n \in 0 .. m : n < m => s[n + 1] # t[n + 1]}
           Is(n) == /\ SubSeq(s, 1, n) = SubSeq(t, 1, n)
                    /\ n < m => s[n + 1] # t[n + 1]
<1>1. m \in Nat /\ m <= Len(s) /\ m <= Len(t)
  BY MinOfTwo
<1> HIDE DEF m
<1>2. m \in Differ /\ Differ \subseteq Nat
  BY <1>1
<1>3. PICK n \in Differ : \A k \in Differ : n <= k
  BY <1>2, LeastNat
<1>4. n \in 0 .. m
  OBVIOUS
<1>5. \A i \in 1 .. n : s[i] = t[i]
  <2> TAKE i \in 1 .. n
  <2>1. i - 1 \in 0 .. m /\ i - 1 < m /\ i - 1 \notin Differ
    BY <1>1, <1>3, <1>4
  <2> QED
    BY <2>1
<1>6. SubSeq(s, 1, n) = SubSeq(t, 1, n)
  <2>1. /\ SubSeq(s, 1, n) \in Seq(S) /\ Len(SubSeq(s, 1, n)) = n
        /\ \A i \in 1 .. n : SubSeq(s, 1, n)[i] = s[i]
    BY <1>1, <1>4, Beginning
  <2>2. /\ SubSeq(t, 1, n) \in Seq(S) /\ Len(SubSeq(t, 1, n)) = n
        /\ \A i \in 1 .. n : SubSeq(t, 1, n)[i] = t[i]
    BY <1>1, <1>4, Beginning
  <2> QED
    BY <2>1, <2>2, <1>5
<1>7. Is(n)
  BY <1>6
<1> DEFINE x == CommonPrefix(s, t)
<1>8. x = CHOOSE y \in 0 .. m : Is(y)
  BY DEF CommonPrefix, m
<1> HIDE DEF Is, x
<1>9. x \in 0 .. m /\ Is(x)
  BY <1>4, <1>7, <1>8
<1>10. SubSeq(s, 1, x) = SubSeq(t, 1, x)
  BY <1>9 DEF Is
<1>11. \A i \in 1 .. x : s[i] = t[i]
  BY <1>1, <1>9, <1>10, Beginning
<1> QED
  BY <1>1, <1>9, <1>11 DEF x

\* Forward keeps the first n tokens and rows and puts the new ones behind.
LEMMA ForwardFacts ==
    ASSUME hist \in Seq(Tokens), rows \in Seq(Rows), Len(rows) = Len(hist),
           NEW n \in 0 .. Len(hist), NEW tokens \in Seq(Tokens), Forward(n, tokens)
    PROVE  /\ hist' \in Seq(Tokens) /\ rows' \in Seq(Rows)
           /\ Len(hist') = n + Len(tokens) /\ Len(rows') = Len(hist')
           /\ \A p \in 1 .. n : hist'[p] = hist[p] /\ rows'[p] = rows[p]
           /\ \A p \in n + 1 .. n + Len(tokens) :
                 /\ hist'[p] = tokens[p - n]
                 /\ rows'[p] = (IF n = 0 THEN <<>> ELSE rows[n]) \o SubSeq(tokens, 1, p - n)
<1> DEFINE base == IF n = 0 THEN <<>> ELSE rows[n]
           new == [i \in 1 .. Len(tokens) |-> base \o SubSeq(tokens, 1, i)]
           h == SubSeq(hist, 1, n)
           r == SubSeq(rows, 1, n)
<1>1. base \in Seq(Tokens)
  BY DEF Rows
<1>2. hist' = h \o tokens /\ rows' = r \o new
  BY DEF Forward
<1> HIDE DEF base
<1>3. new \in Seq(Rows) /\ Len(new) = Len(tokens)
  <2>1. \A i \in 1 .. Len(tokens) : base \o SubSeq(tokens, 1, i) \in Rows
    BY <1>1, Beginning DEF Rows
  <2> QED
    BY <2>1
<1>4. h \in Seq(Tokens) /\ Len(h) = n /\ \A i \in 1 .. n : h[i] = hist[i]
  BY Beginning
<1>5. r \in Seq(Rows) /\ Len(r) = n /\ \A i \in 1 .. n : r[i] = rows[i]
  BY Beginning
<1>6. \A i \in 1 .. Len(tokens) : new[i] = base \o SubSeq(tokens, 1, i)
  OBVIOUS
<1> HIDE DEF new, h, r
<1>7. /\ h \o tokens \in Seq(Tokens) /\ Len(h \o tokens) = n + Len(tokens)
      /\ \A p \in 1 .. n : (h \o tokens)[p] = hist[p]
      /\ \A p \in n + 1 .. n + Len(tokens) : (h \o tokens)[p] = tokens[p - n]
  <2>1. h \o tokens \in Seq(Tokens)
    BY <1>4
  <2>2. Len(h \o tokens) = n + Len(tokens)
    <3>1. h \in Seq(Tokens) /\ tokens \in Seq(Tokens)
      BY <1>4
    <3>2. Len(h \o tokens) = Len(h) + Len(tokens)
      BY ONLY <3>1
    <3> QED
      BY <3>2, <1>4
  <2>3. \A p \in 1 .. n : (h \o tokens)[p] = hist[p]
    BY <1>4
  <2>4. \A p \in n + 1 .. n + Len(tokens) : (h \o tokens)[p] = tokens[p - n]
    BY <1>4
  <2> QED
    BY <2>1, <2>2, <2>3, <2>4
<1>8. /\ r \o new \in Seq(Rows) /\ Len(r \o new) = n + Len(tokens)
      /\ \A p \in 1 .. n : (r \o new)[p] = rows[p]
      /\ \A p \in n + 1 .. n + Len(tokens) : (r \o new)[p] = new[p - n]
  <2>1. r \o new \in Seq(Rows)
    BY <1>3, <1>5
  <2>2. Len(r \o new) = n + Len(tokens)
    <3>1. r \in Seq(Rows) /\ new \in Seq(Rows)
      BY <1>3, <1>5
    <3>2. Len(r \o new) = Len(r) + Len(new)
      BY ONLY <3>1
    <3> QED
      BY <3>2, <1>3, <1>5
  <2>3. \A p \in 1 .. n : (r \o new)[p] = rows[p]
    BY <1>3, <1>5
  <2>4. \A p \in n + 1 .. n + Len(tokens) : (r \o new)[p] = new[p - n]
    BY <1>3, <1>5
  <2> QED
    BY <2>1, <2>2, <2>3, <2>4
<1>9. \A p \in n + 1 .. n + Len(tokens) : new[p - n] = base \o SubSeq(tokens, 1, p - n)
  BY <1>6
<1> QED
  BY <1>2, <1>7, <1>8, <1>9 DEF base

LEMMA SizeType == \A l : Size(l) \in {1, 2}
BY DEF Size

LEMMA TextsAreSequences == \A text \in Texts : text \in Seq(Tokens)
<1> SUFFICES ASSUME NEW c \in Contexts, NEW text \in BoundedSeq(Tokens, c)
             PROVE  text \in Seq(Tokens)
  BY DEF Texts
<1>1. c \in Nat
  BY KvDiskAssumption
<1> QED
  BY <1>1 DEF BoundedSeq, SeqOf

LEMMA OutputsAreSequences == \A out \in Outputs : out \in Seq(Tokens)
BY KvDiskAssumption DEF Outputs, BoundedSeq, SeqOf

(***************************************************************************)
(* Types.                                                                  *)
(***************************************************************************)
FileType == [layout : Layouts \cup {"none"}, nrec : Nat, cells : Seq(Cells)]

\* What kv_disk_load takes is in the file, and leaves the reserve free.
LEMMA LoadableFacts ==
    ASSUME file \in FileType, NEW l \in Layouts, NEW c \in Contexts
    PROVE  /\ Loadable(file, l, c) \in Nat
           /\ Loadable(file, l, c) * Size(l) <= Len(file.cells)
           /\ Loadable(file, l, c) + LoadReserve < c
<1> DEFINE S == Size(l)
           len == Len(file.cells)
           n == Loadable(file, l, c)
<1>1. S \in {1, 2} /\ len \in Nat /\ file.nrec \in Nat /\ LoadReserve \in Nat /\ c \in Nat
  BY SizeType, KvDiskAssumption DEF FileType
<1>2. LoadReserve < c
  BY KvDiskAssumption
<1>3. len \div S \in Nat /\ (len \div S) * S <= len
  <2> HIDE DEF S, len
  <2>1. CASE S = 1
    BY <1>1, <2>1
  <2>2. CASE S = 2
    BY <1>1, <2>2
  <2> QED
    BY <1>1, <2>1, <2>2
<1>4. CASE file.layout # l \/ file.nrec + LoadReserve >= c
  BY <1>1, <1>2, <1>4 DEF Loadable
<1>5. CASE ~ (file.layout # l \/ file.nrec + LoadReserve >= c)
  <2>1. n = IF file.nrec <= len \div S THEN file.nrec ELSE len \div S
    BY <1>1, <1>3, <1>5, MinOfTwo DEF Loadable
  <2>2. n \in Nat /\ n <= len \div S /\ n <= file.nrec
    BY <1>1, <1>3, <2>1
  <2> HIDE DEF S, len, n
  <2>3. n * S <= len
    BY <1>1, <1>3, <2>2
  <2>4. n + LoadReserve < c
    BY <1>1, <2>2, <1>5
  <2> QED
    BY <2>2, <2>3, <2>4 DEF S, len, n
<1> QED
  BY <1>4, <1>5

LEMMA ReadType ==
    ASSUME file \in FileType, NEW l \in Layouts, NEW p \in Nat \ {0}, p * Size(l) <= Len(file.cells)
    PROVE  ReadTok(file, l, p) \in Tokens /\ ReadRow(file, l, p) \in Rows
<1> DEFINE head == Piece(file, l, p, 0)
<1>1. file.cells \in Seq(Cells)
  BY DEF FileType
<1>2. (p - 1) * Size(l) + 0 + 1 \in 1 .. Len(file.cells)
  <2>1. CASE Size(l) = 1
    BY <1>1, <2>1
  <2>2. CASE Size(l) = 2
    BY <1>1, <2>2
  <2> QED
    BY <2>1, <2>2, SizeType
<1>3. head \in Cells
  BY <1>1, <1>2 DEF Piece
<1>4. head.tok \in Tokens /\ head.row \in Rows
  BY <1>3 DEF Cells
<1> HIDE DEF head
<1>5. ReadTok(file, l, p) = head.tok /\ ReadRow(file, l, p) \in {head.row, <<>>}
  BY DEF ReadTok, ReadRow, head
<1>6. <<>> \in Rows
  BY DEF Rows
<1> QED
  BY <1>4, <1>5, <1>6

LEMMA StartType ==
    ASSUME TypeOK, NEW l \in Layouts, NEW c \in Contexts, Start(l, c)
    PROVE  TypeOK'
<1> DEFINE n == Loadable(file, l, c)
<1>1. file \in FileType
  BY DEF TypeOK, FileType
<1>2. n \in Nat /\ n * Size(l) <= Len(file.cells) /\ n + LoadReserve < c
  BY <1>1, LoadableFacts
<1>3. /\ hist' = [p \in 1 .. n |-> ReadTok(file, l, p)]
      /\ rows' = [p \in 1 .. n |-> ReadRow(file, l, p)]
      /\ disknrec' = n /\ at' = 0 /\ shown' = NoToken
      /\ pc' = "idle" /\ layout' = l /\ maxctx' = c /\ file' = file
  BY DEF Start, Load
<1> HIDE DEF n
<1>4. \A p \in 1 .. n : p \in Nat \ {0} /\ p * Size(l) <= Len(file.cells)
  <2>1. Len(file.cells) \in Nat
    BY <1>1 DEF FileType
  <2>2. CASE Size(l) = 1
    BY <1>2, <2>1, <2>2
  <2>3. CASE Size(l) = 2
    BY <1>2, <2>1, <2>3
  <2> QED
    BY <2>2, <2>3, SizeType
<1>5. \A p \in 1 .. n : ReadTok(file, l, p) \in Tokens /\ ReadRow(file, l, p) \in Rows
  BY <1>1, <1>4, ReadType
<1>6. hist' \in Seq(Tokens) /\ Len(hist') = n
  BY <1>2, <1>3, <1>5
<1>7. rows' \in Seq(Rows) /\ Len(rows') = n
  BY <1>2, <1>3, <1>5
<1>8. Len(hist') + DecodeReserve <= maxctx'
  BY <1>2, <1>3, <1>6, KvDiskAssumption
<1>9. n * Size(l) \in Nat
  BY <1>2, SizeType
<1> QED
  BY <1>1, <1>2, <1>3, <1>6, <1>7, <1>8, <1>9 DEF TypeOK, FileType

LEMMA TruncateType ==
    ASSUME TypeOK, NEW n \in Nat, Truncate(n)
    PROVE  file' \in FileType /\ disknrec' \in {0, n}
BY DEF TypeOK, FileType, Truncate, NoFile

LEMMA AtType ==
    ASSUME NEW n \in Nat, NEW m \in Nat, n <= m
    PROVE  n * Size(layout) \in 0 .. m * Size(layout)
<1>1. CASE Size(layout) = 1
  BY <1>1
<1>2. CASE Size(layout) = 2
  BY <1>2
<1> QED
  BY <1>1, <1>2, SizeType

\* The common part of the actions of a turn.
LEMMA TurnType ==
    ASSUME TypeOK, UNCHANGED config, pc' \in {"idle", "decode", "append"},
           hist' \in Seq(Tokens), rows' \in Seq(Rows), Len(rows') = Len(hist'),
           Len(hist') + DecodeReserve <= maxctx, disknrec' \in 0 .. Len(hist'),
           file' \in FileType, shown' \in Tokens \cup {NoToken},
           at' \in 0 .. Len(hist') * Size(layout)
    PROVE  TypeOK'
BY DEF TypeOK, FileType, config

LEMMA ResetType == ASSUME TypeOK, Reset PROVE TypeOK'
<1>1. file' \in FileType /\ disknrec' \in {0, 0}
  BY TruncateType DEF Reset
<1>2. /\ pc' = "idle" /\ hist' = <<>> /\ rows' = <<>> /\ shown' = NoToken /\ at' = 0
      /\ UNCHANGED config
  BY DEF Reset
<1>3. DecodeReserve <= maxctx /\ DecodeReserve \in Nat
  BY KvDiskAssumption DEF TypeOK
<1>4. at' \in 0 .. Len(hist') * Size(layout)
  BY <1>2, SizeType
<1> QED
  BY <1>1, <1>2, <1>3, <1>4, TurnType

LEMMA PromptType ==
    ASSUME TypeOK, NEW prompt \in Seq(Tokens), Prompt(prompt)
    PROVE  TypeOK'
<1> DEFINE prefix == CommonPrefix(hist, prompt)
           rest == SubSeq(prompt, prefix + 1, Len(prompt))
<1>1. prefix \in 0 .. Len(hist) /\ prefix <= Len(prompt)
  BY CommonPrefixExists DEF TypeOK
<1>2. /\ Forward(prefix, rest)
      /\ IF prefix < Len(hist) THEN Truncate(prefix) ELSE UNCHANGED <<disknrec, file>>
      /\ pc' \in {"idle", "decode"} /\ shown' = NoToken /\ at' = 0 /\ UNCHANGED config
      /\ Len(prompt) + LoadReserve <= maxctx
  BY DEF Prompt
<1> HIDE DEF prefix
<1>3. rest \in Seq(Tokens) /\ Len(rest) = Len(prompt) - prefix
  BY <1>1
<1> HIDE DEF rest
<1>4. hist \in Seq(Tokens) /\ rows \in Seq(Rows) /\ Len(rows) = Len(hist)
  BY DEF TypeOK
<1>5. /\ hist' \in Seq(Tokens) /\ rows' \in Seq(Rows)
      /\ Len(hist') = prefix + Len(rest) /\ Len(rows') = Len(hist')
  BY <1>1, <1>2, <1>3, <1>4, ForwardFacts
<1>6. Len(hist') = Len(prompt) /\ Len(hist') \in Nat
  BY <1>1, <1>3, <1>5
<1>7. Len(hist') + DecodeReserve <= maxctx
  BY <1>2, <1>6, KvDiskAssumption DEF TypeOK
<1>8. file' \in FileType /\ disknrec' \in 0 .. Len(hist')
  <2>1. CASE prefix < Len(hist)
    BY <1>1, <1>2, <1>6, <2>1, TruncateType
  <2>2. CASE ~ (prefix < Len(hist))
    BY <1>1, <1>2, <1>4, <1>6, <2>2 DEF TypeOK, FileType
  <2> QED
    BY <2>1, <2>2
<1>9. at' \in 0 .. Len(hist') * Size(layout)
  BY <1>2, <1>6, SizeType
<1> QED
  BY <1>2, <1>5, <1>7, <1>8, <1>9, TurnType

LEMMA LineType ==
    ASSUME TypeOK, NEW text \in Seq(Tokens), Line(text)
    PROVE  TypeOK'
<1> DEFINE full == Len(hist) + Len(text) + LoadReserve >= maxctx
           n == IF full THEN 0 ELSE Len(hist)
<1>1. hist \in Seq(Tokens) /\ rows \in Seq(Rows) /\ Len(rows) = Len(hist) /\ n \in 0 .. Len(hist)
  BY DEF TypeOK
<1>2. /\ Forward(n, text)
      /\ IF full THEN Truncate(0) ELSE UNCHANGED <<disknrec, file>>
      /\ pc' = "decode" /\ shown' = NoToken /\ at' = 0 /\ UNCHANGED config
      /\ Len(text) + LoadReserve <= maxctx
  BY DEF Line
<1>3. /\ hist' \in Seq(Tokens) /\ rows' \in Seq(Rows)
      /\ Len(hist') = n + Len(text) /\ Len(rows') = Len(hist')
  <2> HIDE DEF n
  <2> QED
    BY <1>1, <1>2, ForwardFacts
<1>4. Len(hist') + DecodeReserve <= maxctx /\ Len(hist') \in Nat
  BY <1>1, <1>2, <1>3, KvDiskAssumption DEF TypeOK
<1>5. file' \in FileType /\ disknrec' \in 0 .. Len(hist')
  <2>1. CASE full
    BY <1>2, <1>4, <2>1, TruncateType
  <2>2. CASE ~ full
    BY <1>2, <1>3, <2>2 DEF TypeOK, FileType
  <2> QED
    BY <2>1, <2>2
<1>6. at' \in 0 .. Len(hist') * Size(layout)
  BY <1>2, <1>4, SizeType
<1> QED
  BY <1>2, <1>3, <1>4, <1>5, <1>6, TurnType

\* The tokens a generation forwards: all that were printed, or all but the last.
LEMMA DecodeForwards ==
    ASSUME NEW out \in Seq(Tokens), NEW n \in Nat, Decode(out, n)
    PROVE  \E new \in Seq(Tokens) : Len(new) <= Len(out) /\ Forward(Len(hist), new)
<1>1. CASE Forward(Len(hist), out)
  BY <1>1
<1>2. CASE out # <<>> /\ Forward(Len(hist), Front(out))
  <2>1. Front(out) \in Seq(Tokens) /\ Len(Front(out)) <= Len(out)
    BY <1>2 DEF Front
  <2> QED
    BY <1>2, <2>1
<1> QED
  BY <1>1, <1>2 DEF Decode

LEMMA DecodeType ==
    ASSUME TypeOK, NEW out \in Seq(Tokens), NEW n \in Nat, Decode(out, n)
    PROVE  TypeOK'
<1>1. hist \in Seq(Tokens) /\ rows \in Seq(Rows) /\ Len(rows) = Len(hist) /\ Len(hist) \in 0 .. Len(hist)
  BY DEF TypeOK
<1>2. PICK new \in Seq(Tokens) : Len(new) <= Len(out) /\ Forward(Len(hist), new)
  BY DecodeForwards
<1>3. /\ hist' \in Seq(Tokens) /\ rows' \in Seq(Rows)
      /\ Len(hist') = Len(hist) + Len(new) /\ Len(rows') = Len(hist')
  BY <1>1, <1>2, ForwardFacts
<1>4. /\ Len(out) <= n /\ (n = 0 \/ Len(hist) + n + DecodeReserve <= maxctx)
      /\ shown' = IF out = <<>> THEN shown ELSE Last(out)
      /\ BeginAppend(Len(hist'))
      /\ UNCHANGED <<config, disknrec, file>>
  BY DEF Decode
<1>5. Len(hist') + DecodeReserve <= maxctx
  BY <1>1, <1>2, <1>3, <1>4, KvDiskAssumption DEF TypeOK
<1>6. disknrec' \in 0 .. Len(hist') /\ file' \in FileType
  BY <1>1, <1>3, <1>4 DEF TypeOK, FileType
<1>7. shown' \in Tokens \cup {NoToken}
  BY <1>4 DEF TypeOK, Last
<1>8. at' \in 0 .. Len(hist') * Size(layout) /\ pc' \in {"idle", "append"}
  <2>1. disknrec \in Nat /\ Len(hist') \in Nat /\ Len(hist) \in Nat /\ Len(hist) <= Len(hist')
    BY <1>1, <1>2, <1>3 DEF TypeOK
  <2>2. CASE Len(hist') <= disknrec
    <3>1. Len(hist) * Size(layout) \in 0 .. Len(hist') * Size(layout)
      BY <2>1, AtType
    <3>2. at \in 0 .. Len(hist) * Size(layout) /\ at' = at /\ pc' = "idle"
      BY <1>4, <2>2 DEF BeginAppend, TypeOK
    <3>3. Len(hist) * Size(layout) \in Nat /\ Len(hist') * Size(layout) \in Nat
      BY <2>1, SizeType
    <3> HIDE DEF Size
    <3>4. \A x, y, z \in Nat : x <= y /\ y <= z => x \in 0 .. z
      OBVIOUS
    <3> QED
      BY <3>1, <3>2, <3>3, <3>4
  <2>3. CASE ~ (Len(hist') <= disknrec)
    <3>1. disknrec * Size(layout) \in 0 .. Len(hist') * Size(layout)
      BY <2>1, <2>3, AtType
    <3> QED
      BY <1>4, <2>3, <3>1 DEF BeginAppend
  <2> QED
    BY <2>2, <2>3
<1> QED
  BY <1>3, <1>4, <1>5, <1>6, <1>7, <1>8, TurnType

\* Which record, and which piece of it, a cell belongs to.
LEMMA CellIndex ==
    ASSUME NEW l, NEW k \in Nat, NEW m \in Nat, k < m * Size(l)
    PROVE  k \div Size(l) + 1 \in 1 .. m /\ k % Size(l) \in 0 .. Size(l) - 1
<1> DEFINE S == Size(l)
<1> HIDE DEF S
<1>1. CASE S = 1
  <2>1. k < m
    BY <1>1 DEF S
  <2>2. k \div S = k /\ k % S = 0
    BY <1>1
  <2>3. k \div S + 1 \in 1 .. m /\ k % S \in 0 .. S - 1
    BY <1>1, <2>1, <2>2
  <2> QED
    BY <2>3 DEF S
<1>2. CASE S = 2
  <2>1. k \div 2 \in Nat /\ k % 2 \in {0, 1}
    OBVIOUS
  <2>2. k \div 2 < m
    BY <1>2 DEF S
  <2>3. k \div S = k \div 2 /\ k % S = k % 2
    BY <1>2
  <2>4. k \div S + 1 \in 1 .. m /\ k % S \in 0 .. S - 1
    BY <1>2, <2>1, <2>2, <2>3
  <2> QED
    BY <2>4 DEF S
<1> QED
  BY <1>1, <1>2, SizeType DEF S

LEMMA PieceIndex ==
    ASSUME NEW l, NEW p \in Nat \ {0}, NEW m \in Nat, p <= m, NEW part \in 0 .. Size(l) - 1
    PROVE  /\ (p - 1) * Size(l) + part \in 0 .. m * Size(l) - 1
           /\ ((p - 1) * Size(l) + part) \div Size(l) = p - 1
           /\ ((p - 1) * Size(l) + part) % Size(l) = part
<1> DEFINE S == Size(l)
           k == (p - 1) * S + part
<1>0. S \in {1, 2} /\ part \in 0 .. S - 1
  BY SizeType
<1> HIDE DEF S
<1>1. CASE S = 1
  <2>1. k = p - 1 /\ part = 0 /\ k \in 0 .. m - 1
    BY <1>0, <1>1
  <2> HIDE DEF k
  <2>2. k \div 1 = k /\ k % 1 = 0
    BY <2>1
  <2>3. k \in 0 .. m * S - 1 /\ k \div S = p - 1 /\ k % S = part
    BY <1>1, <2>1, <2>2
  <2> QED
    BY <2>3 DEF S, k
<1>2. CASE S = 2
  <2>1. k = 2 * (p - 1) + part /\ part \in {0, 1} /\ k \in 0 .. m * 2 - 1
    BY <1>0, <1>2
  <2> HIDE DEF k
  <2>2. k \div 2 = p - 1 /\ k % 2 = part
    <3>1. CASE part = 0
      BY <2>1, <3>1
    <3>2. CASE part = 1
      BY <2>1, <3>2
    <3> QED
      BY <2>1, <3>1, <3>2
  <2>3. k \in 0 .. m * S - 1 /\ k \div S = p - 1 /\ k % S = part
    BY <1>2, <2>1, <2>2
  <2> QED
    BY <2>3 DEF S, k
<1> QED
  BY <1>0, <1>1, <1>2

LEMMA CellType ==
    ASSUME TypeOK, NEW k \in Nat, k < Len(hist) * Size(layout)
    PROVE  CellAt(layout, k) \in Cells
<1> DEFINE p == k \div Size(layout) + 1
           part == k % Size(layout)
<1>1. hist \in Seq(Tokens) /\ rows \in Seq(Rows) /\ Len(rows) = Len(hist) /\ layout \in Layouts
  BY DEF TypeOK
<1>2. p \in 1 .. Len(hist) /\ part \in 0 .. Size(layout) - 1
  BY <1>1, CellIndex
<1>3. part \in {0, 1}
  BY <1>2, SizeType
<1> HIDE DEF p, part
<1>4. hist[p] \in Tokens /\ rows[p] \in Rows
  BY <1>1, <1>2
<1> QED
  BY <1>1, <1>3, <1>4 DEF CellAt, Cell, Cells, p, part

\* Put changes one cell, or adds one behind the others.
LEMMA PutFacts ==
    ASSUME NEW S, NEW cells \in Seq(S), NEW n \in Nat, NEW cell \in S
    PROVE  /\ Put(cells, n, cell) \in Seq(S)
           /\ Len(Put(cells, n, cell)) = IF n < Len(cells) THEN Len(cells) ELSE Len(cells) + 1
           /\ n <= Len(cells) => Put(cells, n, cell)[n + 1] = cell
           /\ \A k \in 1 .. Len(cells) : k # n + 1 => Put(cells, n, cell)[k] = cells[k]
<1>1. CASE n < Len(cells)
  BY <1>1 DEF Put, ReplaceAt
<1>2. CASE ~ (n < Len(cells))
  <2>1. Put(cells, n, cell) = Append(cells, cell)
    BY <1>2 DEF Put
  <2> QED
    BY <1>2, <2>1
<1> QED
  BY <1>1, <1>2

LEMMA AppendCellType == ASSUME TypeOK, AppendCell PROVE TypeOK'
<1> DEFINE cell == CellAt(layout, at)
<1>1. file \in FileType /\ at \in Nat /\ layout \in Layouts /\ Len(hist) * Size(layout) \in Nat
  <2>1. Len(hist) \in Nat
    BY DEF TypeOK
  <2> QED
    BY <2>1, SizeType DEF TypeOK, FileType
<1>2. cell \in Cells
  BY <1>1, CellType DEF AppendCell
<1>3. file' = [layout |-> IF file = NoFile THEN layout ELSE file.layout,
               nrec   |-> file.nrec,
               cells  |-> Put(file.cells, at, cell)]
  BY DEF AppendCell
<1> HIDE DEF cell
<1>4. Put(file.cells, at, cell) \in Seq(Cells)
  BY <1>1, <1>2, PutFacts DEF FileType
<1>5. file' \in FileType
  BY <1>1, <1>3, <1>4 DEF FileType
<1>6. /\ at < Len(hist) * Size(layout) /\ at' = at + 1
      /\ UNCHANGED <<pc, config, memory, disknrec>> /\ pc = "append"
  BY DEF AppendCell
<1>7. at' \in 0 .. Len(hist) * Size(layout)
  BY <1>1, <1>6
<1> QED
  BY <1>5, <1>6, <1>7, TurnType DEF memory, TypeOK

LEMMA AppendCountType == ASSUME TypeOK, AppendCount PROVE TypeOK'
<1>1. /\ pc' = "idle" /\ UNCHANGED <<config, memory, at>>
      /\ file' = [file EXCEPT !.nrec = Len(hist)] /\ disknrec' = Len(hist)
  BY DEF AppendCount
<1>2. file' \in FileType
  <2>1. Len(hist) \in Nat /\ file \in FileType
    BY DEF TypeOK, FileType
  <2> QED
    BY <1>1, <2>1 DEF FileType
<1>3. Len(hist) \in 0 .. Len(hist)
  BY DEF TypeOK
<1> QED
  BY <1>1, <1>2, <1>3, TurnType DEF memory, TypeOK

LEMMA CrashType == ASSUME TypeOK, Crash PROVE TypeOK'
<1>1. DecodeReserve <= maxctx /\ DecodeReserve \in Nat
  BY KvDiskAssumption DEF TypeOK
<1>2. 0 \in 0 .. 0 * Size(layout)
  BY SizeType
<1> QED
  BY <1>1, <1>2 DEF Crash, TypeOK, config

LEMMA InitType == ASSUME Init PROVE TypeOK
<1>1. DecodeReserve <= maxctx /\ DecodeReserve \in Nat
  BY KvDiskAssumption DEF Init
<1>2. 0 \in 0 .. 0 * Size(layout)
  BY SizeType
<1> QED
  BY <1>1, <1>2 DEF Init, TypeOK, NoFile

LEMMA NextType == ASSUME TypeOK, [Next]_vars PROVE TypeOK'
<1>1. ASSUME UNCHANGED vars PROVE TypeOK'
  BY <1>1 DEF vars, TypeOK
<1>2. ASSUME More PROVE TypeOK'
  BY <1>2 DEF More, TypeOK, memory, config
<1>3. ASSUME NEW text \in Texts, Prompt(text) \/ Line(text) PROVE TypeOK'
  BY <1>3, TextsAreSequences, PromptType, LineType
<1>4. ASSUME NEW out \in Outputs, NEW n \in 0 .. NGen, Decode(out, n) PROVE TypeOK'
  BY <1>4, OutputsAreSequences, DecodeType
<1>5. ASSUME Turn PROVE TypeOK'
  BY <1>2, <1>3, <1>4, <1>5, ResetType DEF Turn
<1> QED
  BY <1>1, <1>5, StartType, AppendCellType, AppendCountType, CrashType DEF Next

\* The variables of a conversation keep their types, there is a KV row for each
\* token, the reserve of a generation is kept free and the file never counts
\* more records as its own than the history has tokens, whichever layouts and
\* context lengths the engine is started with (glm.c: serve_ctx_init, the turns
\* of run_serve, spec_decode, kv_disk_append).
THEOREM KvTypeCorrect == Spec => []TypeOK
<1>1. Init => TypeOK
  BY InitType
<1>2. TypeOK /\ [Next]_vars => TypeOK'
  BY NextType
<1> QED
  BY <1>1, <1>2, PTL DEF Spec

(***************************************************************************)
(* The inductive invariant.  The engine is always started the same way.    *)
(* The records the process counts as its own (disk_nrec) are those of the  *)
(* history in memory, during an append up to the cell that is written      *)
(* next; the header counts the same ones, unless it was found too long to  *)
(* be resumed with.  So the header always counts the records of some       *)
(* history, which is what a crash leaves to the next process.              *)
(***************************************************************************)
OneWayToStart == \E l, c : Layouts = {l} /\ Contexts = {c}

\* The cell number k of the file of history h.
CellOf(l, h, k) ==
    LET p == k \div Size(l) + 1
    IN [layout |-> l, tok |-> h[p], row |-> SubSeq(h, 1, p), part |-> k % Size(l)]

\* The first n cells are those of history h.
Holds(cells, l, h, n) ==
    /\ n <= Len(cells)
    /\ \A k \in 0 .. n - 1 : cells[k + 1] = CellOf(l, h, k)

TooLong == file.nrec + LoadReserve >= maxctx

FileStandsForAHistory ==
    /\ file = NoFile \/ file.layout = layout
    /\ ~ TooLong => \E h \in Seq(Tokens) :
                       Len(h) = file.nrec /\ Holds(file.cells, layout, h, file.nrec * Size(layout))

CountIsKnown ==
    pc # "down" => file.nrec = disknrec \/ (disknrec = 0 /\ TooLong)

CountedAreOfThisHistory ==
    pc # "down" => Holds(file.cells, layout, hist, IF pc = "append" THEN at ELSE disknrec * Size(layout))

Appending ==
    pc = "append" =>
        /\ disknrec < Len(hist) /\ disknrec * Size(layout) <= at
        /\ disknrec * Size(layout) < at => file # NoFile

AllCounted ==
    pc = "idle" /\ hist # <<>> => disknrec = Len(hist) /\ file.nrec = Len(hist)

NothingWhenDown == pc = "down" => hist = <<>>

IInv == /\ RowsMatchHistory
        /\ FileStandsForAHistory
        /\ CountIsKnown
        /\ CountedAreOfThisHistory
        /\ Appending
        /\ AllCounted
        /\ NothingWhenDown

(***************************************************************************)
(* Lemmas about files and rows.                                            *)
(***************************************************************************)
LEMMA SameBeginning ==
    ASSUME NEW S, NEW g \in Seq(S), NEW h \in Seq(S),
           NEW m \in Nat, m <= Len(g), m <= Len(h), \A i \in 1 .. m : g[i] = h[i]
    PROVE  SubSeq(g, 1, m) = SubSeq(h, 1, m)
<1>1. /\ SubSeq(g, 1, m) \in Seq(S) /\ Len(SubSeq(g, 1, m)) = m
      /\ \A i \in 1 .. m : SubSeq(g, 1, m)[i] = g[i]
  BY Beginning
<1>2. /\ SubSeq(h, 1, m) \in Seq(S) /\ Len(SubSeq(h, 1, m)) = m
      /\ \A i \in 1 .. m : SubSeq(h, 1, m)[i] = h[i]
  BY Beginning
<1> QED
  BY <1>1, <1>2

LEMMA HoldsFewer ==
    ASSUME NEW S, NEW cells \in Seq(S), NEW l, NEW h,
           NEW n \in Nat, NEW m \in Nat, m <= n, Holds(cells, l, h, n)
    PROVE  Holds(cells, l, h, m)
BY DEF Holds

\* A file holds every history that begins alike.
LEMMA HoldsAlike ==
    ASSUME NEW cells, NEW l, NEW h \in Seq(Tokens), NEW g \in Seq(Tokens), NEW m \in Nat,
           m <= Len(g), m <= Len(h), \A i \in 1 .. m : g[i] = h[i],
           Holds(cells, l, h, m * Size(l))
    PROVE  Holds(cells, l, g, m * Size(l))
<1>1. ASSUME NEW k \in 0 .. m * Size(l) - 1 PROVE CellOf(l, g, k) = CellOf(l, h, k)
  <2> DEFINE p == k \div Size(l) + 1
  <2>1. m * Size(l) \in Nat
    BY SizeType
  <2>2. k \in Nat /\ k < m * Size(l)
    BY <1>1, <2>1
  <2>3. p \in 1 .. m
    BY <2>2, CellIndex
  <2> HIDE DEF p
  <2>4. g[p] = h[p]
    BY <2>3
  <2>5. SubSeq(g, 1, p) = SubSeq(h, 1, p)
    BY <2>3, SameBeginning
  <2> QED
    BY <2>4, <2>5 DEF CellOf, p
<1> QED
  BY <1>1 DEF Holds

\* Writing behind the first n cells leaves them alone; writing the next one
\* makes it one more.
LEMMA HoldsPut ==
    ASSUME NEW S, NEW cells \in Seq(S), NEW l, NEW h, NEW n \in Nat, NEW m \in Nat, n <= m,
           NEW cell \in S, Holds(cells, l, h, n)
    PROVE  /\ Holds(Put(cells, m, cell), l, h, n)
           /\ n = m /\ cell = CellOf(l, h, n) => Holds(Put(cells, m, cell), l, h, n + 1)
<1> DEFINE new == Put(cells, m, cell)
<1>1. /\ new \in Seq(S)
      /\ Len(new) = IF m < Len(cells) THEN Len(cells) ELSE Len(cells) + 1
      /\ m <= Len(cells) => new[m + 1] = cell
      /\ \A k \in 1 .. Len(cells) : k # m + 1 => new[k] = cells[k]
  BY ONLY cells \in Seq(S), m \in Nat, cell \in S, PutFacts
<1> HIDE DEF new
<1>2. n <= Len(cells) /\ \A k \in 0 .. n - 1 : cells[k + 1] = CellOf(l, h, k)
  BY DEF Holds
<1>3. Holds(new, l, h, n)
  <2>1. ASSUME NEW k \in 0 .. n - 1 PROVE new[k + 1] = CellOf(l, h, k)
    <3>1. k + 1 \in 1 .. Len(cells) /\ k + 1 # m + 1
      BY <1>2
    <3> QED
      BY <1>1, <1>2, <3>1
  <2>2. n <= Len(new)
    BY <1>1, <1>2
  <2> QED
    BY <2>1, <2>2 DEF Holds
<1>4. ASSUME n = m, cell = CellOf(l, h, n) PROVE Holds(new, l, h, n + 1)
  <2>1. new[n + 1] = CellOf(l, h, n) /\ n + 1 <= Len(new)
    BY <1>1, <1>2, <1>4
  <2>2. ASSUME NEW k \in 0 .. (n + 1) - 1 PROVE new[k + 1] = CellOf(l, h, k)
    <3>1. CASE k = n
      BY <2>1, <3>1
    <3>2. CASE k # n
      BY <1>3, <3>2 DEF Holds
    <3> QED
      BY <3>1, <3>2
  <2> QED
    BY <2>1, <2>2 DEF Holds
<1> QED
  BY <1>3, <1>4 DEF new

\* Reading a file that holds a history gives its tokens and their rows back.
LEMMA HoldsRead ==
    ASSUME NEW f, NEW l, NEW h \in Seq(Tokens), NEW n \in Nat, n <= Len(h),
           Holds(f.cells, l, h, n * Size(l)), NEW p \in 1 .. n
    PROVE  ReadTok(f, l, p) = h[p] /\ ReadRow(f, l, p) = SubSeq(h, 1, p)
<1> DEFINE S == Size(l)
           whole(part) == [layout |-> l, tok |-> h[p], row |-> SubSeq(h, 1, p), part |-> part]
<1>1. ASSUME NEW part \in 0 .. S - 1 PROVE Piece(f, l, p, part) = whole(part)
  <2> DEFINE k == (p - 1) * S + part
  <2>1. k \in 0 .. n * S - 1 /\ k \div S = p - 1 /\ k % S = part
    BY <1>1, PieceIndex
  <2>2. Piece(f, l, p, part) = f.cells[k + 1]
    BY DEF Piece
  <2> HIDE DEF k
  <2>3. f.cells[k + 1] = CellOf(l, h, k)
    BY <2>1 DEF Holds
  <2>4. k \div Size(l) + 1 = p
    BY <2>1
  <2>5. CellOf(l, h, k) = whole(part)
    BY <2>1, <2>4 DEF CellOf
  <2> QED
    BY <2>2, <2>3, <2>5
<1>2. 0 \in 0 .. S - 1
  BY SizeType
<1>3. Piece(f, l, p, 0) = whole(0)
  BY <1>1, <1>2
<1>4. Piece(f, l, p, 0).tok = h[p] /\ Piece(f, l, p, 0).row = SubSeq(h, 1, p)
  BY <1>3
<1> QED
  BY <1>1, <1>4 DEF ReadTok, ReadRow

\* Rows computed behind good rows are good.
LEMMA ForwardRows ==
    ASSUME hist \in Seq(Tokens), rows \in Seq(Rows), Len(rows) = Len(hist), RowsMatchHistory,
           NEW n \in 0 .. Len(hist), NEW tokens \in Seq(Tokens), Forward(n, tokens)
    PROVE  RowsMatchHistory'
<1>1. /\ hist' \in Seq(Tokens) /\ rows' \in Seq(Rows)
      /\ Len(hist') = n + Len(tokens) /\ Len(rows') = Len(hist')
      /\ \A p \in 1 .. n : hist'[p] = hist[p] /\ rows'[p] = rows[p]
      /\ \A p \in n + 1 .. n + Len(tokens) :
            /\ hist'[p] = tokens[p - n]
            /\ rows'[p] = (IF n = 0 THEN <<>> ELSE rows[n]) \o SubSeq(tokens, 1, p - n)
  BY ForwardFacts
<1>2. ASSUME NEW p \in 1 .. Len(rows') PROVE rows'[p] = SubSeq(hist', 1, p)
  <2>1. CASE p \in 1 .. n
    <3>1. rows'[p] = SubSeq(hist, 1, p)
      BY <1>1, <2>1 DEF RowsMatchHistory
    <3>2. SubSeq(hist, 1, p) = SubSeq(hist', 1, p)
      BY <1>1, <2>1, SameBeginning
    <3> QED
      BY <3>1, <3>2
  <2>2. CASE p \in n + 1 .. n + Len(tokens)
    <3> DEFINE base == IF n = 0 THEN <<>> ELSE rows[n]
               tail == SubSeq(tokens, 1, p - n)
               whole == SubSeq(hist', 1, p)
    <3>1. base \in Seq(Tokens) /\ Len(base) = n /\ \A i \in 1 .. n : base[i] = hist[i]
      <4>1. CASE n = 0
        BY <4>1
      <4>2. CASE n # 0
        <5>1. n \in 1 .. Len(rows) /\ n \in 0 .. Len(hist)
          BY <4>2
        <5>2. base = SubSeq(hist, 1, n)
          BY <4>2, <5>1 DEF RowsMatchHistory
        <5>3. hist \in Seq(Tokens)
          BY <1>1
        <5> HIDE DEF base
        <5> QED
          BY ONLY <5>1, <5>2, <5>3, Beginning
      <4> QED
        BY <4>1, <4>2
    <3>2. rows'[p] = base \o tail
      BY <1>1, <2>2
    <3>3. p - n \in 0 .. Len(tokens)
      BY <2>2
    <3>4. tail \in Seq(Tokens) /\ Len(tail) = p - n /\ \A i \in 1 .. p - n : tail[i] = tokens[i]
      BY <3>3, Beginning
    <3>5. p \in 0 .. Len(hist')
      BY <1>1, <2>2
    <3>6. whole \in Seq(Tokens) /\ Len(whole) = p /\ \A i \in 1 .. p : whole[i] = hist'[i]
      BY <1>1, <3>5, Beginning
    <3> HIDE DEF base, tail, whole
    <3>7. base \o tail \in Seq(Tokens)
      BY <3>1, <3>4
    <3>8. Len(base \o tail) = p
      <4>1. base \in Seq(Tokens) /\ tail \in Seq(Tokens)
        BY <3>1, <3>4
      <4>2. Len(base \o tail) = Len(base) + Len(tail)
        BY ONLY <4>1
      <4> QED
        BY <4>2, <3>1, <3>4, <2>2
    <3>9. ASSUME NEW i \in 1 .. p PROVE (base \o tail)[i] = whole[i]
      <4>1. CASE i \in 1 .. n
        <5>1. (base \o tail)[i] = base[i]
          BY <3>1, <3>4, <4>1
        <5>2. base[i] = hist[i] /\ hist'[i] = hist[i] /\ whole[i] = hist'[i]
          BY <3>1, <3>6, <4>1, <1>1
        <5> QED
          BY <5>1, <5>2
      <4>2. CASE i \in n + 1 .. p
        <5>1. (base \o tail)[i] = tail[i - n]
          BY <3>1, <3>4, <4>2
        <5>2. tail[i - n] = tokens[i - n]
          BY <3>4, <4>2
        <5>3. hist'[i] = tokens[i - n] /\ whole[i] = hist'[i]
          BY <1>1, <2>2, <3>6, <4>2
        <5> QED
          BY <5>1, <5>2, <5>3
      <4>3. i \in 1 .. n \/ i \in n + 1 .. p
        BY <2>2
      <4> QED
        BY <4>1, <4>2, <4>3
    <3>10. base \o tail = whole
      <4> DEFINE x == base \o tail
      <4>1. /\ x \in Seq(Tokens) /\ whole \in Seq(Tokens) /\ Len(x) = Len(whole)
            /\ \A i \in 1 .. Len(x) : x[i] = whole[i]
        BY <3>6, <3>7, <3>8, <3>9
      <4> HIDE DEF x
      <4>2. x = whole
        BY ONLY <4>1
      <4> QED
        BY <4>2 DEF x
    <3> QED
      BY <3>2, <3>10 DEF whole
  <2> QED
    BY <1>1, <1>2, <2>1, <2>2
<1> QED
  BY <1>2 DEF RowsMatchHistory

\* All records of a good file that is not too long are loaded.
LEMMA LoadableAll ==
    ASSUME NEW f \in FileType, NEW l \in Layouts, NEW c \in Contexts,
           f.layout = l, f.nrec + LoadReserve < c, f.nrec * Size(l) <= Len(f.cells)
    PROVE  Loadable(f, l, c) = f.nrec
<1> DEFINE S == Size(l)
           len == Len(f.cells)
           d == f.nrec
<1>1. S \in {1, 2} /\ len \in Nat /\ d \in Nat /\ LoadReserve \in Nat /\ c \in Nat
  BY SizeType, KvDiskAssumption DEF FileType
<1>2. d * S <= len
  OBVIOUS
<1>3. ~ (f.layout # l \/ d + LoadReserve >= c)
  BY <1>1
<1>4. d <= len \div S /\ len \div S \in Nat
  <2> HIDE DEF S, len, d
  <2>1. CASE S = 1
    BY <1>1, <1>2, <2>1
  <2>2. CASE S = 2
    BY <1>1, <1>2, <2>2
  <2> QED
    BY <1>1, <2>1, <2>2
<1>5. Min({d, len \div S}) = d
  BY <1>1, <1>4, MinOfTwo
<1> QED
  BY <1>3, <1>5 DEF Loadable

\* What a restart would resume with: the history the file holds, or nothing.
Resumed(f, l, c) == [p \in 1 .. Loadable(f, l, c) |-> ReadTok(f, l, p)]

LEMMA ResumedAll ==
    ASSUME NEW f \in FileType, NEW l \in Layouts, NEW c \in Contexts, NEW h \in Seq(Tokens),
           f.layout = l, f.nrec + LoadReserve < c, Len(h) = f.nrec,
           Holds(f.cells, l, h, f.nrec * Size(l))
    PROVE  Resumed(f, l, c) = h
<1>1. f.nrec * Size(l) <= Len(f.cells) /\ f.nrec \in Nat
  BY DEF Holds, FileType
<1>2. Loadable(f, l, c) = f.nrec
  BY <1>1, LoadableAll
<1>3. \A p \in 1 .. f.nrec : ReadTok(f, l, p) = h[p]
  BY <1>1, HoldsRead
<1>4. Resumed(f, l, c) = [p \in 1 .. Len(h) |-> h[p]]
  BY <1>2, <1>3 DEF Resumed
<1> QED
  BY <1>4

LEMMA ResumedNothing ==
    ASSUME NEW f, NEW l, NEW c, f.layout # l \/ f.nrec + LoadReserve >= c
    PROVE  Loadable(f, l, c) = 0 /\ Resumed(f, l, c) = <<>>
BY DEF Loadable, Resumed

\* The records that are counted are those of a beginning of the history.
LEMMA CountedStand ==
    ASSUME NEW cells \in Seq(Cells), NEW l, NEW h \in Seq(Tokens), NEW d \in 0 .. Len(h),
           NEW n \in Nat, d * Size(l) <= n, Holds(cells, l, h, n)
    PROVE  /\ Holds(cells, l, h, d * Size(l))
           /\ \E g \in Seq(Tokens) : Len(g) = d /\ Holds(cells, l, g, d * Size(l))
<1> DEFINE g == SubSeq(h, 1, d)
<1>1. d * Size(l) \in Nat
  BY SizeType
<1>2. Holds(cells, l, h, d * Size(l))
  BY <1>1, HoldsFewer
<1>3. g \in Seq(Tokens) /\ Len(g) = d /\ \A i \in 1 .. d : g[i] = h[i]
  BY Beginning
<1> HIDE DEF g
<1>4. Holds(cells, l, g, d * Size(l))
  BY <1>2, <1>3, HoldsAlike
<1> QED
  BY <1>2, <1>3, <1>4

(***************************************************************************)
(* Each step keeps the invariant.                                          *)
(***************************************************************************)
LEMMA SameSettings ==
    ASSUME OneWayToStart, TypeOK, TypeOK'
    PROVE  /\ layout' = layout /\ maxctx' = maxctx
           /\ Layouts = {layout} /\ Contexts = {maxctx}
BY DEF OneWayToStart, TypeOK

\* While a process runs, what the header counts follows from what the process
\* counts.
LEMMA StandsWhileRunning ==
    ASSUME TypeOK', pc' # "down", file' = NoFile \/ file'.layout = layout',
           CountIsKnown', CountedAreOfThisHistory', Appending'
    PROVE  FileStandsForAHistory'
<1> DEFINE n == IF pc' = "append" THEN at' ELSE disknrec' * Size(layout')
<1>1. /\ file' \in FileType /\ hist' \in Seq(Tokens) /\ disknrec' \in 0 .. Len(hist')
      /\ file'.cells \in Seq(Cells)
  BY DEF TypeOK, FileType
<1>2. disknrec' * Size(layout') \in Nat
  BY <1>1, SizeType
<1>3. n \in Nat /\ disknrec' * Size(layout') <= n
  <2>1. at' \in Nat
    <3>1. Len(hist') * Size(layout') \in Nat
      BY <1>1, SizeType
    <3> QED
      BY <3>1 DEF TypeOK
  <2> QED
    BY <1>2, <2>1 DEF Appending
<1>4. Holds(file'.cells, layout', hist', n)
  BY DEF CountedAreOfThisHistory
<1> HIDE DEF n
<1>5. \E g \in Seq(Tokens) : Len(g) = disknrec' /\ Holds(file'.cells, layout', g, disknrec' * Size(layout'))
  BY <1>1, <1>3, <1>4, CountedStand
<1>6. ~ TooLong' => file'.nrec = disknrec'
  BY DEF CountIsKnown
<1> QED
  BY <1>5, <1>6 DEF FileStandsForAHistory

LEMMA InitIInv == ASSUME Init PROVE IInv
<1>1. Holds(file.cells, layout, <<>>, 0 * Size(layout))
  BY SizeType DEF Init, NoFile, Holds
<1>2. <<>> \in Seq(Tokens) /\ Len(<<>>) = 0
  OBVIOUS
<1>3. file = NoFile /\ file.nrec = 0
  BY DEF Init, NoFile
<1>4. FileStandsForAHistory
  BY <1>1, <1>2, <1>3 DEF FileStandsForAHistory
<1> QED
  BY <1>4 DEF Init, IInv, RowsMatchHistory, CountIsKnown, CountedAreOfThisHistory,
     Appending, AllCounted, NothingWhenDown

LEMMA StartIInv ==
    ASSUME OneWayToStart, TypeOK, TypeOK', IInv, NEW l \in Layouts, NEW c \in Contexts, Start(l, c)
    PROVE  IInv'
<1> DEFINE n == Loadable(file, l, c)
<1>1. /\ layout' = layout /\ maxctx' = maxctx /\ l = layout /\ c = maxctx
      /\ file \in FileType /\ hist' \in Seq(Tokens) /\ rows' \in Seq(Rows)
      /\ LoadReserve \in Nat /\ maxctx \in Nat
  BY SameSettings, KvDiskAssumption DEF TypeOK, FileType
<1>2. /\ hist' = [p \in 1 .. n |-> ReadTok(file, l, p)]
      /\ rows' = [p \in 1 .. n |-> ReadRow(file, l, p)]
      /\ disknrec' = n /\ pc' = "idle" /\ file' = file
  BY DEF Start, Load
<1>3. CASE file = NoFile \/ TooLong
  <2>1. file.layout # l \/ file.nrec + LoadReserve >= c
    BY <1>1, <1>3, KvDiskAssumption DEF NoFile, TooLong
  <2>2. n = 0
    BY <2>1, ResumedNothing
  <2>3. hist' = <<>> /\ rows' = <<>> /\ disknrec' = 0
    BY <1>2, <2>2
  <2>4. RowsMatchHistory' /\ AllCounted' /\ Appending' /\ NothingWhenDown'
    BY <1>2, <2>3 DEF RowsMatchHistory, AllCounted, Appending, NothingWhenDown
  <2>5. CountIsKnown'
    BY <1>1, <1>2, <1>3, <2>3 DEF CountIsKnown, TooLong, NoFile
  <2>6. CountedAreOfThisHistory'
    BY <1>1, <1>2, <2>3, SizeType DEF CountedAreOfThisHistory, Holds, FileType
  <2>7. FileStandsForAHistory'
    BY <1>1, <1>2, <2>5, <2>6, <2>4, StandsWhileRunning DEF IInv, FileStandsForAHistory
  <2> QED
    BY <2>4, <2>5, <2>6, <2>7 DEF IInv
<1>4. CASE ~ (file = NoFile \/ TooLong)
  <2>1. PICK h \in Seq(Tokens) : Len(h) = file.nrec /\ Holds(file.cells, layout, h, file.nrec * Size(layout))
    BY <1>4 DEF IInv, FileStandsForAHistory
  <2>2. file.layout = l /\ file.nrec + LoadReserve < c /\ file.nrec \in Nat
    BY <1>1, <1>4 DEF IInv, FileStandsForAHistory, TooLong, FileType
  <2>3. n = file.nrec
    BY <1>1, <2>1, <2>2, LoadableAll DEF Holds
  <2>4. hist' = h
    BY <1>1, <1>2, <2>1, <2>2, ResumedAll DEF Resumed
  <2>5. Len(rows') = Len(h) /\ \A p \in 1 .. Len(h) : rows'[p] = SubSeq(h, 1, p)
    <3>1. Len(rows') = Len(h)
      BY <1>2, <2>1, <2>2, <2>3
    <3>2. \A p \in 1 .. Len(h) : ReadRow(file, l, p) = SubSeq(h, 1, p)
      <4>1. Len(h) \in Nat /\ Len(h) <= Len(h) /\ Holds(file.cells, l, h, Len(h) * Size(l))
        BY <1>1, <2>1
      <4> QED
        BY <4>1, HoldsRead
    <3> QED
      BY <1>2, <2>1, <2>3, <3>1, <3>2
  <2>6. RowsMatchHistory'
    BY <2>4, <2>5 DEF RowsMatchHistory
  <2>7. AllCounted' /\ Appending' /\ NothingWhenDown' /\ CountIsKnown'
    BY <1>2, <2>1, <2>3, <2>4 DEF AllCounted, Appending, NothingWhenDown, CountIsKnown
  <2>8. CountedAreOfThisHistory'
    BY <1>1, <1>2, <2>1, <2>3, <2>4 DEF CountedAreOfThisHistory
  <2>9. FileStandsForAHistory'
    BY <1>1, <1>2, <2>7, <2>8, StandsWhileRunning DEF IInv, FileStandsForAHistory
  <2> QED
    BY <2>6, <2>7, <2>8, <2>9 DEF IInv
<1> QED
  BY <1>3, <1>4

\* A step of a turn that keeps the first n tokens of the history, all of them
\* or as many as it cuts the file back to.
LEMMA TalkIInv ==
    ASSUME OneWayToStart, TypeOK, TypeOK', IInv, pc = "idle", pc' \in {"idle", "decode"},
           NEW n \in 0 .. Len(hist), n <= Len(hist'), \A i \in 1 .. n : hist'[i] = hist[i],
           \/ n = Len(hist) /\ UNCHANGED <<disknrec, file>>
           \/ (n < Len(hist) \/ n = 0) /\ Truncate(n),
           RowsMatchHistory', pc' = "idle" => hist' = <<>>
    PROVE  IInv'
<1>1. /\ layout' = layout /\ maxctx' = maxctx
      /\ file \in FileType /\ hist \in Seq(Tokens) /\ hist' \in Seq(Tokens)
      /\ disknrec \in 0 .. Len(hist) /\ file.cells \in Seq(Cells)
  BY SameSettings DEF TypeOK, FileType
<1>2. /\ file = NoFile \/ file.layout = layout
      /\ file.nrec = disknrec \/ (disknrec = 0 /\ TooLong)
      /\ Holds(file.cells, layout, hist, disknrec * Size(layout))
      /\ hist # <<>> => disknrec = Len(hist) /\ file.nrec = Len(hist)
  BY DEF IInv, FileStandsForAHistory, CountIsKnown, CountedAreOfThisHistory, AllCounted
<1>3. /\ file'.cells = file.cells
      /\ file' = NoFile \/ file'.layout = layout
      /\ CountIsKnown' /\ disknrec' <= n /\ disknrec' <= disknrec /\ disknrec' \in Nat
  <2>1. CASE n = Len(hist) /\ UNCHANGED <<disknrec, file>>
    BY <1>1, <1>2, <2>1 DEF CountIsKnown, TooLong
  <2>2. CASE Truncate(n) /\ file = NoFile
    BY <1>1, <1>2, <2>2 DEF Truncate, CountIsKnown, NoFile
  <2>3. CASE (n < Len(hist) \/ n = 0) /\ Truncate(n) /\ file # NoFile
    <3>1. disknrec' = n /\ file' = [file EXCEPT !.nrec = n]
      BY <2>3 DEF Truncate
    <3>2. file'.nrec = n /\ file'.cells = file.cells /\ file'.layout = file.layout
      BY <1>1, <3>1 DEF FileType
    <3>3. n <= disknrec
      BY <1>1, <1>2, <2>3
    <3> QED
      BY <1>2, <2>3, <3>1, <3>2, <3>3 DEF CountIsKnown
  <2> QED
    BY <2>1, <2>2, <2>3
<1>4. CountedAreOfThisHistory'
  <2>1. disknrec' * Size(layout) <= disknrec * Size(layout) /\ disknrec' * Size(layout) \in Nat /\ disknrec * Size(layout) \in Nat
    BY <1>1, <1>3, AtType, SizeType
  <2>2. Holds(file.cells, layout, hist, disknrec' * Size(layout))
    BY <1>1, <1>2, <2>1, HoldsFewer
  <2>3. \A i \in 1 .. disknrec' : hist'[i] = hist[i]
    BY <1>3
  <2>4. disknrec' <= Len(hist) /\ disknrec' <= Len(hist')
    BY <1>1, <1>3
  <2>5. Holds(file.cells, layout, hist', disknrec' * Size(layout))
    BY <1>1, <1>3, <2>2, <2>3, <2>4, HoldsAlike
  <2> QED
    BY <1>1, <1>3, <2>5 DEF CountedAreOfThisHistory
<1>5. Appending' /\ AllCounted' /\ NothingWhenDown'
  BY DEF Appending, AllCounted, NothingWhenDown
<1>6. FileStandsForAHistory'
  BY <1>1, <1>3, <1>4, <1>5, StandsWhileRunning
<1> QED
  BY <1>3, <1>4, <1>5, <1>6 DEF IInv

LEMMA ResetIInv == ASSUME OneWayToStart, TypeOK, TypeOK', IInv, Reset PROVE IInv'
<1>1. hist' = <<>> /\ rows' = <<>> /\ pc = "idle" /\ pc' = "idle" /\ Truncate(0)
  BY DEF Reset
<1>2. RowsMatchHistory'
  BY <1>1 DEF RowsMatchHistory
<1>3. 0 \in 0 .. Len(hist) /\ 0 <= Len(hist') /\ \A i \in 1 .. 0 : hist'[i] = hist[i]
  BY <1>1 DEF TypeOK
<1> QED
  BY <1>1, <1>2, <1>3, TalkIInv

LEMMA PromptIInv ==
    ASSUME OneWayToStart, TypeOK, TypeOK', IInv, NEW prompt \in Seq(Tokens), Prompt(prompt)
    PROVE  IInv'
<1> DEFINE prefix == CommonPrefix(hist, prompt)
           rest == SubSeq(prompt, prefix + 1, Len(prompt))
<1>1. /\ prefix \in 0 .. Len(hist) /\ prefix <= Len(prompt)
      /\ prompt = <<>> => prefix = 0
  BY CommonPrefixExists DEF TypeOK
<1>2. /\ Forward(prefix, rest) /\ pc = "idle"
      /\ IF prefix < Len(hist) THEN Truncate(prefix) ELSE UNCHANGED <<disknrec, file>>
      /\ pc' = IF prompt = <<>> THEN "idle" ELSE "decode"
  BY DEF Prompt
<1> HIDE DEF prefix
<1>3. rest \in Seq(Tokens) /\ Len(rest) = Len(prompt) - prefix
  BY <1>1
<1> HIDE DEF rest
<1>4. hist \in Seq(Tokens) /\ rows \in Seq(Rows) /\ Len(rows) = Len(hist) /\ RowsMatchHistory
  BY DEF TypeOK, IInv
<1>5. /\ hist' \in Seq(Tokens) /\ Len(hist') = prefix + Len(rest)
      /\ \A p \in 1 .. prefix : hist'[p] = hist[p]
  BY <1>1, <1>2, <1>3, <1>4, ForwardFacts
<1>6. RowsMatchHistory'
  BY <1>1, <1>2, <1>3, <1>4, ForwardRows
<1>7. pc' = "idle" => hist' = <<>>
  BY <1>1, <1>2, <1>3, <1>5
<1>8. \/ prefix = Len(hist) /\ UNCHANGED <<disknrec, file>>
      \/ (prefix < Len(hist) \/ prefix = 0) /\ Truncate(prefix)
  BY <1>1, <1>2, <1>4
<1>9. prefix <= Len(hist')
  BY <1>1, <1>3, <1>5
<1> QED
  BY <1>1, <1>2, <1>5, <1>6, <1>7, <1>8, <1>9, TalkIInv

LEMMA LineIInv ==
    ASSUME OneWayToStart, TypeOK, TypeOK', IInv, NEW text \in Seq(Tokens), Line(text)
    PROVE  IInv'
<1> DEFINE full == Len(hist) + Len(text) + LoadReserve >= maxctx
           n == IF full THEN 0 ELSE Len(hist)
<1>1. /\ hist \in Seq(Tokens) /\ rows \in Seq(Rows) /\ Len(rows) = Len(hist) /\ RowsMatchHistory
      /\ n \in 0 .. Len(hist)
  BY DEF TypeOK, IInv
<1>2. /\ Forward(n, text) /\ pc = "idle" /\ pc' = "decode"
      /\ \/ n = Len(hist) /\ UNCHANGED <<disknrec, file>>
         \/ (n < Len(hist) \/ n = 0) /\ Truncate(n)
  BY DEF Line
<1> HIDE DEF n
<1>3. /\ hist' \in Seq(Tokens) /\ Len(hist') = n + Len(text)
      /\ \A p \in 1 .. n : hist'[p] = hist[p]
  BY <1>1, <1>2, ForwardFacts
<1>4. RowsMatchHistory'
  BY <1>1, <1>2, ForwardRows
<1>5. n <= Len(hist')
  BY <1>1, <1>3
<1> QED
  BY <1>1, <1>2, <1>3, <1>4, <1>5, TalkIInv

LEMMA MoreIInv == ASSUME IInv, More PROVE IInv'
<1>1. /\ pc = "idle" /\ pc' = "decode"
      /\ UNCHANGED <<layout, maxctx, hist, rows, disknrec, file, at>>
  BY DEF More, memory, config
<1>2. RowsMatchHistory' /\ FileStandsForAHistory'
  BY <1>1 DEF IInv, RowsMatchHistory, FileStandsForAHistory, TooLong
<1>3. CountIsKnown' /\ Appending' /\ AllCounted' /\ NothingWhenDown'
  BY <1>1 DEF IInv, CountIsKnown, TooLong, Appending, AllCounted, NothingWhenDown
<1>4. CountedAreOfThisHistory'
  BY <1>1 DEF IInv, CountedAreOfThisHistory
<1> QED
  BY <1>2, <1>3, <1>4 DEF IInv

LEMMA DecodeIInv ==
    ASSUME OneWayToStart, TypeOK, TypeOK', IInv, NEW out \in Seq(Tokens), NEW n \in Nat, Decode(out, n)
    PROVE  IInv'
<1>1. /\ layout' = layout /\ maxctx' = maxctx
      /\ file \in FileType /\ hist \in Seq(Tokens) /\ rows \in Seq(Rows) /\ Len(rows) = Len(hist)
      /\ disknrec \in 0 .. Len(hist) /\ RowsMatchHistory /\ Len(hist) \in 0 .. Len(hist)
  BY SameSettings DEF TypeOK, FileType, IInv
<1>2. PICK new \in Seq(Tokens) : Forward(Len(hist), new)
  BY DecodeForwards
<1>3. /\ hist' \in Seq(Tokens) /\ Len(hist') = Len(hist) + Len(new)
      /\ \A p \in 1 .. Len(hist) : hist'[p] = hist[p]
  BY <1>1, <1>2, ForwardFacts
<1>4. RowsMatchHistory'
  BY <1>1, <1>2, ForwardRows
<1>5. pc = "decode" /\ BeginAppend(Len(hist')) /\ disknrec' = disknrec /\ file' = file
  BY DEF Decode
<1>6. /\ file = NoFile \/ file.layout = layout
      /\ file.nrec = disknrec \/ (disknrec = 0 /\ TooLong)
      /\ Holds(file.cells, layout, hist, disknrec * Size(layout))
  BY <1>5 DEF IInv, FileStandsForAHistory, CountIsKnown, CountedAreOfThisHistory
<1>7. Holds(file.cells, layout, hist', disknrec * Size(layout))
  <2>1. disknrec <= Len(hist) /\ disknrec <= Len(hist') /\ \A i \in 1 .. disknrec : hist'[i] = hist[i]
    BY <1>1, <1>3
  <2> QED
    <3>1. hist \in Seq(Tokens) /\ hist' \in Seq(Tokens) /\ disknrec \in Nat
      BY <1>1, <1>3
    <3>2. Holds(file.cells, layout, hist, disknrec * Size(layout))
      BY <1>6
    <3> QED
      BY ONLY <2>1, <3>1, <3>2, HoldsAlike
<1>8. pc' \in {"idle", "append"} /\ CountIsKnown' /\ NothingWhenDown'
  BY <1>1, <1>5, <1>6 DEF BeginAppend, CountIsKnown, TooLong, NothingWhenDown
<1>9. CountedAreOfThisHistory' /\ Appending' /\ AllCounted'
  <2>1. disknrec \in Nat /\ Len(hist') \in Nat /\ disknrec * Size(layout) \in Nat
    <3>1. disknrec \in Nat /\ Len(hist') \in Nat
      BY <1>1, <1>3
    <3> QED
      BY <3>1, SizeType
  <2>2. CASE Len(hist') <= disknrec
    <3>1. pc' = "idle" /\ disknrec = Len(hist')
      BY <1>1, <1>3, <1>5, <2>2 DEF BeginAppend
    <3>2. hist' # <<>> => file.nrec = disknrec
      BY <1>3, <1>6, <3>1
    <3> QED
      BY <1>1, <1>5, <1>7, <3>1, <3>2 DEF CountedAreOfThisHistory, Appending, AllCounted
  <2>3. CASE ~ (Len(hist') <= disknrec)
    <3>1. pc' = "append" /\ at' = disknrec * Size(layout) /\ disknrec < Len(hist')
      BY <1>1, <2>1, <1>5, <2>3 DEF BeginAppend
    <3> QED
      BY <1>1, <1>5, <1>7, <2>1, <3>1 DEF CountedAreOfThisHistory, Appending, AllCounted
  <2> QED
    BY <2>2, <2>3
<1>10. FileStandsForAHistory'
  BY <1>1, <1>5, <1>6, <1>8, <1>9, StandsWhileRunning
<1> QED
  BY <1>4, <1>8, <1>9, <1>10 DEF IInv

\* The cell written next is the one of the history.
LEMMA NextCell ==
    ASSUME TypeOK, RowsMatchHistory, NEW k \in Nat, k < Len(hist) * Size(layout)
    PROVE  CellAt(layout, k) = CellOf(layout, hist, k)
<1> DEFINE p == k \div Size(layout) + 1
<1>1. Len(hist) \in Nat /\ Len(rows) = Len(hist)
  BY DEF TypeOK
<1>2. p \in 1 .. Len(rows)
  BY <1>1, CellIndex
<1>3. rows[p] = SubSeq(hist, 1, p)
  BY <1>2 DEF RowsMatchHistory
<1> QED
  BY <1>3 DEF CellAt, Cell, CellOf

LEMMA AppendCellIInv == ASSUME OneWayToStart, TypeOK, TypeOK', IInv, AppendCell PROVE IInv'
<1> DEFINE cell == CellAt(layout, at)
<1>1. /\ layout' = layout /\ maxctx' = maxctx /\ layout \in {"dsa", "plain"}
      /\ file \in FileType /\ file.cells \in Seq(Cells) /\ hist \in Seq(Tokens) /\ disknrec \in Nat
  BY SameSettings, KvDiskAssumption DEF TypeOK, FileType
<1>2. /\ pc = "append" /\ pc' = "append" /\ at < Len(hist) * Size(layout) /\ at' = at + 1
      /\ UNCHANGED <<hist, rows, disknrec>>
      /\ file' = [layout |-> IF file = NoFile THEN layout ELSE file.layout,
                  nrec   |-> file.nrec,
                  cells  |-> Put(file.cells, at, cell)]
  BY DEF AppendCell, memory
<1>3. at \in Nat /\ disknrec * Size(layout) \in Nat
  <2>1. Len(hist) * Size(layout) \in Nat /\ disknrec * Size(layout) \in Nat
    BY <1>1, SizeType
  <2> QED
    BY <2>1 DEF TypeOK
<1>4. cell \in Cells /\ cell = CellOf(layout, hist, at)
  BY <1>2, <1>3, CellType, NextCell DEF IInv
<1> HIDE DEF cell
<1>5. /\ file = NoFile \/ file.layout = layout
      /\ file.nrec = disknrec \/ (disknrec = 0 /\ TooLong)
      /\ Holds(file.cells, layout, hist, at)
      /\ disknrec < Len(hist) /\ disknrec * Size(layout) <= at
  BY <1>2 DEF IInv, FileStandsForAHistory, CountIsKnown, CountedAreOfThisHistory, Appending
<1>6. file'.layout = layout /\ file'.nrec = file.nrec /\ file'.cells = Put(file.cells, at, cell)
  BY <1>2, <1>5
<1>7. file' # NoFile
  BY <1>1, <1>6 DEF NoFile
<1>8. Holds(file'.cells, layout, hist, at + 1)
  BY <1>1, <1>3, <1>4, <1>5, <1>6, HoldsPut
<1>9. CountedAreOfThisHistory'
  BY <1>1, <1>2, <1>8 DEF CountedAreOfThisHistory
<1>10. Appending'
  BY <1>1, <1>2, <1>3, <1>5, <1>7 DEF Appending
<1>11. CountIsKnown' /\ AllCounted' /\ NothingWhenDown'
  BY <1>1, <1>2, <1>5, <1>6 DEF CountIsKnown, TooLong, AllCounted, NothingWhenDown
<1>12. RowsMatchHistory'
  BY <1>2 DEF IInv, RowsMatchHistory
<1>13. FileStandsForAHistory'
  BY <1>1, <1>2, <1>6, <1>9, <1>10, <1>11, StandsWhileRunning
<1> QED
  BY <1>9, <1>10, <1>11, <1>12, <1>13 DEF IInv

LEMMA AppendCountIInv == ASSUME OneWayToStart, TypeOK, TypeOK', IInv, AppendCount PROVE IInv'
<1>1. /\ layout' = layout /\ maxctx' = maxctx
      /\ file \in FileType /\ hist \in Seq(Tokens) /\ disknrec \in 0 .. Len(hist)
  BY SameSettings DEF TypeOK, FileType
<1>2. /\ pc = "append" /\ pc' = "idle" /\ at = Len(hist) * Size(layout)
      /\ UNCHANGED <<hist, rows>> /\ disknrec' = Len(hist)
      /\ file' = [file EXCEPT !.nrec = Len(hist)]
  BY DEF AppendCount, memory
<1>3. /\ disknrec < Len(hist) /\ Holds(file.cells, layout, hist, at)
      /\ disknrec * Size(layout) < at => file # NoFile
      /\ file = NoFile \/ file.layout = layout
  BY <1>2 DEF IInv, Appending, CountedAreOfThisHistory, FileStandsForAHistory
<1>4. disknrec * Size(layout) < at
  <2>1. CASE Size(layout) = 1
    BY <1>1, <1>2, <1>3, <2>1
  <2>2. CASE Size(layout) = 2
    BY <1>1, <1>2, <1>3, <2>2
  <2> QED
    BY <2>1, <2>2, SizeType
<1>5. file'.layout = layout /\ file'.nrec = Len(hist) /\ file'.cells = file.cells
  BY <1>1, <1>2, <1>3, <1>4 DEF FileType
<1>6. CountIsKnown' /\ Appending' /\ AllCounted' /\ NothingWhenDown'
  BY <1>2, <1>5 DEF CountIsKnown, Appending, AllCounted, NothingWhenDown
<1>7. CountedAreOfThisHistory'
  BY <1>1, <1>2, <1>3, <1>5 DEF CountedAreOfThisHistory
<1>8. RowsMatchHistory'
  BY <1>2 DEF IInv, RowsMatchHistory
<1>9. FileStandsForAHistory'
  BY <1>1, <1>2, <1>5, <1>6, <1>7, StandsWhileRunning
<1> QED
  BY <1>6, <1>7, <1>8, <1>9 DEF IInv

LEMMA CrashIInv == ASSUME IInv, Crash PROVE IInv'
<1>1. pc' = "down" /\ hist' = <<>> /\ rows' = <<>> /\ UNCHANGED <<layout, maxctx, file>>
  BY DEF Crash, config
<1>2. FileStandsForAHistory'
  BY <1>1 DEF IInv, FileStandsForAHistory, TooLong
<1> QED
  BY <1>1, <1>2 DEF IInv, RowsMatchHistory, CountIsKnown, CountedAreOfThisHistory, Appending,
     AllCounted, NothingWhenDown

LEMMA StutterIInv == ASSUME IInv, UNCHANGED vars PROVE IInv'
<1>1. RowsMatchHistory' /\ FileStandsForAHistory' /\ NothingWhenDown' /\ Appending'
  BY DEF vars, IInv, RowsMatchHistory, FileStandsForAHistory, TooLong, NothingWhenDown, Appending
<1>2. CountIsKnown' /\ CountedAreOfThisHistory' /\ AllCounted'
  BY DEF vars, IInv, CountIsKnown, TooLong, CountedAreOfThisHistory, AllCounted
<1> QED
  BY <1>1, <1>2 DEF IInv

LEMMA NextIInv == ASSUME OneWayToStart, TypeOK, TypeOK', IInv, [Next]_vars PROVE IInv'
<1>1. ASSUME NEW text \in Texts, Prompt(text) \/ Line(text) PROVE IInv'
  BY <1>1, TextsAreSequences, PromptIInv, LineIInv
<1>2. ASSUME NEW out \in Outputs, NEW n \in 0 .. NGen, Decode(out, n) PROVE IInv'
  BY <1>2, OutputsAreSequences, DecodeIInv
<1>3. ASSUME Turn PROVE IInv'
  BY <1>1, <1>2, <1>3, ResetIInv, MoreIInv DEF Turn
<1> QED
  BY <1>3, StartIInv, AppendCellIInv, AppendCountIInv, CrashIInv, StutterIInv DEF Next

\* The inductive invariant is one, under one way to start the engine.
THEOREM KvInvariant == OneWayToStart => (Spec => []IInv)
<1> SUFFICES ASSUME OneWayToStart PROVE Spec => []IInv
  OBVIOUS
<1>1. Init => IInv
  BY InitIInv
<1>2. TypeOK /\ TypeOK' /\ IInv /\ [Next]_vars => IInv'
  BY NextIInv
<1> QED
  BY <1>1, <1>2, KvTypeCorrect, PTL DEF Spec

\* Wherever a KV row came from, prefill, decode, a reused prefix or the file,
\* and whenever the process crashed, it was computed from exactly the tokens up
\* to its own (glm.c: kv_disk_append writes "dati prima, contatore poi").
THEOREM RowsAreOfTheHistory == OneWayToStart => (Spec => []RowsMatchHistory)
<1>1. IInv => RowsMatchHistory
  BY DEF IInv
<1> QED
  BY <1>1, KvInvariant, PTL

LEMMA SavedFollows == ASSUME OneWayToStart, TypeOK, IInv PROVE SavedBetweenTurns
<1> SUFFICES ASSUME pc = "idle", hist # <<>>
             PROVE  /\ disknrec = Len(hist) /\ file.nrec = Len(hist)
                    /\ Len(hist) + LoadReserve < maxctx => Resumed(file, layout, maxctx) = hist
  BY DEF SavedBetweenTurns, Resumed
<1>1. disknrec = Len(hist) /\ file.nrec = Len(hist)
  BY DEF IInv, AllCounted
<1>2. Holds(file.cells, layout, hist, disknrec * Size(layout))
  BY DEF IInv, CountedAreOfThisHistory
<1>3. file \in FileType /\ hist \in Seq(Tokens) /\ layout \in Layouts /\ maxctx \in Contexts
  BY DEF TypeOK, FileType
<1>4. file # NoFile
  BY <1>1, <1>3 DEF NoFile
<1>5. file.layout = layout
  BY <1>4 DEF IInv, FileStandsForAHistory
<1> QED
  BY <1>1, <1>2, <1>3, <1>5, ResumedAll

\* Between turns the file holds the whole conversation: the process counts all
\* of its records, the header too, and a restart resumes with every token
\* unless there are too many ("il prossimo avvio riparte da qui", glm.c:2314).
THEOREM NothingIsLostBetweenTurns == OneWayToStart => (Spec => []SavedBetweenTurns)
<1> SUFFICES ASSUME OneWayToStart PROVE Spec => []SavedBetweenTurns
  OBVIOUS
<1>1. TypeOK /\ IInv => SavedBetweenTurns
  BY SavedFollows
<1> QED
  BY <1>1, KvInvariant, KvTypeCorrect, PTL

(***************************************************************************)
(* The file is a durable history.                                          *)
(***************************************************************************)
LEMMA KeptIsResumed ==
    /\ Kept = Resumed(file, layout, maxctx)
    /\ Kept' = Resumed(file', layout', maxctx')
BY DEF Kept, Resumed

\* While a process runs, what the file stands for is the counted beginning of
\* the history, or nothing.
LEMMA ResumedIsCounted ==
    ASSUME NEW f \in FileType, NEW l \in Layouts, NEW c \in Contexts, NEW h \in Seq(Tokens),
           NEW d \in 0 .. Len(h), NEW n \in Nat, d * Size(l) <= n,
           f = NoFile \/ f.layout = l, f.nrec = d, Holds(f.cells, l, h, n)
    PROVE  Resumed(f, l, c) = IF d + LoadReserve < c THEN SubSeq(h, 1, d) ELSE <<>>
<1> DEFINE g == SubSeq(h, 1, d)
<1>1. d * Size(l) \in Nat /\ f.cells \in Seq(Cells) /\ c \in Nat /\ LoadReserve \in Nat
  BY SizeType, KvDiskAssumption DEF FileType
<1>2. Holds(f.cells, l, h, d * Size(l))
  BY <1>1, HoldsFewer
<1>3. g \in Seq(Tokens) /\ Len(g) = d /\ \A i \in 1 .. d : g[i] = h[i]
  BY Beginning
<1>4. d = 0 => g = <<>>
  BY <1>3
<1> HIDE DEF g
<1>5. Holds(f.cells, l, g, d * Size(l))
  BY <1>2, <1>3, HoldsAlike
<1>6. CASE f.layout # l
  <2>1. f.nrec = 0
    BY <1>6 DEF NoFile
  <2> QED
    BY <1>4, <1>6, <2>1, ResumedNothing DEF g
<1>7. CASE f.layout = l /\ d + LoadReserve < c
  BY <1>3, <1>5, <1>7, ResumedAll DEF g
<1>8. CASE ~ (d + LoadReserve < c)
  BY <1>1, <1>8, ResumedNothing
<1> QED
  BY <1>6, <1>7, <1>8

LEMMA EmptyIsPrefix == ASSUME NEW S, NEW t \in Seq(S) PROVE IsPrefix(<<>>, t)
<1>1. SubSeq(t, 1, 0) = <<>> /\ SubSeq(<<>>, 1, 0) = <<>> /\ Len(<<>>) = 0
  OBVIOUS
<1> QED
  BY <1>1 DEF IsPrefix

LEMMA BeginningIsPrefix ==
    ASSUME NEW S, NEW t \in Seq(S), NEW u \in Seq(S), NEW n \in Nat, n <= Len(t), n <= Len(u),
           \A i \in 1 .. n : t[i] = u[i]
    PROVE  IsPrefix(SubSeq(t, 1, n), u)
<1> DEFINE s == SubSeq(t, 1, n)
<1>1. n \in 0 .. Len(t)
  OBVIOUS
<1>2. s \in Seq(S) /\ Len(s) = n /\ \A i \in 1 .. n : s[i] = t[i]
  BY <1>1, Beginning
<1> HIDE DEF s
<1>3. n <= Len(s) /\ \A i \in 1 .. n : s[i] = u[i]
  BY <1>2
<1>4. SubSeq(s, 1, n) = SubSeq(u, 1, n)
  BY <1>2, <1>3, SameBeginning
<1> QED
  BY <1>2, <1>4 DEF IsPrefix, s

\* Conversation and file grow or are cut back as DurableHistory says.
LEMMA TalkIsDurable ==
    ASSUME OneWayToStart, TypeOK, TypeOK', IInv, IInv', pc = "idle", pc' \in {"idle", "decode"},
           NEW n \in 0 .. Len(hist), n <= Len(hist'), \A i \in 1 .. n : hist'[i] = hist[i],
           \/ n = Len(hist) /\ UNCHANGED <<disknrec, file>>
           \/ (n < Len(hist) \/ n = 0) /\ Truncate(n)
    PROVE  Durable!Next
<1>1. /\ layout' = layout /\ maxctx' = maxctx /\ layout \in Layouts /\ maxctx \in Contexts
      /\ file \in FileType /\ file' \in FileType /\ hist \in Seq(Tokens) /\ hist' \in Seq(Tokens)
      /\ disknrec \in 0 .. Len(hist) /\ disknrec' \in 0 .. Len(hist')
  BY SameSettings DEF TypeOK, FileType
<1>2. CASE n = Len(hist) /\ UNCHANGED <<disknrec, file>>
  <2>1. IsPrefix(hist, hist')
    <3>1. Len(hist) \in Nat /\ SubSeq(hist, 1, Len(hist)) = hist
      BY <1>1
    <3>2. Len(hist) <= Len(hist') /\ \A i \in 1 .. Len(hist) : hist[i] = hist'[i]
      BY <1>2
    <3>3. SubSeq(hist, 1, n) = SubSeq(hist', 1, n)
      <4>1. n \in Nat /\ n <= Len(hist) /\ \A i \in 1 .. n : hist[i] = hist'[i]
        BY <1>1
      <4> QED
        BY <1>1, <4>1, SameBeginning
    <3> QED
      BY <1>2, <3>2, <3>3 DEF IsPrefix
  <2>2. Kept' = Kept
    BY <1>1, <1>2, KeptIsResumed
  <2>3. (pc # "down")' = (pc # "down") /\ pc # "down"
    OBVIOUS
  <2> QED
    BY <1>1, <2>1, <2>2, <2>3 DEF Durable!Next, Durable!Talk, Durable!IsPrefix, IsPrefix
<1>3. CASE (n < Len(hist) \/ n = 0) /\ Truncate(n)
  <2> DEFINE d == disknrec'
  <2>1. /\ file = NoFile \/ file.layout = layout
        /\ Holds(file.cells, layout, hist, disknrec * Size(layout))
        /\ file.nrec = disknrec \/ (disknrec = 0 /\ TooLong)
        /\ hist # <<>> => disknrec = Len(hist) /\ file.nrec = Len(hist)
    BY DEF IInv, FileStandsForAHistory, CountedAreOfThisHistory, CountIsKnown, AllCounted
  <2>2. /\ file' = NoFile \/ file'.layout = layout
        /\ file'.nrec = d /\ d <= n /\ d <= disknrec /\ d \in Nat
        /\ n < Len(hist) => disknrec = Len(hist) /\ file # NoFile
    <3>1. CASE file = NoFile
      <4>1. d = 0 /\ file' = file
        BY <1>3, <3>1 DEF Truncate
      <4>2. hist = <<>>
        BY <1>1, <2>1, <3>1 DEF NoFile
      <4> QED
        BY <1>1, <3>1, <4>1, <4>2 DEF NoFile
    <3>2. CASE file # NoFile
      <4>1. d = n /\ file' = [file EXCEPT !.nrec = n]
        BY <1>3, <3>2 DEF Truncate
      <4>2. file'.nrec = n /\ file'.layout = file.layout
        BY <1>1, <4>1 DEF FileType
      <4>3. n < Len(hist) => disknrec = Len(hist)
        BY <1>1, <2>1
      <4> QED
        BY <1>1, <1>3, <2>1, <3>2, <4>1, <4>2, <4>3
    <3> QED
      BY <3>1, <3>2
  <2>3. Holds(file'.cells, layout, hist', d * Size(layout))
    BY <1>1 DEF IInv, CountedAreOfThisHistory
  <2>4. Kept' = IF d + LoadReserve < maxctx THEN SubSeq(hist', 1, d) ELSE <<>>
    <3>1. d * Size(layout) \in Nat /\ d * Size(layout) <= d * Size(layout)
      BY <2>2, SizeType
    <3> QED
      BY <1>1, <2>2, <2>3, <3>1, ResumedIsCounted, KeptIsResumed
  <2>5. d <= Len(hist) /\ d <= Len(hist') /\ \A i \in 1 .. d : hist'[i] = hist[i]
    BY <1>1, <2>2
  <2> HIDE DEF d
  <2>6. IsPrefix(Kept', hist') /\ IsPrefix(Kept', hist)
    <3>1. IsPrefix(SubSeq(hist', 1, d), hist') /\ IsPrefix(SubSeq(hist', 1, d), hist)
      BY <1>1, <2>2, <2>5, BeginningIsPrefix
    <3>2. IsPrefix(<<>>, hist') /\ IsPrefix(<<>>, hist)
      BY <1>1, EmptyIsPrefix
    <3> QED
      BY <2>4, <3>1, <3>2
  <2>7. IsPrefix(Kept', Kept) \/ Kept = <<>>
    <3>1. CASE hist # <<>>
      <4>1. disknrec = Len(hist) /\ file.nrec = Len(hist) /\ Len(hist) \in 0 .. Len(hist)
        BY <1>1, <2>1, <3>1
      <4>2. disknrec * Size(layout) \in Nat /\ disknrec * Size(layout) <= disknrec * Size(layout)
        BY <1>1, SizeType
      <4>3. Kept = IF Len(hist) + LoadReserve < maxctx THEN SubSeq(hist, 1, Len(hist)) ELSE <<>>
        BY <1>1, <2>1, <4>1, <4>2, ResumedIsCounted, KeptIsResumed
      <4>4. SubSeq(hist, 1, Len(hist)) = hist
        BY <1>1
      <4> QED
        BY <2>6, <4>3, <4>4
    <3>2. CASE hist = <<>>
      <4>1. Kept' = <<>>
        <5>1. d = 0
          BY <2>2, <2>5, <3>2
        <5>2. SubSeq(hist', 1, 0) = <<>>
          BY <1>1
        <5> QED
          BY <2>4, <5>1, <5>2
      <4>2. CASE file = NoFile \/ TooLong
        <5>1. file.layout # layout \/ file.nrec + LoadReserve >= maxctx
          BY <1>1, <4>2, KvDiskAssumption DEF NoFile, TooLong
        <5> QED
          BY <5>1, ResumedNothing, KeptIsResumed
      <4>3. CASE ~ (file = NoFile \/ TooLong)
        <5>1. PICK h \in Seq(Tokens) : Len(h) = file.nrec /\ Holds(file.cells, layout, h, file.nrec * Size(layout))
          BY <4>3 DEF IInv, FileStandsForAHistory
        <5>2. file.layout = layout /\ file.nrec + LoadReserve < maxctx
          BY <1>1, <2>1, <4>3, KvDiskAssumption DEF TooLong, FileType
        <5>3. Kept = h
          BY <1>1, <5>1, <5>2, ResumedAll, KeptIsResumed
        <5> QED
          BY <4>1, <5>1, <5>3, EmptyIsPrefix
      <4> QED
        BY <4>2, <4>3
    <3> QED
      BY <3>1, <3>2
  <2>8. (pc # "down")' = (pc # "down") /\ pc # "down"
    OBVIOUS
  <2> QED
    BY <1>1, <2>6, <2>7, <2>8 DEF Durable!Next, Durable!CutBack, Durable!IsPrefix, IsPrefix
<1> QED
  BY <1>2, <1>3

\* A step that leaves the file's good part alone while the history goes on.
LEMMA GoesOn ==
    ASSUME hist' \in Seq(Tokens), IsPrefix(hist, hist'), Kept' = Kept, pc # "down", pc' # "down"
    PROVE  Durable!Next
BY DEF Durable!Next, Durable!Talk, Durable!IsPrefix, IsPrefix

LEMMA ExtensionIsPrefix ==
    ASSUME NEW S, NEW s \in Seq(S), NEW t \in Seq(S), NEW n \in Nat, n = Len(s), n <= Len(t),
           \A i \in 1 .. n : t[i] = s[i]
    PROVE  IsPrefix(s, t)
<1>1. n <= Len(s) /\ \A i \in 1 .. n : s[i] = t[i]
  OBVIOUS
<1>2. SubSeq(s, 1, n) = SubSeq(t, 1, n)
  BY <1>1, SameBeginning
<1> QED
  BY <1>2 DEF IsPrefix

LEMMA StartIsDurable ==
    ASSUME OneWayToStart, TypeOK, TypeOK', IInv, NEW l \in Layouts, NEW c \in Contexts, Start(l, c)
    PROVE  Durable!Next
<1>1. layout' = layout /\ maxctx' = maxctx /\ l = layout /\ c = maxctx
  BY SameSettings DEF TypeOK
<1>2. /\ hist' = Resumed(file, l, c) /\ file' = file /\ pc = "down" /\ pc' = "idle"
  BY DEF Start, Load, Resumed
<1>3. hist' = Kept /\ Kept' = Kept
  BY <1>1, <1>2, KeptIsResumed
<1> QED
  BY <1>2, <1>3 DEF Durable!Next, Durable!Resume

LEMMA PromptIsDurable ==
    ASSUME OneWayToStart, TypeOK, TypeOK', IInv, IInv', NEW prompt \in Seq(Tokens), Prompt(prompt)
    PROVE  Durable!Next
<1> DEFINE prefix == CommonPrefix(hist, prompt)
           rest == SubSeq(prompt, prefix + 1, Len(prompt))
<1>1. prefix \in 0 .. Len(hist) /\ prefix <= Len(prompt)
  BY CommonPrefixExists DEF TypeOK
<1>2. /\ Forward(prefix, rest) /\ pc = "idle" /\ pc' \in {"idle", "decode"}
      /\ IF prefix < Len(hist) THEN Truncate(prefix) ELSE UNCHANGED <<disknrec, file>>
  BY DEF Prompt
<1> HIDE DEF prefix
<1>3. rest \in Seq(Tokens) /\ Len(rest) = Len(prompt) - prefix
  BY <1>1
<1> HIDE DEF rest
<1>4. hist \in Seq(Tokens) /\ rows \in Seq(Rows) /\ Len(rows) = Len(hist)
  BY DEF TypeOK
<1>5. Len(hist') = prefix + Len(rest) /\ \A p \in 1 .. prefix : hist'[p] = hist[p]
  BY <1>1, <1>2, <1>3, <1>4, ForwardFacts
<1>6. \/ prefix = Len(hist) /\ UNCHANGED <<disknrec, file>>
      \/ (prefix < Len(hist) \/ prefix = 0) /\ Truncate(prefix)
  BY <1>1, <1>2, <1>4
<1>7. prefix <= Len(hist')
  BY <1>1, <1>3, <1>5
<1> QED
  BY <1>1, <1>2, <1>5, <1>6, <1>7, TalkIsDurable

LEMMA LineIsDurable ==
    ASSUME OneWayToStart, TypeOK, TypeOK', IInv, IInv', NEW text \in Seq(Tokens), Line(text)
    PROVE  Durable!Next
<1> DEFINE full == Len(hist) + Len(text) + LoadReserve >= maxctx
           n == IF full THEN 0 ELSE Len(hist)
<1>1. hist \in Seq(Tokens) /\ rows \in Seq(Rows) /\ Len(rows) = Len(hist) /\ n \in 0 .. Len(hist)
  BY DEF TypeOK
<1>2. /\ Forward(n, text) /\ pc = "idle" /\ pc' = "decode"
      /\ \/ n = Len(hist) /\ UNCHANGED <<disknrec, file>>
         \/ (n < Len(hist) \/ n = 0) /\ Truncate(n)
  BY DEF Line
<1> HIDE DEF n
<1>3. Len(hist') = n + Len(text) /\ \A p \in 1 .. n : hist'[p] = hist[p]
  BY <1>1, <1>2, ForwardFacts
<1>4. n <= Len(hist')
  BY <1>1, <1>3
<1> QED
  BY <1>1, <1>2, <1>3, <1>4, TalkIsDurable

LEMMA ResetIsDurable ==
    ASSUME OneWayToStart, TypeOK, TypeOK', IInv, IInv', Reset
    PROVE  Durable!Next
<1>1. hist' = <<>> /\ pc = "idle" /\ pc' = "idle" /\ Truncate(0)
  BY DEF Reset
<1>2. 0 \in 0 .. Len(hist) /\ 0 <= Len(hist') /\ \A i \in 1 .. 0 : hist'[i] = hist[i]
  BY <1>1 DEF TypeOK
<1> QED
  BY <1>1, <1>2, TalkIsDurable

LEMMA DecodeIsDurable ==
    ASSUME OneWayToStart, TypeOK, TypeOK', NEW out \in Seq(Tokens), NEW n \in Nat, Decode(out, n)
    PROVE  Durable!Next
<1>1. /\ hist \in Seq(Tokens) /\ rows \in Seq(Rows) /\ Len(rows) = Len(hist) /\ Len(hist) \in 0 .. Len(hist)
      /\ layout' = layout /\ maxctx' = maxctx
  BY SameSettings DEF TypeOK
<1>2. PICK new \in Seq(Tokens) : Forward(Len(hist), new)
  BY DecodeForwards
<1>3. /\ hist' \in Seq(Tokens) /\ Len(hist') = Len(hist) + Len(new)
      /\ \A p \in 1 .. Len(hist) : hist'[p] = hist[p]
  BY <1>1, <1>2, ForwardFacts
<1>4. Len(hist) \in Nat /\ Len(hist) <= Len(hist')
  BY <1>1, <1>3
<1>5. IsPrefix(hist, hist')
  BY <1>1, <1>3, <1>4, ExtensionIsPrefix
<1>6. pc = "decode" /\ pc' \in {"idle", "append"} /\ file' = file
  BY DEF Decode, BeginAppend
<1>7. Kept' = Kept
  BY <1>1, <1>6, KeptIsResumed
<1> QED
  BY <1>3, <1>5, <1>6, <1>7, GoesOn

\* What an append writes before the count is invisible to a restart.
LEMMA AppendCellIsDurable ==
    ASSUME OneWayToStart, TypeOK, TypeOK', IInv, IInv', AppendCell
    PROVE  Durable!Next
<1>1. /\ layout' = layout /\ maxctx' = maxctx /\ layout \in Layouts /\ maxctx \in Contexts
      /\ file \in FileType /\ file' \in FileType /\ hist \in Seq(Tokens)
      /\ disknrec \in 0 .. Len(hist) /\ at \in Nat /\ at' \in Nat
  <2>1. Len(hist) * Size(layout) \in Nat /\ Len(hist') * Size(layout') \in Nat
    <3>1. Len(hist) \in Nat /\ Len(hist') \in Nat
      BY DEF TypeOK
    <3> QED
      BY <3>1, SizeType
  <2> QED
    BY <2>1, SameSettings DEF TypeOK, FileType
<1>2. pc = "append" /\ pc' = "append" /\ hist' = hist /\ disknrec' = disknrec /\ file'.nrec = file.nrec
  BY DEF AppendCell, memory
<1>3. /\ file = NoFile \/ file.layout = layout
      /\ file.nrec = disknrec \/ (disknrec = 0 /\ TooLong)
      /\ Holds(file.cells, layout, hist, at) /\ disknrec * Size(layout) <= at
  BY <1>2 DEF IInv, FileStandsForAHistory, CountIsKnown, CountedAreOfThisHistory, Appending
<1>4. /\ file' = NoFile \/ file'.layout = layout
      /\ Holds(file'.cells, layout, hist, at') /\ disknrec * Size(layout) <= at'
  BY <1>1, <1>2 DEF IInv, FileStandsForAHistory, CountedAreOfThisHistory, Appending
<1>5. Kept' = Kept
  <2>1. CASE TooLong
    BY <1>1, <1>2, <2>1, ResumedNothing, KeptIsResumed DEF TooLong
  <2>2. CASE ~ TooLong
    <3> DEFINE k == IF disknrec + LoadReserve < maxctx THEN SubSeq(hist, 1, disknrec) ELSE <<>>
    <3>1. file.nrec = disknrec
      BY <1>3, <2>2
    <3>2. Resumed(file, layout, maxctx) = k
      BY <1>1, <1>3, <3>1, ResumedIsCounted
    <3>3. Resumed(file', layout, maxctx) = k
      BY <1>1, <1>2, <1>4, <3>1, ResumedIsCounted
    <3> QED
      BY <1>1, <3>2, <3>3, KeptIsResumed
  <2> QED
    BY <2>1, <2>2
<1>6. IsPrefix(hist, hist')
  BY <1>1, <1>2 DEF IsPrefix
<1> QED
  BY <1>1, <1>2, <1>5, <1>6, GoesOn

LEMMA AppendCountIsDurable ==
    ASSUME OneWayToStart, TypeOK, TypeOK', IInv, IInv', AppendCount
    PROVE  Durable!Next
<1>1. /\ layout' = layout /\ maxctx' = maxctx /\ layout \in Layouts /\ maxctx \in Contexts
      /\ file \in FileType /\ file' \in FileType /\ hist \in Seq(Tokens)
      /\ Len(hist) \in 0 .. Len(hist) /\ Len(hist) * Size(layout) \in Nat
  <2>1. Len(hist) * Size(layout) \in Nat
    <3>1. Len(hist) \in Nat
      BY DEF TypeOK
    <3> QED
      BY <3>1, SizeType
  <2> QED
    BY <2>1, SameSettings DEF TypeOK, FileType
<1>2. pc = "append" /\ pc' = "idle" /\ hist' = hist /\ disknrec' = Len(hist)
  BY DEF AppendCount, memory
<1>3. file'.nrec = Len(hist)
  BY <1>1 DEF AppendCount, FileType
<1>4. /\ file' = NoFile \/ file'.layout = layout
      /\ Holds(file'.cells, layout, hist, Len(hist) * Size(layout))
  BY <1>1, <1>2 DEF IInv, FileStandsForAHistory, CountedAreOfThisHistory
<1>5. Len(hist) * Size(layout) <= Len(hist) * Size(layout)
  BY <1>1
<1>6. Resumed(file', layout, maxctx) =
        IF Len(hist) + LoadReserve < maxctx THEN SubSeq(hist, 1, Len(hist)) ELSE <<>>
  BY <1>1, <1>3, <1>4, <1>5, ResumedIsCounted
<1>7. SubSeq(hist, 1, Len(hist)) = hist
  BY <1>1
<1>8. Kept' \in {hist, <<>>}
  BY <1>1, <1>6, <1>7, KeptIsResumed
<1> QED
  BY <1>2, <1>8 DEF Durable!Next, Durable!Keep

LEMMA CrashIsDurable == ASSUME Crash PROVE Durable!Next
<1>1. pc # "down" /\ pc' = "down" /\ hist' = <<>> /\ UNCHANGED <<layout, maxctx, file>>
  BY DEF Crash, config
<1>2. Kept' = Kept
  BY <1>1, KeptIsResumed
<1> QED
  BY <1>1, <1>2 DEF Durable!Next, Durable!Stop

LEMMA StutterIsDurable ==
    ASSUME More \/ UNCHANGED vars
    PROVE  UNCHANGED Durable!dvars
<1>1. (pc # "down")' = (pc # "down") /\ UNCHANGED <<layout, maxctx, hist, file>>
  BY DEF More, vars, memory, config
<1>2. Kept' = Kept
  BY <1>1, KeptIsResumed
<1> QED
  BY <1>1, <1>2 DEF Durable!dvars

LEMMA NextIsDurable ==
    ASSUME OneWayToStart, TypeOK, TypeOK', IInv, IInv', [Next]_vars
    PROVE  [Durable!Next]_(Durable!dvars)
<1>1. ASSUME NEW text \in Texts, Prompt(text) \/ Line(text) PROVE Durable!Next
  BY <1>1, TextsAreSequences, PromptIsDurable, LineIsDurable
<1>2. ASSUME NEW out \in Outputs, NEW n \in 0 .. NGen, Decode(out, n) PROVE Durable!Next
  BY <1>2, OutputsAreSequences, DecodeIsDurable
<1>3. ASSUME Turn PROVE Durable!Next \/ UNCHANGED Durable!dvars
  BY <1>1, <1>2, <1>3, ResetIsDurable, StutterIsDurable DEF Turn
<1>4. ASSUME UNCHANGED vars PROVE UNCHANGED Durable!dvars
  BY <1>4, StutterIsDurable
<1> QED
  BY <1>3, <1>4, StartIsDurable, AppendCellIsDurable, AppendCountIsDurable, CrashIsDurable DEF Next

LEMMA InitIsDurable == ASSUME Init PROVE Durable!Init
<1>1. file.layout # layout
  BY KvDiskAssumption DEF Init, NoFile
<1>2. Kept = <<>>
  BY <1>1, ResumedNothing, KeptIsResumed
<1> QED
  BY <1>2 DEF Init, Durable!Init

\* The file is a durable history: a restart resumes with exactly what was kept,
\* what is kept is replaced by the whole conversation in one step (the write of
\* the count) or cut back to a beginning of it, and no half-written append shows,
\* wherever a crash falls (kv_disk_append, kv_disk_truncate, kv_disk_load).
THEOREM FileIsADurableHistory == OneWayToStart => (Spec => FileIsAtomic)
<1> SUFFICES ASSUME OneWayToStart PROVE Spec => FileIsAtomic
  OBVIOUS
<1>1. Init => Durable!Init
  BY InitIsDurable
<1>2. TypeOK /\ TypeOK' /\ IInv /\ IInv' /\ [Next]_vars => [Durable!Next]_(Durable!dvars)
  BY NextIsDurable
<1> QED
  BY <1>1, <1>2, KvInvariant, KvTypeCorrect, PTL DEF Spec, FileIsAtomic, Durable!Spec
=============================================================================
