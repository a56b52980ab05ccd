------------------------------ MODULE Converter -----------------------------
(***************************************************************************)
(* The checkpoint converter (engine/c/tools/convert_fp8_to_int4.py).       *)
(*                                                                         *)
(* One run at a time holds the lock of the output directory.  It takes the *)
(* shards in order, skips those whose output exists, downloads the shard   *)
(* into _inflight (several streams and a sidecar of their progress, or one *)
(* stream that appends), converts it, saves the output through a .partial  *)
(* file and clears _inflight.  A run may be killed at any point and        *)
(* started again, with another number of streams or another mode.          *)
(*                                                                         *)
(* A file is the sequence of its blocks, "data" or "hole".                 *)
(***************************************************************************)
EXTENDS Integers, Sequences, FiniteSets, SequencesExt

CONSTANTS Shards,       \* 1..n, the shards of the checkpoint in order
          ShardBlocks,       \* blocks of a shard
          Streams,      \* values COLI_DL_STREAMS may have
          NLayers,      \* num_hidden_layers: layer NLayers is the MTP head
          TensorsOf,    \* the tensors of each shard
          Launches      \* bound: runs of the converter

ASSUME ConverterAssumption ==
    /\ ShardBlocks \in Nat
    /\ Streams \subseteq Nat \ {0}     \* at least one (max(1, ...))
    /\ NLayers \in Nat /\ Launches \in Nat

VARIABLES dlPart,       \* _inflight: the .part file of each shard, or NoPart
          dlSide,       \* _inflight: its .part.seg sidecar, or NoSide
          dlFull,       \* _inflight: the downloaded shard, or NoPart
          outputs,      \* the output of each mode and shard, or NoOutput
          conv,         \* the run: what it is doing, mode, streams, shard, progress
          launches,     \* runs so far
          holed,        \* shards whose download began beside a sidecar without its
                        \* part, or went on with one stream in a sparse part
          manifest,     \* container_manifest.json of a local conversion: the
                        \* tensors it documents, in memory and on disk
          localDone,    \* shards whose output the local conversion has saved
          resumed       \* the local conversion was interrupted

download == <<dlPart, dlSide, dlFull>>
local == <<manifest, localDone, resumed>>
convVars == <<download, outputs, conv, launches, holed, local>>

NoPart == <<"absent">>
NoSide == [n |-> 0, done |-> <<>>]
NoOutput == [tensors |-> {}, state |-> "none"]
Modes == {"main", "mtp", "idx"}
Off == [at |-> "off", mode |-> "main", n |-> 1, shard |-> 0, done |-> <<>>]

-----------------------------------------------------------------------------
(* classify *)

\* A tensor is its layer (-1: none) and the part of the name that matters.
Tensors == [layer : -1..NLayers, part : {"weight", "expert", "norm", "gate", "bias", "embed",
                                         "indexer", "indexer_norm", "eh_proj", "scale_inv"}]

ASSUME TensorsAssumption == \A s \in Shards : TensorsOf[s] \subseteq Tensors

IsIndexer(t) == t.part \in {"indexer", "indexer_norm"}

Classify(t, mode) ==
    CASE t.part = "scale_inv" -> "consumed"
      [] t.part # "scale_inv" /\ \/ mode = "idx" /\ (t.layer \notin 0..(NLayers - 1) \/ ~IsIndexer(t))
                                 \/ mode = "mtp" /\ (t.layer # NLayers \/ IsIndexer(t))
                                 \/ mode = "main" /\ (t.layer >= NLayers \/ IsIndexer(t)
                                                      \/ t.part = "eh_proj") -> "skip"
      [] OTHER -> CASE t.part \in {"bias", "gate", "norm", "indexer_norm"} -> "f32"
                    [] t.part = "embed" -> "io"
                    [] t.part = "expert" -> "x"
                    [] OTHER -> "q"

\* convert_shard: the tensors of the shard's output.
Kept(s, mode) == {t \in TensorsOf[s] : Classify(t, mode) \notin {"skip", "consumed"}}

-----------------------------------------------------------------------------
SegStart(n, t) == (ShardBlocks * (t - 1)) \div n
SegLen(n, t) == SegStart(n, t + 1) - SegStart(n, t)

Holes(f) == f # NoPart /\ \E b \in DOMAIN f : f[b] = "hole"

DlFiles == {NoPart} \cup BoundedSeq({"data", "hole"}, ShardBlocks)

ConvTypeOK ==
    /\ \A s \in Shards : dlPart[s] \in DlFiles /\ dlFull[s] \in DlFiles
    /\ \A s \in Shards : dlSide[s] = NoSide \/ dlSide[s].n \in Streams
    /\ \A m \in Modes, s \in Shards : outputs[m][s].state \in {"none", "torn", "holed", "whole"}
    /\ conv.at \in {"off", "next", "get", "multi", "rename", "fallback", "single", "convert",
                    "save", "clean", "local"}
    /\ launches \in 0..Launches /\ holed \subseteq Shards
    /\ manifest.memory \cup manifest.disk \subseteq Tensors /\ localDone \subseteq Shards

ConvInit ==
    /\ dlPart = [s \in Shards |-> NoPart]
    /\ dlSide = [s \in Shards |-> NoSide]
    /\ dlFull = [s \in Shards |-> NoPart]
    /\ outputs = [m \in Modes |-> [s \in Shards |-> NoOutput]]
    /\ conv = Off
    /\ launches = 0 /\ holed = {}
    /\ manifest = [memory |-> {}, disk |-> {}]
    /\ localDone = {} /\ resumed = FALSE

ConvAt(a) == conv.at = a
ConvGo(a) == conv' = [conv EXCEPT !.at = a, !.done = <<>>]
S == conv.shard
Cleared == /\ dlPart' = [s \in Shards |-> NoPart]
           /\ dlSide' = [s \in Shards |-> NoSide]
           /\ dlFull' = [s \in Shards |-> NoPart]

\* The lock is taken: another converter at work makes this one exit.
LaunchConvert(mode, n) ==
    /\ ConvAt("off") /\ launches < Launches /\ localDone = {}
    /\ conv' = [Off EXCEPT !.at = "next", !.mode = mode, !.n = n]
    /\ launches' = launches + 1
    /\ UNCHANGED <<download, outputs, holed, local>>

\* The shards a mode takes: all, or those the index says have its tensors.
ShardsOf(mode) ==
    {s \in Shards : mode = "main" \/ \E t \in TensorsOf[s] :
        IF mode = "mtp" THEN t.layer = NLayers ELSE IsIndexer(t) /\ t.layer \in 0..(NLayers - 1)}

Todo == {s \in ShardsOf(conv.mode) : outputs[conv.mode][s] = NoOutput}

\* The first shard without an output.
NextShard ==
    /\ ConvAt("next")
    /\ \E s \in Todo : /\ \A r \in Todo : s <= r
                       /\ conv' = [conv EXCEPT !.at = "get", !.shard = s]
    /\ UNCHANGED <<download, outputs, launches, holed, local>>

\* No shard is left, or too little free space: _inflight is removed.
FinishConvert ==
    /\ ConvAt("next") /\ (Todo = {} \/ conv.mode = "main")
    /\ Cleared
    /\ conv' = Off
    /\ UNCHANGED <<outputs, launches, holed, local>>

(* download_retry *)

\* A .part without a sidecar counts as one an older version appended to.
Legacy(s) == dlPart[s] # NoPart /\ dlSide[s] = NoSide

\* A sidecar has outlived its .part.
Orphaned(s) == dlPart[s] = NoPart /\ dlSide[s] # NoSide

\* Mutant: the progress in the sidecar is used whatever the number of streams.
ResumePointAnyStreams(s, n) ==
    [t \in 1..n |-> IF t \in DOMAIN dlSide[s].done THEN dlSide[s].done[t] ELSE 0]

ResumePoint(s, n) ==
    IF dlSide[s].n = n THEN dlSide[s].done ELSE [t \in 1..n |-> 0]

AlreadyDownloaded ==
    /\ ConvAt("get") /\ dlFull[S] # NoPart
    /\ ConvGo("convert")
    /\ UNCHANGED <<download, outputs, launches, holed, local>>

StartSingle ==
    /\ ConvAt("get") /\ dlFull[S] = NoPart /\ (conv.n = 1 \/ Legacy(S))
    /\ ConvGo("single")
    /\ holed' = IF Holes(dlPart[S]) \/ Orphaned(S) THEN holed \cup {S} ELSE holed
    /\ UNCHANGED <<download, outputs, launches, local>>

\* A new .part is a sparse file of the full size.
StartStreams ==
    /\ ConvAt("get") /\ dlFull[S] = NoPart /\ conv.n # 1 /\ ~Legacy(S)
    /\ conv' = [conv EXCEPT !.at = "multi", !.done = ResumePoint(S, conv.n)]
    /\ dlPart' = [dlPart EXCEPT ![S] =
           IF @ = NoPart THEN [b \in 1..ShardBlocks |-> "hole"] ELSE @]
    /\ holed' = IF Orphaned(S) THEN holed \cup {S} ELSE holed
    /\ UNCHANGED <<dlSide, dlFull, outputs, launches, local>>

\* Block b is written; a file that is shorter grows by holes.
PWrite(f, b) ==
    [i \in DOMAIN f \cup 1..b |->
        CASE i = b -> "data" [] i # b /\ i \in DOMAIN f -> f[i] [] OTHER -> "hole"]

\* worker: pwrite, then the progress in memory.  A broken connection only
\* makes it connect again.
StreamBlock(t) ==
    /\ ConvAt("multi") /\ conv.done[t] < SegLen(conv.n, t)
    /\ dlPart' = [dlPart EXCEPT ![S] = PWrite(@, SegStart(conv.n, t) + conv.done[t] + 1)]
    /\ conv' = [conv EXCEPT !.done[t] = @ + 1]
    /\ UNCHANGED <<dlSide, dlFull, outputs, launches, holed, local>>

Checkpoint ==
    /\ ConvAt("multi")
    /\ dlSide' = [dlSide EXCEPT ![S] = [n |-> conv.n, done |-> conv.done]]
    /\ UNCHANGED <<dlPart, dlFull, outputs, conv, launches, holed, local>>

AllStreamed == \A t \in 1..conv.n : conv.done[t] = SegLen(conv.n, t)

\* The sidecar is removed before the part is renamed.
EndStreams ==
    /\ ConvAt("multi") /\ AllStreamed
    /\ dlSide' = [dlSide EXCEPT ![S] = NoSide]
    /\ ConvGo("rename")
    /\ UNCHANGED <<dlPart, dlFull, outputs, launches, holed, local>>

RenamePart ==
    /\ dlFull' = [dlFull EXCEPT ![S] = dlPart[S]]
    /\ dlPart' = [dlPart EXCEPT ![S] = NoPart]
    /\ ConvGo("convert")
    /\ UNCHANGED <<dlSide, outputs, launches, holed, local>>

RenameStreamed == ConvAt("rename") /\ RenamePart

\* A server that ignores Range: the part is removed, then the sidecar.
FallBack ==
    /\ ConvAt("multi") /\ ~AllStreamed
    /\ dlPart' = [dlPart EXCEPT ![S] = NoPart]
    /\ ConvGo("fallback")
    /\ UNCHANGED <<dlSide, dlFull, outputs, launches, holed, local>>

DropSidecar ==
    /\ ConvAt("fallback")
    /\ dlSide' = [dlSide EXCEPT ![S] = NoSide]
    /\ ConvGo("single")
    /\ UNCHANGED <<dlPart, dlFull, outputs, launches, holed, local>>

(* _download_single *)

Have == IF dlPart[S] = NoPart THEN <<>> ELSE dlPart[S]

\* A block is appended; Range ignored writes the file again from its start.
AppendBlock(restart) ==
    /\ ConvAt("single") /\ Len(Have) < ShardBlocks
    /\ dlPart' = [dlPart EXCEPT ![S] = Append(IF restart THEN <<>> ELSE Have, "data")]
    /\ UNCHANGED <<dlSide, dlFull, outputs, conv, launches, holed, local>>

\* have >= expected
RenameSingle == ConvAt("single") /\ Len(Have) >= ShardBlocks /\ RenamePart

(* convert_shard, save_file_atomic *)

Converted ==
    [tensors |-> Kept(S, conv.mode), state |-> IF Holes(dlFull[S]) THEN "holed" ELSE "whole"]

\* Mutant: the output is written in place.
SaveInPlace ==
    /\ ConvAt("convert")
    /\ outputs' = [outputs EXCEPT ![conv.mode][S] = [Converted EXCEPT !.state = "torn"]]
    /\ ConvGo("save")
    /\ UNCHANGED <<download, launches, holed, local>>

\* Only the .partial file is written.
SavePartial ==
    /\ ConvAt("convert")
    /\ ConvGo("save")
    /\ UNCHANGED <<download, outputs, launches, holed, local>>

ReplaceOutput ==
    /\ ConvAt("save")
    /\ outputs' = [outputs EXCEPT ![conv.mode][S] = Converted]
    /\ ConvGo("clean")
    /\ UNCHANGED <<download, launches, holed, local>>

ClearInflight ==
    /\ ConvAt("clean")
    /\ Cleared
    /\ ConvGo("next")
    /\ UNCHANGED <<outputs, launches, holed, local>>

\* The run is killed: what it knew of its progress is lost.
KillConvert ==
    /\ conv.at \notin {"off", "local"}
    /\ conv' = Off
    /\ UNCHANGED <<download, outputs, launches, holed, local>>

\* The run is killed while it removes the files of _inflight one by one: a
\* part may go before its sidecar, a sidecar before its part.
KillClearing ==
    /\ ConvAt("clean") \/ (ConvAt("next") /\ (Todo = {} \/ conv.mode = "main"))
    /\ \E parts, sides, fulls \in SUBSET Shards :
        /\ ConvAt("clean") => S \in fulls
        /\ dlPart' = [s \in Shards |-> IF s \in parts THEN NoPart ELSE dlPart[s]]
        /\ dlSide' = [s \in Shards |-> IF s \in sides THEN NoSide ELSE dlSide[s]]
        /\ dlFull' = [s \in Shards |-> IF s \in fulls THEN NoPart ELSE dlFull[s]]
    /\ conv' = Off
    /\ UNCHANGED <<outputs, launches, holed, local>>

(* The conversion of a local directory with --dtype-map, into an output *)
(* directory of its own.                                                *)

LocalTodo == Shards \ localDone
LocalNext(s) == s \in LocalTodo /\ \A r \in LocalTodo : s <= r

LaunchLocal ==
    /\ ConvAt("off") /\ launches < Launches
    /\ launches = 0 \/ localDone # {}
    /\ conv' = [Off EXCEPT !.at = "local"]
    /\ launches' = launches + 1
    /\ manifest' = [manifest EXCEPT !.memory = manifest.disk]
    /\ UNCHANGED <<download, outputs, holed, localDone, resumed>>

LocalShard(s) ==
    /\ ConvAt("local") /\ LocalNext(s)
    /\ localDone' = localDone \cup {s}
    /\ manifest' = [manifest EXCEPT !.memory = @ \cup Kept(s, "main")]
    /\ UNCHANGED <<download, outputs, conv, launches, holed, resumed>>

\* The manifest is written once, after the last shard.
WriteContainerManifest ==
    /\ ConvAt("local") /\ LocalTodo = {}
    /\ manifest' = [manifest EXCEPT !.disk = manifest.memory]
    /\ conv' = Off
    /\ UNCHANGED <<download, outputs, launches, holed, localDone, resumed>>

KillLocal ==
    /\ ConvAt("local")
    /\ resumed' = (resumed \/ manifest.memory # manifest.disk)
    /\ manifest' = [manifest EXCEPT !.memory = {}]
    /\ conv' = Off
    /\ UNCHANGED <<download, outputs, launches, holed, localDone>>

ConvNext ==
    \/ \E mode \in Modes, n \in Streams : LaunchConvert(mode, n)
    \/ NextShard \/ FinishConvert
    \/ AlreadyDownloaded \/ StartSingle \/ StartStreams
    \/ \E t \in 1..conv.n : StreamBlock(t)
    \/ Checkpoint \/ EndStreams \/ RenameStreamed \/ FallBack \/ DropSidecar
    \/ \E restart \in BOOLEAN : AppendBlock(restart)
    \/ RenameSingle
    \/ SavePartial \/ ReplaceOutput \/ ClearInflight \/ KillConvert \/ KillClearing
    \/ LaunchLocal \/ (\E s \in Shards : LocalShard(s)) \/ WriteContainerManifest \/ KillLocal

ConvSpec == ConvInit /\ [][ConvNext]_convVars

-----------------------------------------------------------------------------
\* A sidecar never promises a block that is not in the part, whenever the
\* last run was killed and however many streams it had, so a resumed download
\* skips nothing; the exceptions are the shards of NoByteLost's violation.
SidecarIsTrue ==
    \A s \in Shards :
        \/ dlSide[s] = NoSide
        \/ dlPart[s] = NoPart
        \/ s \in holed
        \/ \A t \in DOMAIN dlSide[s].done : \A b \in 1..dlSide[s].done[t] :
               dlPart[s][SegStart(dlSide[s].n, t) + b] = "data"

\* "A completed output is the resume marker; partial shards never look
\* complete": an output that exists was converted from all of its shard, and
\* holds what its mode keeps, no tensor of which another mode keeps too.
OutputsAreComplete ==
    \A m \in Modes, s \in Shards : outputs[m][s] # NoOutput =>
        /\ outputs[m][s].state = "whole" \/ s \in holed
        /\ \A k \in Modes \ {m} : outputs[m][s].tensors \cap outputs[k][s].tensors = {}

\* The manifest documents every tensor of a finished local conversion that
\* no kill interrupted.
ManifestDocumentsOutputs ==
    conv.at # "local" /\ ~resumed =>
        \A s \in localDone : Kept(s, "main") \subseteq manifest.disk

\* What a conversion leaves is whole, and documented where it is local.
ConversionsAreWhole == OutputsAreComplete /\ ManifestDocumentsOutputs

\* "NO byte is lost however the connection dies": a downloaded shard has all
\* of its blocks.
NoByteLost == \A s \in Shards : ~Holes(dlFull[s])
=============================================================================
