----------------------------- MODULE ModelCache -----------------------------
(***************************************************************************)
(* The cache of downloaded models (local_data_plane/model_cache.py).       *)
(*                                                                         *)
(* objects/<sha> holds a verified artifact, parts/<sha>.part an unfinished *)
(* download and refs/<model>--<quantization>--<sha>.json a reference to an *)
(* object.  Every command of the user is a process of its own and nothing  *)
(* locks the directory.  A process may crash between any two steps, the    *)
(* source may fail, lie or ignore Range, an object may be damaged.         *)
(*                                                                         *)
(* A file is the number of blocks it has and whether they are the first    *)
(* blocks of the artifact.                                                 *)
(***************************************************************************)
EXTENDS Naturals, FiniteSets

CONSTANTS CacheProcs,   \* processes that use the cache
          Artifacts,    \* artifacts of the catalogue
          Shas,         \* their digests
          ShaOf,        \* the digest of an artifact; two artifacts may share one
          Size,         \* blocks of an artifact
          MaxPart       \* bound: blocks of a part file

ASSUME CacheAssumption ==
    /\ ShaOf \in [Artifacts -> Shas]
    /\ Size \in Nat /\ MaxPart \in Nat

VARIABLES cacheObjects,  \* objects: the file of each digest, or NoFile
          cacheParts,    \* parts: the part file of each digest, or NoFile
          cacheRefs,     \* refs: the artifacts that are referred to
          cacheOps,      \* the operation of each process
          damaged,       \* digests whose object was damaged from outside
          overlapped,    \* digests two operations have worked on at once
          sharedPart     \* digests whose part two processes have used at once

cacheHistory == <<damaged, overlapped, sharedPart>>
cacheVars == <<cacheObjects, cacheParts, cacheRefs, cacheOps, cacheHistory>>

NoFile == [blocks |-> 0, sound |-> FALSE]   \* an absent file
EmptyFile == [blocks |-> 0, sound |-> TRUE]
RightFile == [blocks |-> Size, sound |-> TRUE]

\* The points an operation can be at; "idle" is no operation.
CacheSteps == {"idle", "look", "drop", "open", "copy", "check", "publish", "refer",
               "unref", "orphan", "unlink"}

\* at: its point, art: its artifact, from: the next block it reads of the
\* source, fd: the file its append handle is open on now.
NoOp(a) == [at |-> "idle", art |-> a, from |-> 0, fd |-> "none"]

CacheFiles == [blocks : 0..MaxPart, sound : BOOLEAN]

CacheTypeOK ==
    /\ cacheObjects \in [Shas -> CacheFiles]
    /\ cacheParts \in [Shas -> CacheFiles]
    /\ cacheRefs \subseteq Artifacts
    /\ cacheOps \in [CacheProcs -> [at : CacheSteps, art : Artifacts, from : 0..Size,
                                    fd : {"none", "part", "object", "unlinked"}]]
    /\ damaged \subseteq Shas /\ overlapped \subseteq Shas /\ sharedPart \subseteq Shas

CacheInit ==
    /\ cacheObjects = [s \in Shas |-> NoFile]
    /\ cacheParts = [s \in Shas |-> NoFile]
    /\ cacheRefs = {}
    /\ cacheOps \in {[p \in CacheProcs |-> NoOp(a)] : a \in Artifacts}
    /\ damaged = {} /\ overlapped = {} /\ sharedPart = {}

-----------------------------------------------------------------------------
Sha(p) == ShaOf[cacheOps[p].art]
At(p, s) == cacheOps[p].at = s
Go(p, s) == cacheOps' = [cacheOps EXCEPT ![p].at = s]
EndOp(p) == cacheOps' = [cacheOps EXCEPT ![p] = NoOp(@.art)]

\* A process that starts to work on a digest another one is working on.
StartOp(p, a, s) ==
    /\ At(p, "idle")
    /\ cacheOps' = [cacheOps EXCEPT ![p] = [NoOp(a) EXCEPT !.at = s]]
    /\ overlapped' = IF \E q \in CacheProcs \ {p} : ~At(q, "idle") /\ Sha(q) = ShaOf[a]
                     THEN overlapped \cup {ShaOf[a]} ELSE overlapped
    /\ UNCHANGED <<cacheObjects, cacheParts, cacheRefs, damaged, sharedPart>>

\* What the other processes' handles on the part of s are open on after it
\* was renamed or unlinked: the same file under its new name, or under none.
Moved(s, to) ==
    [q \in CacheProcs |-> IF cacheOps[q].fd = "part" /\ Sha(q) = s
                          THEN [cacheOps[q] EXCEPT !.fd = to] ELSE cacheOps[q]]

(* download *)

StartDownload(p, a) == StartOp(p, a, "look")

\* repair: verify finds the object missing or wrong, so it is downloaded.
StartRepair(p, a) ==
    /\ a \in cacheRefs
    /\ cacheObjects[ShaOf[a]] # RightFile
    /\ StartOp(p, a, "look")

\* The object is there already, is wrong, or is missing.
LookForObject(p) ==
    /\ At(p, "look")
    /\ Go(p, CASE cacheObjects[Sha(p)] = RightFile -> "refer"
               [] cacheObjects[Sha(p)] = NoFile -> "open"
               [] OTHER -> "drop")
    /\ UNCHANGED <<cacheObjects, cacheParts, cacheRefs, cacheHistory>>

\* target.unlink() raises when another process has removed it already.
DropObject(p) ==
    /\ At(p, "drop")
    /\ IF cacheObjects[Sha(p)] = NoFile THEN EndOp(p) ELSE Go(p, "open")
    /\ cacheObjects' = [cacheObjects EXCEPT ![Sha(p)] = NoFile]
    /\ UNCHANGED <<cacheParts, cacheRefs, cacheHistory>>

\* The part to go on with; one that is too long is thrown away.
PartNow(s) == IF cacheParts[s].blocks > Size THEN NoFile ELSE cacheParts[s]

UsesPart(q) == cacheOps[q].at \in {"copy", "check", "publish"}

\* The part is opened for appending, and the source at the part's end.  A
\* source that ignores Range starts the part again.
OpenPartFile(p, ignoresRange) ==
    LET s == Sha(p)
        current == PartNow(s).blocks
        again == cacheParts[s].blocks > Size \/ (current > 0 /\ ignoresRange)
        file == IF again \/ cacheParts[s] = NoFile THEN EmptyFile ELSE cacheParts[s]
        moved == IF again THEN Moved(s, "unlinked") ELSE cacheOps
    IN /\ At(p, "open")
       /\ cacheParts' = [cacheParts EXCEPT ![s] = file]
       /\ cacheOps' = [moved EXCEPT ![p] =
              [at |-> "copy", art |-> cacheOps[p].art, from |-> file.blocks, fd |-> "part"]]
       /\ sharedPart' = IF \E q \in CacheProcs \ {p} : UsesPart(q) /\ Sha(q) = s
                        THEN sharedPart \cup {s} ELSE sharedPart
       /\ UNCHANGED <<cacheObjects, cacheRefs, damaged, overlapped>>

Longer(f, from, honest) ==
    [blocks |-> f.blocks + 1, sound |-> f.sound /\ honest /\ from = f.blocks]

\* A block of the source is appended to the file the handle is open on.
CopyChunk(p, honest) ==
    LET s == Sha(p)
        from == cacheOps[p].from
    IN /\ At(p, "copy") /\ from < Size
       /\ cacheParts[s].blocks < MaxPart /\ cacheObjects[s].blocks < MaxPart
       /\ cacheParts' = IF cacheOps[p].fd = "part"
                        THEN [cacheParts EXCEPT ![s] = Longer(@, from, honest)] ELSE cacheParts
       /\ cacheObjects' = IF cacheOps[p].fd = "object" /\ cacheObjects[s] # NoFile
                          THEN [cacheObjects EXCEPT ![s] = Longer(@, from, honest)]
                          ELSE cacheObjects
       /\ cacheOps' = [cacheOps EXCEPT ![p].from = from + 1]
       /\ UNCHANGED <<cacheRefs, cacheHistory>>

\* The source ends, wherever it ends: the copy is flushed and closed.
EndCopy(p) ==
    /\ At(p, "copy")
    /\ cacheOps' = [cacheOps EXCEPT ![p].at = "check", ![p].fd = "none"]
    /\ UNCHANGED <<cacheObjects, cacheParts, cacheRefs, cacheHistory>>

\* Mutant: only the size of the part is compared.
CheckSizeOnly(p) ==
    /\ At(p, "check")
    /\ IF cacheParts[Sha(p)].blocks = Size THEN Go(p, "publish") ELSE EndOp(p)
    /\ UNCHANGED <<cacheObjects, cacheParts, cacheRefs, cacheHistory>>

\* Size and hash of the part.  A part that fails is kept.
CheckPart(p) ==
    /\ At(p, "check")
    /\ IF cacheParts[Sha(p)] = RightFile THEN Go(p, "publish") ELSE EndOp(p)
    /\ UNCHANGED <<cacheObjects, cacheParts, cacheRefs, cacheHistory>>

\* os.replace(part, target); it raises when the part is gone.
PublishObject(p) ==
    LET s == Sha(p)
        gone == cacheParts[s] = NoFile
        next == IF gone THEN NoOp(cacheOps[p].art)
                ELSE [cacheOps[p] EXCEPT !.at = "refer"]
    IN /\ At(p, "publish")
       /\ cacheObjects' = IF gone THEN cacheObjects
                          ELSE [cacheObjects EXCEPT ![s] = cacheParts[s]]
       /\ cacheParts' = [cacheParts EXCEPT ![s] = NoFile]
       /\ cacheOps' = [Moved(s, "object") EXCEPT ![p] = next]
       /\ UNCHANGED <<cacheRefs, cacheHistory>>

\* _write_ref
WriteRef(p) ==
    /\ At(p, "refer")
    /\ cacheRefs' = cacheRefs \cup {cacheOps[p].art}
    /\ EndOp(p)
    /\ UNCHANGED <<cacheObjects, cacheParts, cacheHistory>>

(* remove *)

StartRemove(p, a) == a \in cacheRefs /\ StartOp(p, a, "unref")

\* next() and unlink raise when the reference has gone in the meantime.
DropRef(p) ==
    /\ At(p, "unref")
    /\ cacheRefs' = cacheRefs \ {cacheOps[p].art}
    /\ IF cacheOps[p].art \in cacheRefs THEN Go(p, "orphan") ELSE EndOp(p)
    /\ UNCHANGED <<cacheObjects, cacheParts, cacheHistory>>

\* Whether another reference needs the object.
LookForRefs(p) ==
    /\ At(p, "orphan")
    /\ IF /\ \A a \in cacheRefs : ShaOf[a] # Sha(p)
          /\ cacheObjects[Sha(p)] # NoFile
       THEN Go(p, "unlink") ELSE EndOp(p)
    /\ UNCHANGED <<cacheObjects, cacheParts, cacheRefs, cacheHistory>>

UnlinkObject(p) ==
    /\ At(p, "unlink")
    /\ cacheObjects' = [cacheObjects EXCEPT ![Sha(p)] = NoFile]
    /\ EndOp(p)
    /\ UNCHANGED <<cacheParts, cacheRefs, cacheHistory>>

-----------------------------------------------------------------------------
\* The process dies, the disk is full or the connection breaks: the
\* operation ends where it is and what it wrote stays.
AbandonOp(p) ==
    /\ ~At(p, "idle")
    /\ EndOp(p)
    /\ UNCHANGED <<cacheObjects, cacheParts, cacheRefs, cacheHistory>>

DamageObject(s) ==
    /\ cacheObjects[s] = RightFile
    /\ cacheObjects' = [cacheObjects EXCEPT ![s].sound = FALSE]
    /\ damaged' = damaged \cup {s}
    /\ UNCHANGED <<cacheParts, cacheRefs, cacheOps, overlapped, sharedPart>>

CacheDownload(p) ==
    \/ \E a \in Artifacts : StartDownload(p, a)
    \/ \E a \in Artifacts : StartRepair(p, a)
    \/ LookForObject(p)
    \/ DropObject(p)
    \/ \E ignoresRange \in BOOLEAN : OpenPartFile(p, ignoresRange)
    \/ \E honest \in BOOLEAN : CopyChunk(p, honest)
    \/ EndCopy(p)
    \/ CheckPart(p)
    \/ PublishObject(p)
    \/ WriteRef(p)

CacheRemove(p) ==
    \/ \E a \in Artifacts : StartRemove(p, a)
    \/ DropRef(p)
    \/ LookForRefs(p)
    \/ UnlinkObject(p)

CacheNext ==
    \/ \E p \in CacheProcs : CacheDownload(p) \/ CacheRemove(p) \/ AbandonOp(p)
    \/ \E s \in Shas : DamageObject(s)

CacheSpec == CacheInit /\ [][CacheNext]_cacheVars

-----------------------------------------------------------------------------
\* A reference is written only after its object was verified and the object
\* goes with its last reference: whatever crashed, lied or was retried, a
\* reference leads to the right object, unless that was damaged from outside
\* or two operations on its digest overlapped (remove decides before it
\* unlinks, download looks before it refers).
RefsResolve ==
    \A a \in cacheRefs :
        \/ cacheObjects[ShaOf[a]] = RightFile
        \/ ShaOf[a] \in damaged \cup overlapped

\* Overlapping operations can lose an object but not change one: only two
\* downloads that append to one part file, which goes on being written when
\* the first of them has renamed it, give an object a wrong content.
ObjectsAreRight ==
    \A s \in Shas :
        cacheObjects[s] \in {NoFile, RightFile} \/ s \in damaged \cup sharedPart

\* The cache's two promises together: references resolve, objects are what
\* their digests say, but for the overlaps that the code does not exclude.
CacheIsSound == RefsResolve /\ ObjectsAreRight
=============================================================================
