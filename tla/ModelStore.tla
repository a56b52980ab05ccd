----------------------------- MODULE ModelStore -----------------------------
(***************************************************************************)
(* The content-addressed store of models (local_data_plane/model_store.py) *)
(* as one process uses it.                                                 *)
(*                                                                         *)
(* put_file hashes a file of the user, copies it into a .part file named   *)
(* after the digest, going on where an earlier copy was interrupted,       *)
(* renames that to the object of the digest and then replaces the manifest *)
(* of the model.  rollback selects an earlier digest of the manifest.      *)
(* The process may crash between any two of these steps; the user may      *)
(* change the file; an object may be damaged.                              *)
(*                                                                         *)
(* A content stands for its own digest.                                    *)
(***************************************************************************)
EXTENDS Naturals, Sequences

CONSTANTS Blocks,        \* pieces a file is copied in
          Contents,      \* what the files of the user may contain
          Files,         \* the files of the user
          Models,        \* model ids
          MaxHistory,    \* bound: digests in the history of a manifest
          Absent,        \* no such file, or no put under way
          Damaged        \* what a damaged object contains

ASSUME ModelStoreAssumption ==
    /\ Contents \subseteq Seq(Blocks)
    /\ MaxHistory \in Nat
    /\ Absent \notin Seq(Blocks) /\ Damaged \notin Seq(Blocks) /\ Absent # Damaged
    /\ Absent \notin [sha : Contents, history : Seq(Contents)]

VARIABLES source,   \* the user's files
          parts,    \* .parts: the part file of each digest, or Absent
          objects,  \* objects/sha256: the object of each digest, or Absent
          refs,     \* refs: the manifest of each model, or Absent
          step,     \* how far the put under way has come
          job,      \* its file, model, digest, source size and bytes copied
          suspect,  \* digests put while their source was changed, or damaged later
          refused   \* digests whose put has ended with an error

disk == <<parts, objects, refs>>
vars == <<source, disk, step, job, suspect, refused>>
history == <<suspect, refused>>

Steps == {"idle", "hashed", "copying", "published"}

NoJob == [file |-> Absent, model |-> Absent, digest |-> <<>>, size |-> 0, copied |-> 0]

Init ==
    /\ source \in [Files -> Contents]
    /\ parts = [d \in Contents |-> Absent]
    /\ objects = [d \in Contents |-> Absent]
    /\ refs = [m \in Models |-> Absent]
    /\ step = "idle"
    /\ job = NoJob
    /\ suspect = {}
    /\ refused = {}

-----------------------------------------------------------------------------
(* put_file, and _copy_resumable in it.                                    *)

HistoryOf(m) == IF refs[m] = Absent THEN <<>> ELSE Append(refs[m].history, refs[m].sha)

\* The source is hashed.
PutHash(f, m) ==
    /\ step = "idle"
    /\ Len(HistoryOf(m)) <= MaxHistory
    /\ step' = "hashed"
    /\ job' = [NoJob EXCEPT !.file = f, !.model = m, !.digest = source[f]]
    /\ UNCHANGED <<source, disk, history>>

\* Mutant: a copy begins at the start of the source whatever the part holds.
OpenPartFromStart ==
    /\ step = "hashed"
    /\ LET d    == job.digest
           size == Len(source[job.file])
       IN /\ parts' = [parts EXCEPT ![d] = IF @ = Absent THEN <<>> ELSE @]
          /\ job' = [job EXCEPT !.size = size, !.copied = 0]
    /\ step' = "copying"
    /\ UNCHANGED <<source, objects, refs, history>>

\* Both sizes are taken; a part longer than the source is thrown away; the
\* source is read from where the part ends, the part opened for appending.
OpenPart ==
    /\ step = "hashed"
    /\ LET d    == job.digest
           size == Len(source[job.file])
           kept == IF parts[d] = Absent THEN <<>>
                   ELSE IF Len(parts[d]) > size THEN <<>> ELSE parts[d]
       IN /\ parts' = [parts EXCEPT ![d] = kept]
          /\ job' = [job EXCEPT !.size = size, !.copied = Len(kept)]
    /\ step' = "copying"
    /\ UNCHANGED <<source, objects, refs, history>>

CopyBlock ==
    /\ step = "copying"
    /\ job.copied < Len(source[job.file])
    /\ parts' = [parts EXCEPT ![job.digest] = Append(@, source[job.file][job.copied + 1])]
    /\ job' = [job EXCEPT !.copied = @ + 1]
    /\ UNCHANGED <<source, objects, refs, step, history>>

\* The source has no more to read.
Copied == step = "copying" /\ job.copied >= Len(source[job.file])

Fail ==
    /\ step' = "idle"
    /\ job' = NoJob
    /\ refused' = refused \cup {job.digest}
    /\ UNCHANGED <<source, disk, suspect>>

PublishShort ==
    /\ Copied
    /\ Len(parts[job.digest]) # job.size
    /\ Fail

\* Mutant: an object that is there is never reused.
PublishCollidesAlways ==
    /\ Copied
    /\ Len(parts[job.digest]) = job.size
    /\ objects[job.digest] # Absent
    /\ Fail

\* "existing content-addressed object has a hash collision".
PublishCollides ==
    /\ Copied
    /\ Len(parts[job.digest]) = job.size
    /\ objects[job.digest] \notin {Absent, job.digest}
    /\ Fail

\* Mutant: the copy is not compared with the size of the source.
PublishUnchecked ==
    /\ step = "copying"
    /\ objects[job.digest] \in {Absent, job.digest}
    /\ objects' = [objects EXCEPT ![job.digest] = IF @ = Absent THEN parts[job.digest] ELSE @]
    /\ parts' = [parts EXCEPT ![job.digest] = Absent]
    /\ step' = "published"
    /\ UNCHANGED <<source, refs, job, history>>

\* The part becomes the object, unless the object is there already.
Publish ==
    /\ Copied
    /\ Len(parts[job.digest]) = job.size
    /\ objects[job.digest] \in {Absent, job.digest}
    /\ objects' = [objects EXCEPT ![job.digest] = IF @ = Absent THEN parts[job.digest] ELSE @]
    /\ parts' = [parts EXCEPT ![job.digest] = Absent]
    /\ step' = "published"
    /\ UNCHANGED <<source, refs, job, history>>

\* Mutant: the manifest is written before the object is published.
WriteManifestEarly ==
    /\ step \in {"copying", "published"}
    /\ refs' = [refs EXCEPT ![job.model] = [sha |-> job.digest, history |-> HistoryOf(job.model)]]
    /\ step' = "idle"
    /\ job' = NoJob
    /\ UNCHANGED <<source, parts, objects, history>>

\* get, then _write_manifest: a temporary file replaces the manifest.
WriteManifest ==
    /\ step = "published"
    /\ refs' = [refs EXCEPT ![job.model] = [sha |-> job.digest, history |-> HistoryOf(job.model)]]
    /\ step' = "idle"
    /\ job' = NoJob
    /\ UNCHANGED <<source, parts, objects, history>>

-----------------------------------------------------------------------------
\* rollback selects history[0], if its object is there and right.
Rollback(m) ==
    /\ step = "idle"
    /\ refs[m] # Absent /\ refs[m].history # <<>>
    /\ objects[Head(refs[m].history)] = Head(refs[m].history)
    /\ refs' = [refs EXCEPT ![m] = [sha |-> Head(@.history), history |-> Tail(@.history)]]
    /\ UNCHANGED <<source, parts, objects, step, job, history>>

Crash ==
    /\ step # "idle"
    /\ step' = "idle"
    /\ job' = NoJob
    /\ UNCHANGED <<source, disk, history>>

Edit(f, content) ==
    /\ content # source[f]
    /\ source' = [source EXCEPT ![f] = content]
    /\ suspect' = suspect \cup {d \in {job.digest} : step \in {"hashed", "copying"} /\ job.file = f}
    /\ UNCHANGED <<disk, step, job, refused>>

\* The object of a digest is damaged by something outside the store.
Damage(d) ==
    /\ objects[d] # Absent
    /\ objects' = [objects EXCEPT ![d] = Damaged]
    /\ suspect' = suspect \cup {d}
    /\ UNCHANGED <<source, parts, refs, step, job, refused>>

Next == \/ \E f \in Files, m \in Models : PutHash(f, m)
        \/ OpenPart \/ CopyBlock \/ PublishShort \/ PublishCollides \/ Publish
        \/ WriteManifest
        \/ \E m \in Models : Rollback(m)
        \/ Crash
        \/ \E f \in Files, content \in Contents : Edit(f, content)
        \/ \E d \in Contents : Damage(d)

Spec == Init /\ [][Next]_vars

-----------------------------------------------------------------------------
(* Properties.                                                             *)

\* Every variable holds a value of its kind, and the place a copy has reached
\* in the source is the place it has reached in the part.
TypeOK ==
    /\ source \in [Files -> Contents]
    /\ parts \in [Contents -> Seq(Blocks) \cup {Absent}]
    /\ objects \in [Contents -> Seq(Blocks) \cup {Absent, Damaged}]
    /\ refs \in [Models -> [sha : Contents, history : Seq(Contents)] \cup {Absent}]
    /\ step \in Steps
    /\ step = "idle" => job = NoJob
    /\ step # "idle" => /\ job \in [file : Files, model : Models, digest : Contents, size : Nat,
                                   copied : Nat]
    /\ step = "copying" => parts[job.digest] # Absent /\ job.copied = Len(parts[job.digest])
    /\ suspect \subseteq Contents
    /\ refused \subseteq Contents

Beginning(s, t) == Len(s) <= Len(t) /\ \A i \in 1 .. Len(s) : s[i] = t[i]

\* Whatever is interrupted and resumed, an object contains what its name says
\* and a part the beginning of it.  A source that changes while it is put, or a
\* damaged object, harms that one digest and no other
\* ("The filename, logical ID and revision never determine content identity",
\* docs/protocols/model-store.md:6).
OnlySuspectsAreWrong ==
    \A d \in Contents \ suspect :
        /\ objects[d] \in {Absent, d}
        /\ parts[d] # Absent => Beginning(parts[d], d)

\* Every digest a manifest names, in its history too, has an object, at every
\* moment of a put and after every crash (put_file, _write_manifest).
RefsLeadToObjects ==
    \A m \in Models : refs[m] # Absent =>
        /\ objects[refs[m].sha] # Absent
        /\ \A i \in 1 .. Len(refs[m].history) : objects[refs[m].history[i]] # Absent

\* A put that was interrupted anywhere can be repeated: it is refused only for
\* a digest whose source was changed under a put or whose object was damaged.
OnlySuspectsAreRefused == refused \subseteq suspect

\* The revisions of each model, the selected one last.
Stacks == INSTANCE Revisions WITH revisions <- [m \in Models |-> HistoryOf(m)]

\* Update and rollback work on a stack of revisions, so that a rollback undoes
\* the last update (model_store.py:146, "no previous model revision").
RevisionsAreAStack == Stacks!Spec
=============================================================================
