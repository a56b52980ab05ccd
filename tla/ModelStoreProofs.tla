-------------------------- MODULE ModelStoreProofs --------------------------
(***************************************************************************)
(* Theorems about the model store, for any contents, files, models and     *)
(* lengths of history.                                                     *)
(***************************************************************************)
EXTENDS ModelStore, TLAPS

JobType == [file : Files, model : Models, digest : Contents, size : Nat, copied : Nat]

(***************************************************************************)
(* Lemmas about sequences.                                                 *)
(***************************************************************************)

\* A beginning of full length is the sequence itself.
LEMMA WholeBeginning ==
    ASSUME NEW S, NEW s \in Seq(S), NEW t \in Seq(S), Beginning(s, t), Len(s) = Len(t)
    PROVE  s = t
BY DEF Beginning

\* A beginning goes on with the next element.
LEMMA LongerBeginning ==
    ASSUME NEW S, NEW s \in Seq(S), NEW t \in Seq(S), Beginning(s, t), Len(s) < Len(t)
    PROVE  Append(s, t[Len(s) + 1]) \in Seq(S) /\ Beginning(Append(s, t[Len(s) + 1]), t)
<1> DEFINE u == Append(s, t[Len(s) + 1])
<1>1. Len(s) + 1 \in 1 .. Len(t) /\ t[Len(s) + 1] \in S
  OBVIOUS
<1>2. u \in Seq(S) /\ Len(u) = Len(s) + 1
  BY <1>1
<1>3. \A i \in 1 .. Len(u) : u[i] = t[i]
  <2> TAKE i \in 1 .. Len(u)
  <2>1. CASE i \in 1 .. Len(s)
    BY <2>1, <1>1 DEF Beginning
  <2>2. CASE i = Len(s) + 1
    BY <2>2, <1>1
  <2> QED
    BY <2>1, <2>2, <1>2
<1> QED
  BY <1>1, <1>2, <1>3 DEF Beginning

(***************************************************************************)
(* Types.                                                                  *)
(***************************************************************************)
LEMMA InitType == ASSUME Init PROVE TypeOK
BY DEF Init, TypeOK, Steps, NoJob

LEMMA HistoryType ==
    ASSUME TypeOK, NEW m \in Models
    PROVE  HistoryOf(m) \in Seq(Contents)
<1>1. CASE refs[m] = Absent
  BY <1>1 DEF HistoryOf
<1>2. CASE refs[m] # Absent
  <2>1. refs[m] \in [sha : Contents, history : Seq(Contents)]
    BY <1>2 DEF TypeOK
  <2> QED
    BY <2>1, <1>2 DEF HistoryOf
<1> QED
  BY <1>1, <1>2

LEMMA NextType == ASSUME TypeOK, [Next]_vars PROVE TypeOK'
<1> USE ModelStoreAssumption
<1>1. ASSUME NEW f \in Files, NEW m \in Models, PutHash(f, m) PROVE TypeOK'
  <2>1. job' \in JobType /\ step' = "hashed"
    BY <1>1 DEF PutHash, NoJob, TypeOK, JobType
  <2> QED
    BY <1>1, <2>1 DEF PutHash, disk, history, TypeOK, Steps, JobType
<1>2. ASSUME OpenPart PROVE TypeOK'
  <2> DEFINE d    == job.digest
             size == Len(source[job.file])
             kept == IF parts[d] = Absent THEN <<>>
                     ELSE IF Len(parts[d]) > size THEN <<>> ELSE parts[d]
  <2>1. job \in JobType /\ d \in Contents /\ size \in Nat /\ kept \in Seq(Blocks)
    BY <1>2 DEF OpenPart, TypeOK, Steps, JobType
  <2>2. /\ parts' = [parts EXCEPT ![d] = kept]
        /\ job' = [job EXCEPT !.size = size, !.copied = Len(kept)]
        /\ step' = "copying"
    BY <1>2 DEF OpenPart
  <2>3. Len(kept) \in Nat
    BY <2>1
  <2> HIDE DEF size, kept
  <2>4. job' \in JobType /\ job'.digest = d /\ job'.copied = Len(kept)
    BY <2>1, <2>2, <2>3 DEF JobType
  <2>5. parts' \in [Contents -> Seq(Blocks) \cup {Absent}] /\ parts'[d] = kept /\ kept # Absent
    BY <2>1, <2>2 DEF TypeOK
  <2> QED
    BY <1>2, <2>2, <2>4, <2>5 DEF OpenPart, history, TypeOK, Steps, JobType
<1>3. ASSUME CopyBlock PROVE TypeOK'
  <2>1. job \in JobType /\ parts[job.digest] \in Seq(Blocks) /\ job.copied = Len(parts[job.digest])
    BY <1>3 DEF CopyBlock, TypeOK, Steps, JobType
  <2> DEFINE block == source[job.file][job.copied + 1]
             more  == Append(parts[job.digest], block)
  <2>2. source[job.file] \in Seq(Blocks)
    BY <2>1 DEF TypeOK, JobType
  <2>3. block \in Blocks
    BY <1>3, <2>1, <2>2 DEF CopyBlock, JobType
  <2>4. more \in Seq(Blocks) /\ Len(more) = job.copied + 1
    BY <2>1, <2>3
  <2>5. parts' = [parts EXCEPT ![job.digest] = more] /\ job' = [job EXCEPT !.copied = @ + 1]
    BY <1>3 DEF CopyBlock
  <2> HIDE DEF more
  <2>6. job' \in JobType /\ job'.digest = job.digest /\ job'.copied = job.copied + 1
    BY <2>1, <2>5 DEF JobType
  <2>7. parts' \in [Contents -> Seq(Blocks) \cup {Absent}] /\ parts'[job.digest] = more
    BY <2>1, <2>4, <2>5 DEF TypeOK, JobType
  <2>8. more # Absent
    BY <2>4
  <2> QED
    BY <1>3, <2>4, <2>6, <2>7, <2>8 DEF CopyBlock, history, TypeOK, Steps, JobType
<1>4. ASSUME PublishShort \/ PublishCollides PROVE TypeOK'
  BY <1>4 DEF PublishShort, PublishCollides, Copied, Fail, disk, TypeOK, Steps
<1>5. ASSUME Publish PROVE TypeOK'
  <2>1. job \in JobType /\ parts[job.digest] \in Seq(Blocks)
    BY <1>5 DEF Publish, Copied, TypeOK, JobType
  <2>2. objects' \in [Contents -> Seq(Blocks) \cup {Absent, Damaged}]
    BY <1>5, <2>1 DEF Publish, TypeOK, JobType
  <2>3. parts' \in [Contents -> Seq(Blocks) \cup {Absent}]
    BY <1>5, <2>1 DEF Publish, TypeOK, JobType
  <2> QED
    BY <1>5, <2>1, <2>2, <2>3 DEF Publish, history, TypeOK, Steps, JobType
<1>6. ASSUME WriteManifest PROVE TypeOK'
  <2>1. job \in JobType
    BY <1>6 DEF WriteManifest, TypeOK, Steps, JobType
  <2>2. HistoryOf(job.model) \in Seq(Contents)
    BY <2>1, HistoryType DEF JobType
  <2> QED
    BY <1>6, <2>1, <2>2 DEF WriteManifest, history, TypeOK, Steps, JobType
<1>7. ASSUME NEW m \in Models, Rollback(m) PROVE TypeOK'
  <2>1. refs[m] \in [sha : Contents, history : Seq(Contents)]
    BY <1>7 DEF Rollback, TypeOK
  <2>2. Head(refs[m].history) \in Contents /\ Tail(refs[m].history) \in Seq(Contents)
    BY <1>7, <2>1 DEF Rollback
  <2> QED
    BY <1>7, <2>1, <2>2 DEF Rollback, history, TypeOK
<1>8. ASSUME Crash PROVE TypeOK'
  BY <1>8 DEF Crash, disk, history, TypeOK, Steps
<1>9. ASSUME NEW f \in Files, NEW c \in Contents, Edit(f, c) PROVE TypeOK'
  BY <1>9 DEF Edit, disk, TypeOK, Steps
<1>10. ASSUME NEW d \in Contents, Damage(d) PROVE TypeOK'
  BY <1>10 DEF Damage, TypeOK, Steps
<1>11. ASSUME UNCHANGED vars PROVE TypeOK'
  BY <1>11 DEF vars, disk, TypeOK, Steps
<1> QED
  BY <1>1, <1>2, <1>3, <1>4, <1>5, <1>6, <1>7, <1>8, <1>9, <1>10, <1>11 DEF Next

\* The store's variables keep their types, and a copy's place in the source is
\* its place in the part (put_file, _copy_resumable).
THEOREM StoreTypeCorrect == Spec => []TypeOK
<1>1. Init => TypeOK
  BY InitType
<1>2. TypeOK /\ [Next]_vars => TypeOK'
  BY NextType
<1> QED
  BY <1>1, <1>2, PTL DEF Spec

(***************************************************************************)
(* The inductive invariant.  The three safety properties hold only as      *)
(* long as a put under way knows its source: unless the digest is suspect, *)
(* the source still is what was hashed, and the size the copy is compared  *)
(* with is the size of that; and a manifest is written only when the       *)
(* object is there.                                                        *)
(***************************************************************************)
InFlight ==
    /\ step \in {"hashed", "copying"} /\ job.digest \notin suspect
          => source[job.file] = job.digest
    /\ step = "copying" /\ job.digest \notin suspect => job.size = Len(job.digest)
    /\ step = "published" => objects[job.digest] # Absent

Safety == OnlySuspectsAreWrong /\ RefsLeadToObjects /\ OnlySuspectsAreRefused /\ InFlight

\* Whatever HistoryOf gives a manifest leads to an object.
LEMMA HistoryLeadsToObjects ==
    ASSUME TypeOK, RefsLeadToObjects, NEW m \in Models
    PROVE  \A i \in 1 .. Len(HistoryOf(m)) : objects[HistoryOf(m)[i]] # Absent
<1>1. CASE refs[m] = Absent
  BY <1>1 DEF HistoryOf
<1>2. CASE refs[m] # Absent
  <2>1. refs[m] \in [sha : Contents, history : Seq(Contents)]
    BY <1>2 DEF TypeOK
  <2>2. HistoryOf(m) = Append(refs[m].history, refs[m].sha)
    BY <1>2 DEF HistoryOf
  <2> QED
    BY <1>2, <2>1, <2>2 DEF RefsLeadToObjects
<1> QED
  BY <1>1, <1>2

\* A finished copy of a digest that is not suspect is that content.
LEMMA FinishedCopy ==
    ASSUME TypeOK, OnlySuspectsAreWrong, InFlight, Copied, job.digest \notin suspect
    PROVE  parts[job.digest] = job.digest /\ job.size = Len(job.digest)
<1> USE ModelStoreAssumption
<1>1. job \in JobType /\ parts[job.digest] # Absent /\ job.copied = Len(parts[job.digest])
  BY DEF Copied, TypeOK, JobType
<1>2. parts[job.digest] \in Seq(Blocks) /\ job.digest \in Seq(Blocks)
  BY <1>1 DEF TypeOK, JobType
<1>3. Beginning(parts[job.digest], job.digest)
  BY <1>1 DEF OnlySuspectsAreWrong, JobType
<1>4. source[job.file] = job.digest /\ job.size = Len(job.digest)
  BY DEF InFlight, Copied
<1>5. Len(parts[job.digest]) = Len(job.digest)
  BY <1>1, <1>2, <1>3, <1>4 DEF Copied, Beginning
<1> QED
  BY <1>2, <1>3, <1>4, <1>5, WholeBeginning

LEMMA InitSafety == ASSUME Init PROVE Safety
BY DEF Init, Safety, OnlySuspectsAreWrong, RefsLeadToObjects, OnlySuspectsAreRefused, InFlight

LEMMA PutHashSafety ==
    ASSUME TypeOK, Safety, NEW f \in Files, NEW m \in Models, PutHash(f, m)
    PROVE  Safety'
<1>1. job'.digest = source[f] /\ job'.file = f /\ step' = "hashed"
  BY DEF PutHash, NoJob
<1> QED
  BY <1>1 DEF PutHash, disk, history, Safety, OnlySuspectsAreWrong, RefsLeadToObjects,
     OnlySuspectsAreRefused, InFlight, Beginning

LEMMA OpenPartSafety == ASSUME TypeOK, Safety, OpenPart PROVE Safety'
<1> USE ModelStoreAssumption
<1> DEFINE d    == job.digest
           size == Len(source[job.file])
           kept == IF parts[d] = Absent THEN <<>>
                   ELSE IF Len(parts[d]) > size THEN <<>> ELSE parts[d]
<1>1. job \in JobType /\ d \in Contents /\ d \in Seq(Blocks)
  BY DEF OpenPart, TypeOK, Steps, JobType
<1>2. /\ parts' = [parts EXCEPT ![d] = kept]
      /\ job' = [job EXCEPT !.size = size, !.copied = Len(kept)]
      /\ step' = "copying" /\ UNCHANGED <<source, objects, refs, suspect, refused>>
  BY DEF OpenPart, history
<1>3. job'.digest = d /\ job'.file = job.file /\ job'.size = size
  BY <1>1, <1>2 DEF JobType
<1>4. OnlySuspectsAreWrong'
  <2>1. d \notin suspect => Beginning(kept, d)
    <3>1. Beginning(<<>>, d)
      BY <1>1 DEF Beginning
    <3> QED
      BY <1>1, <3>1 DEF Safety, OnlySuspectsAreWrong
  <2> HIDE DEF kept
  <2> QED
    BY <1>1, <1>2, <2>1 DEF Safety, OnlySuspectsAreWrong, TypeOK, Beginning
<1>5. RefsLeadToObjects' /\ OnlySuspectsAreRefused'
  BY <1>2 DEF Safety, RefsLeadToObjects, OnlySuspectsAreRefused
<1>6. InFlight'
  BY <1>2, <1>3 DEF OpenPart, Safety, InFlight
<1> QED
  BY <1>4, <1>5, <1>6 DEF Safety

LEMMA CopyBlockSafety == ASSUME TypeOK, Safety, CopyBlock PROVE Safety'
<1> USE ModelStoreAssumption
<1> DEFINE d    == job.digest
           more == Append(parts[d], source[job.file][job.copied + 1])
<1>1. /\ job \in JobType /\ d \in Contents /\ d \in Seq(Blocks)
      /\ parts[d] \in Seq(Blocks) /\ parts[d] # Absent /\ job.copied = Len(parts[d])
  BY DEF CopyBlock, TypeOK, Steps, JobType
<1>2. /\ parts' = [parts EXCEPT ![d] = more]
      /\ job' = [job EXCEPT !.copied = @ + 1]
      /\ UNCHANGED <<source, objects, refs, step, suspect, refused>>
  BY DEF CopyBlock, history
<1>3. job'.digest = d /\ job'.file = job.file /\ job'.size = job.size
  BY <1>1, <1>2 DEF JobType
<1>4. d \notin suspect => Beginning(more, d)
  <2> SUFFICES ASSUME d \notin suspect PROVE Beginning(more, d)
    OBVIOUS
  <2>1. Beginning(parts[d], d)
    BY <1>1 DEF Safety, OnlySuspectsAreWrong
  <2>2. source[job.file] = d
    BY DEF CopyBlock, Safety, InFlight
  <2>3. Len(parts[d]) < Len(d)
    BY <1>1, <2>2 DEF CopyBlock
  <2> QED
    BY <1>1, <2>1, <2>2, <2>3, LongerBeginning
<1> HIDE DEF more
<1>5. OnlySuspectsAreWrong'
  BY <1>1, <1>2, <1>4 DEF Safety, OnlySuspectsAreWrong, TypeOK, Beginning
<1>6. RefsLeadToObjects' /\ OnlySuspectsAreRefused'
  BY <1>2 DEF Safety, RefsLeadToObjects, OnlySuspectsAreRefused
<1>7. InFlight'
  BY <1>2, <1>3 DEF Safety, InFlight
<1> QED
  BY <1>5, <1>6, <1>7 DEF Safety

\* A put fails only for a suspect digest.
LEMMA FailSafety == ASSUME TypeOK, Safety, PublishShort \/ PublishCollides PROVE Safety'
<1> USE ModelStoreAssumption
<1>1. job \in JobType /\ job.digest \in Contents /\ Copied
  BY DEF PublishShort, PublishCollides, Copied, TypeOK, JobType
<1>2. job.digest \in suspect
  <2> SUFFICES ASSUME job.digest \notin suspect PROVE FALSE
    OBVIOUS
  <2>1. parts[job.digest] = job.digest /\ job.size = Len(job.digest)
    BY <1>1, FinishedCopy DEF Safety
  <2>2. objects[job.digest] \in {Absent, job.digest}
    BY <1>1 DEF Safety, OnlySuspectsAreWrong
  <2> QED
    BY <2>1, <2>2 DEF PublishShort, PublishCollides
<1> QED
  BY <1>2 DEF PublishShort, PublishCollides, Fail, disk, Safety, OnlySuspectsAreWrong,
     RefsLeadToObjects, OnlySuspectsAreRefused, InFlight, Beginning

LEMMA PublishSafety == ASSUME TypeOK, Safety, Publish PROVE Safety'
<1> USE ModelStoreAssumption
<1> DEFINE d == job.digest
<1>1. /\ job \in JobType /\ d \in Contents /\ d \in Seq(Blocks)
      /\ Copied /\ parts[d] # Absent /\ objects[d] \in {Absent, d}
  BY DEF Publish, Copied, TypeOK, JobType
<1>2. /\ objects' = [objects EXCEPT ![d] = IF @ = Absent THEN parts[d] ELSE @]
      /\ parts' = [parts EXCEPT ![d] = Absent]
      /\ step' = "published" /\ UNCHANGED <<source, refs, job, suspect, refused>>
  BY DEF Publish, history
<1>3. objects'[d] # Absent /\ parts'[d] = Absent
  BY <1>1, <1>2 DEF TypeOK
<1>4. \A e \in Contents \ {d} : objects'[e] = objects[e] /\ parts'[e] = parts[e]
  BY <1>2 DEF TypeOK
<1>5. d \notin suspect => objects'[d] = d
  BY <1>1, <1>2, FinishedCopy DEF Safety, TypeOK
<1>6. OnlySuspectsAreWrong'
  BY <1>2, <1>3, <1>4, <1>5 DEF Safety, OnlySuspectsAreWrong, Beginning
<1>7. RefsLeadToObjects'
  <2>1. \A e \in Contents : objects[e] # Absent => objects'[e] # Absent
    BY <1>3, <1>4
  <2> SUFFICES ASSUME NEW m \in Models, refs[m] # Absent
               PROVE  /\ objects'[refs[m].sha] # Absent
                      /\ \A i \in 1 .. Len(refs[m].history) : objects'[refs[m].history[i]] # Absent
    BY <1>2 DEF RefsLeadToObjects
  <2>2. refs[m] \in [sha : Contents, history : Seq(Contents)]
    BY DEF TypeOK
  <2> QED
    BY <2>1, <2>2 DEF Safety, RefsLeadToObjects
<1>8. OnlySuspectsAreRefused' /\ InFlight'
  BY <1>2, <1>3 DEF Safety, OnlySuspectsAreRefused, InFlight
<1> QED
  BY <1>6, <1>7, <1>8 DEF Safety

LEMMA WriteManifestSafety == ASSUME TypeOK, Safety, WriteManifest PROVE Safety'
<1> DEFINE record == [sha |-> job.digest, history |-> HistoryOf(job.model)]
<1>1. job \in JobType /\ job.model \in Models
  BY DEF WriteManifest, TypeOK, Steps, JobType
<1>2. /\ refs' = [refs EXCEPT ![job.model] = record] /\ step' = "idle"
      /\ UNCHANGED <<source, parts, objects, suspect, refused>>
  BY DEF WriteManifest, history
<1>3. /\ objects[record.sha] # Absent
      /\ \A i \in 1 .. Len(record.history) : objects[record.history[i]] # Absent
  BY <1>1, HistoryLeadsToObjects DEF WriteManifest, Safety, InFlight
<1> HIDE DEF record
<1>4. RefsLeadToObjects'
  BY <1>1, <1>2, <1>3 DEF Safety, RefsLeadToObjects, TypeOK
<1> QED
  BY <1>2, <1>4 DEF Safety, OnlySuspectsAreWrong, OnlySuspectsAreRefused, InFlight, Beginning

LEMMA RollbackSafety ==
    ASSUME TypeOK, Safety, NEW m \in Models, Rollback(m)
    PROVE  Safety'
<1> DEFINE record == [sha |-> Head(refs[m].history), history |-> Tail(refs[m].history)]
<1>1. refs[m] \in [sha : Contents, history : Seq(Contents)]
  BY DEF Rollback, TypeOK
<1>2. /\ refs' = [refs EXCEPT ![m] = record]
      /\ UNCHANGED <<source, parts, objects, step, job, suspect, refused>>
  BY DEF Rollback, history
<1>3. /\ objects[record.sha] # Absent
      /\ \A i \in 1 .. Len(record.history) : objects[record.history[i]] # Absent
  <2>1. \A i \in 1 .. Len(refs[m].history) : objects[refs[m].history[i]] # Absent
    BY DEF Rollback, Safety, RefsLeadToObjects
  <2> QED
    BY <1>1, <2>1 DEF Rollback
<1> HIDE DEF record
<1>4. RefsLeadToObjects'
  BY <1>2, <1>3 DEF Safety, RefsLeadToObjects, TypeOK
<1> QED
  BY <1>2, <1>4 DEF Safety, OnlySuspectsAreWrong, OnlySuspectsAreRefused, InFlight, Beginning

LEMMA CrashSafety == ASSUME TypeOK, Safety, Crash PROVE Safety'
BY DEF Crash, disk, history, Safety, OnlySuspectsAreWrong, RefsLeadToObjects,
   OnlySuspectsAreRefused, InFlight, Beginning

\* A source that changes between its hash and the end of its copy makes its
\* digest suspect, so nothing is claimed of that digest any more.
LEMMA EditSafety ==
    ASSUME TypeOK, Safety, NEW f \in Files, NEW c \in Contents, Edit(f, c)
    PROVE  Safety'
<1>1. /\ UNCHANGED <<parts, objects, refs, step, job, refused>>
      /\ suspect \subseteq suspect'
  BY DEF Edit, disk
<1>2. OnlySuspectsAreWrong' /\ RefsLeadToObjects' /\ OnlySuspectsAreRefused'
  BY <1>1 DEF Safety, OnlySuspectsAreWrong, RefsLeadToObjects, OnlySuspectsAreRefused, Beginning
<1>3. InFlight'
  <2>1. CASE step \in {"hashed", "copying"} /\ job.file = f
    <3>1. job.digest \in suspect'
      BY <2>1 DEF Edit
    <3> QED
      BY <1>1, <2>1, <3>1 DEF InFlight
  <2>2. CASE step \in {"hashed", "copying"} /\ job.file # f
    <3>1. job \in JobType /\ source'[job.file] = source[job.file]
      BY <2>2 DEF Edit, TypeOK, JobType
    <3> QED
      BY <1>1, <2>2, <3>1 DEF Safety, InFlight
  <2>3. CASE step \notin {"hashed", "copying"}
    BY <1>1, <2>3 DEF Safety, InFlight
  <2> QED
    BY <2>1, <2>2, <2>3
<1> QED
  BY <1>2, <1>3 DEF Safety

LEMMA DamageSafety ==
    ASSUME TypeOK, Safety, NEW d \in Contents, Damage(d)
    PROVE  Safety'
<1> USE ModelStoreAssumption
<1>1. /\ objects' = [objects EXCEPT ![d] = Damaged] /\ suspect' = suspect \cup {d}
      /\ UNCHANGED <<source, parts, refs, step, job, refused>>
  BY DEF Damage
<1>2. objects'[d] # Absent /\ \A e \in Contents \ {d} : objects'[e] = objects[e]
  BY <1>1 DEF TypeOK
<1>3. \A e \in Contents : objects[e] # Absent => objects'[e] # Absent
  BY <1>2
<1>4. OnlySuspectsAreWrong' /\ OnlySuspectsAreRefused'
  BY <1>1, <1>2 DEF Safety, OnlySuspectsAreWrong, OnlySuspectsAreRefused, Beginning
<1>5. RefsLeadToObjects'
  <2> SUFFICES ASSUME NEW m \in Models, refs[m] # Absent
               PROVE  /\ objects'[refs[m].sha] # Absent
                      /\ \A i \in 1 .. Len(refs[m].history) : objects'[refs[m].history[i]] # Absent
    BY <1>1 DEF RefsLeadToObjects
  <2>1. refs[m] \in [sha : Contents, history : Seq(Contents)]
    BY DEF TypeOK
  <2>2. /\ refs[m].sha \in Contents
        /\ \A i \in 1 .. Len(refs[m].history) : refs[m].history[i] \in Contents
    BY <2>1
  <2>3. /\ objects[refs[m].sha] # Absent
        /\ \A i \in 1 .. Len(refs[m].history) : objects[refs[m].history[i]] # Absent
    BY DEF Safety, RefsLeadToObjects
  <2> QED
    BY <1>3, <2>2, <2>3
<1>6. InFlight'
  <2>1. step = "published" => objects'[job.digest] # Absent
    BY <1>3 DEF TypeOK, Steps, Safety, InFlight
  <2> QED
    BY <1>1, <2>1 DEF Safety, InFlight
<1> QED
  BY <1>4, <1>5, <1>6 DEF Safety

\* The store's contents, manifests and refusals are right after every step.
THEOREM StoreSafe == Spec => []Safety
<1>1. Init => Safety
  BY InitSafety
<1>2. TypeOK /\ Safety /\ [Next]_vars => Safety'
  <2>1. ASSUME TypeOK, Safety, UNCHANGED vars PROVE Safety'
    BY <2>1 DEF vars, disk, Safety, OnlySuspectsAreWrong, RefsLeadToObjects,
       OnlySuspectsAreRefused, InFlight, Beginning
  <2> QED
    BY <2>1, PutHashSafety, OpenPartSafety, CopyBlockSafety, FailSafety, PublishSafety,
       WriteManifestSafety, RollbackSafety, CrashSafety, EditSafety, DamageSafety DEF Next
<1> QED
  BY <1>1, <1>2, StoreTypeCorrect, PTL DEF Spec

\* However puts are interrupted and resumed, an object is what its name says
\* unless its source was changed under a put or it was damaged (_copy_resumable).
THEOREM ObjectsAreWhatTheyAreNamed == Spec => []OnlySuspectsAreWrong
BY StoreSafe, PTL DEF Safety

\* Every digest of a manifest has an object, whatever step a crash falls on
\* (put_file publishes the object before it writes the manifest).
THEOREM ManifestsLeadToObjects == Spec => []RefsLeadToObjects
BY StoreSafe, PTL DEF Safety

\* Only a digest whose source was changed under a put, or whose object was
\* damaged, is ever refused: an interrupted put can be repeated.
THEOREM InterruptedPutsCanBeRepeated == Spec => []OnlySuspectsAreRefused
BY StoreSafe, PTL DEF Safety
=============================================================================
