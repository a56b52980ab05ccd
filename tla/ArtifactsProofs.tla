--------------------------- MODULE ArtifactsProofs --------------------------
(***************************************************************************)
(* Theorems about what the installers and caches leave on disk, for any    *)
(* number of processes, releases, artifacts and sizes, whatever overlaps   *)
(* and wherever a process dies.                                            *)
(***************************************************************************)
EXTENDS MCArtifacts, ModelStoreProofs, Minima, TLAPS

(***************************************************************************)
(* The TurboQuant installer.                                               *)
(***************************************************************************)

InstSteps == {"idle", "look", "stage", "check", "move", "receipt", "written", "point", "fill",
              "follow", "replace"}
InstType == [at : InstSteps, tag : Tags \cup {Nothing}, asset : Assets \cup {Nothing}]

\* A process that is installing installs a release.
Busy == \A i \in Installers :
    IF InstAt(i, "idle") THEN installs[i] = NoInstall
    ELSE Tag(i) \in Tags /\ installs[i].asset \in Assets

\* Two processes with one tag are noticed.
TagsAreTold == \A i, j \in Installers :
    i # j /\ Tag(i) \in Tags /\ Tag(i) = Tag(j) => Tag(i) \in tagsRaced

\* The directory of a release is there, and it and its receipt are those of its
\* asset unless two processes installed its tag at once.
Installed(r) ==
    /\ tagDirs[r.tag] # Nothing
    /\ r.tag \notin tagsRaced => tagDirs[r.tag] = r.asset /\ tagReceipts[r.tag] = r.asset

InstalledIfAny(r) == r \notin {NoRelease, TornRelease} => Installed(r)

\* A receipt tells what is in the directory.
ReceiptsTell == \A t \in Tags :
    t \notin tagsRaced /\ tagReceipts[t] \in Assets => tagDirs[t] = tagReceipts[t]

\* What an installation has behind it at each of its steps.
Progress == \A i \in Installers :
    /\ InstAt(i, "move") /\ Tag(i) \notin tagsRaced => tagDirs[Tag(i)] = Nothing
    /\ installs[i].at \in {"receipt", "written"} =>
           /\ tagDirs[Tag(i)] # Nothing
           /\ Tag(i) \notin tagsRaced =>
                  /\ tagDirs[Tag(i)] = installs[i].asset
                  /\ current.tag # Tag(i) /\ currentTmp.tag # Tag(i)
    /\ installs[i].at \in {"point", "fill", "follow", "replace"} => Installed(Release(i))

\* As long as one process at a time uses current.json.tmp it is torn only while
\* that process fills it.
TmpIsTold == ~ tmpRaced =>
    /\ \A i, j \in Installers : AtTmp(i) /\ AtTmp(j) => i = j
    /\ \A i \in Installers :
           /\ ~ InstAt(i, "follow")
           /\ InstAt(i, "fill") => currentTmp = TornRelease
           /\ InstAt(i, "replace") => currentTmp # TornRelease
    /\ current # TornRelease

InstIInv == /\ InstTypeOK /\ Busy /\ TagsAreTold /\ ReceiptsTell /\ Progress /\ TmpIsTold
            /\ InstalledIfAny(current) /\ InstalledIfAny(currentTmp)

LEMMA InstGoFacts ==
    ASSUME installs \in [Installers -> InstType], NEW i \in Installers, NEW s \in InstSteps, InstGo(i, s)
    PROVE  /\ installs' \in [Installers -> InstType]
           /\ \A j \in Installers : /\ installs'[j].tag = installs[j].tag
                                    /\ installs'[j].asset = installs[j].asset
                                    /\ installs'[j].at = IF j = i THEN s ELSE installs[j].at
           /\ \A j \in Installers : j # i => installs'[j] = installs[j]
BY DEF InstGo, InstType

LEMMA InstEndFacts ==
    ASSUME installs \in [Installers -> InstType], NEW i \in Installers, InstEnd(i)
    PROVE  /\ installs' \in [Installers -> InstType]
           /\ installs'[i] = NoInstall
           /\ \A j \in Installers : j # i => installs'[j] = installs[j]
BY DEF InstEnd, InstType, InstSteps, NoInstall

LEMMA InstallsType == ASSUME InstIInv PROVE installs \in [Installers -> InstType]
BY DEF InstIInv, InstTypeOK, InstType, InstSteps

\* An installation that ends leaves everything else as it is.
LEMMA InstEndIInv ==
    ASSUME InstIInv, NEW i \in Installers, InstEnd(i),
           UNCHANGED <<tagDirs, tagReceipts, pointer, tagsRaced>>
    PROVE  InstIInv'
<1>1. /\ installs' \in [Installers -> InstType] /\ installs'[i] = NoInstall
      /\ \A j \in Installers : j # i => installs'[j] = installs[j]
  BY InstallsType, InstEndFacts
<1>2. UNCHANGED <<tagDirs, tagReceipts, current, currentTmp, tagsRaced, tmpRaced>>
  BY DEF pointer
<1> USE InstallerAssumption
<1>10. InstTypeOK'
  BY <1>1, <1>2 DEF InstIInv, InstTypeOK, InstType, InstSteps
<1>11. Busy'
  BY <1>1, <1>2 DEF InstIInv, Busy, InstAt, Tag, NoInstall
<1>12. TagsAreTold'
  BY <1>1, <1>2 DEF InstIInv, TagsAreTold, Tag, NoInstall
<1>13. ReceiptsTell'
  BY <1>1, <1>2 DEF InstIInv, ReceiptsTell
<1>14. Progress'
  BY <1>1, <1>2 DEF InstIInv, Progress, Installed, Release, InstAt, Tag, NoInstall
<1>15. TmpIsTold'
  BY <1>1, <1>2 DEF InstIInv, TmpIsTold, AtTmp, InstAt, NoInstall
<1>16. InstalledIfAny(current)'
  BY <1>1, <1>2 DEF InstIInv, InstalledIfAny, Installed, NoRelease, TornRelease
<1>17. InstalledIfAny(currentTmp)'
  BY <1>1, <1>2 DEF InstIInv, InstalledIfAny, Installed, NoRelease, TornRelease
<1> QED
  BY <1>10, <1>11, <1>12, <1>13, <1>14, <1>15, <1>16, <1>17 DEF InstIInv

LEMMA DiscoverIInv ==
    ASSUME InstIInv, NEW i \in Installers, NEW r \in Releases, Discover(i, r)
    PROVE  InstIInv'
<1> USE InstallerAssumption
<1>1. /\ InstAt(i, "idle") /\ UNCHANGED <<tagDirs, tagReceipts, current, currentTmp, tmpRaced>>
      /\ tagsRaced' = IF \E j \in Installers \ {i} : Tag(j) = r.tag
                      THEN tagsRaced \cup {r.tag} ELSE tagsRaced
      /\ tagsRaced \subseteq tagsRaced'
  BY DEF Discover, pointer
<1>2. /\ installs' \in [Installers -> InstType]
      /\ installs'[i] = [at |-> "look", tag |-> r.tag, asset |-> r.asset]
      /\ \A j \in Installers : j # i => installs'[j] = installs[j]
  BY InstallsType DEF Discover, InstType, InstSteps, Releases
<1>3. r.tag \in Tags /\ r.asset \in Assets
  BY DEF Releases
<1>4. InstTypeOK'
  BY <1>1, <1>2, <1>3 DEF InstIInv, InstTypeOK, InstType, InstSteps
<1>5. Busy'
  BY <1>1, <1>2, <1>3 DEF InstIInv, Busy, InstAt, Tag, NoInstall
<1>6. TagsAreTold'
  BY <1>1, <1>2, <1>3 DEF InstIInv, TagsAreTold, Tag, NoInstall
<1>7. ReceiptsTell'
  BY <1>1, <1>2, <1>3 DEF InstIInv, ReceiptsTell
<1>8. Progress'
  BY <1>1, <1>2, <1>3 DEF InstIInv, Progress, Installed, Release, InstAt, Tag, NoInstall
<1>9. TmpIsTold'
  BY <1>1, <1>2, <1>3 DEF InstIInv, TmpIsTold, AtTmp, InstAt, NoInstall
<1>10. InstalledIfAny(current)'
  BY <1>1, <1>2, <1>3 DEF InstIInv, InstalledIfAny, Installed, NoRelease, TornRelease
<1>11. InstalledIfAny(currentTmp)'
  BY <1>1, <1>2, <1>3 DEF InstIInv, InstalledIfAny, Installed, NoRelease, TornRelease
<1> QED
  BY <1>4, <1>5, <1>6, <1>7, <1>8, <1>9, <1>10, <1>11 DEF InstIInv

\* A step that only goes on, to where nothing is required of it yet or what is
\* required holds.
LEMMA InstMoveIInv ==
    ASSUME InstIInv, NEW i \in Installers, ~ InstAt(i, "idle"), ~ AtTmp(i),
           NEW s \in {"stage", "check", "move", "point"}, InstGo(i, s),
           s = "move" => tagDirs[Tag(i)] = Nothing,
           s = "point" => Installed(Release(i)),
           UNCHANGED <<tagDirs, tagReceipts, pointer, tagsRaced>>
    PROVE  InstIInv'
<1> USE InstallerAssumption
<1>1. UNCHANGED <<tagDirs, tagReceipts, current, currentTmp, tagsRaced, tmpRaced>>
  BY DEF pointer
<1>2. /\ installs' \in [Installers -> InstType]
      /\ \A j \in Installers : /\ installs'[j].tag = installs[j].tag
                               /\ installs'[j].asset = installs[j].asset
                               /\ installs'[j].at = IF j = i THEN s ELSE installs[j].at
      /\ \A j \in Installers : j # i => installs'[j] = installs[j]
  BY InstallsType, InstGoFacts DEF InstSteps
<1>3. InstTypeOK'
  BY <1>1, <1>2 DEF InstIInv, InstTypeOK, InstType, InstSteps
<1>4. Busy'
  BY <1>1, <1>2 DEF InstIInv, Busy, InstAt, Tag, NoInstall
<1>5. TagsAreTold'
  BY <1>1, <1>2 DEF InstIInv, TagsAreTold, Tag, NoInstall
<1>6. ReceiptsTell'
  BY <1>1, <1>2 DEF InstIInv, ReceiptsTell
<1>7. Progress'
  BY <1>1, <1>2 DEF InstIInv, Progress, Installed, Release, InstAt, Tag, NoInstall
<1>8. TmpIsTold'
  BY <1>1, <1>2 DEF InstIInv, TmpIsTold, AtTmp, InstAt, NoInstall, AtTmp
<1>9. InstalledIfAny(current)'
  BY <1>1, <1>2 DEF InstIInv, InstalledIfAny, Installed, NoRelease, TornRelease
<1>10. InstalledIfAny(currentTmp)'
  BY <1>1, <1>2 DEF InstIInv, InstalledIfAny, Installed, NoRelease, TornRelease
<1> QED
  BY <1>3, <1>4, <1>5, <1>6, <1>7, <1>8, <1>9, <1>10 DEF InstIInv

LEMMA LookForReceiptIInv == ASSUME InstIInv, NEW i \in Installers, LookForReceipt(i) PROVE InstIInv'
<1>1. InstAt(i, "look") /\ ~ InstAt(i, "idle") /\ ~ AtTmp(i)
      /\ UNCHANGED <<tagDirs, tagReceipts, pointer, tagsRaced>>
  BY DEF LookForReceipt, InstAt, AtTmp
<1>2. CASE InstEnd(i)
  BY <1>1, <1>2, InstEndIInv
<1>3. CASE InstGo(i, "stage")
  BY <1>1, <1>3, InstMoveIInv
<1>4. CASE /\ InstGo(i, "point") /\ tagReceipts[Tag(i)] = installs[i].asset
           /\ tagDirs[Tag(i)] # Nothing
  <2>1. Tag(i) \in Tags /\ installs[i].asset \in Assets
    BY <1>1 DEF InstIInv, Busy
  <2>2. Installed(Release(i))
    BY <1>4, <2>1 DEF InstIInv, ReceiptsTell, Installed, Release
  <2> QED
    BY <1>1, <1>4, <2>2, InstMoveIInv
<1> QED
  BY <1>2, <1>3, <1>4 DEF LookForReceipt

LEMMA StageArchiveIInv ==
    ASSUME InstIInv, NEW i \in Installers, NEW sound \in BOOLEAN, StageArchive(i, sound)
    PROVE  InstIInv'
<1>1. ~ InstAt(i, "idle") /\ ~ AtTmp(i) /\ UNCHANGED <<tagDirs, tagReceipts, pointer, tagsRaced>>
  BY DEF StageArchive, InstAt, AtTmp
<1>2. InstEnd(i) \/ InstGo(i, "check")
  BY DEF StageArchive
<1> QED
  BY <1>1, <1>2, InstEndIInv, InstMoveIInv

LEMMA CheckTagDirIInv == ASSUME InstIInv, NEW i \in Installers, CheckTagDir(i) PROVE InstIInv'
<1>1. ~ InstAt(i, "idle") /\ ~ AtTmp(i) /\ UNCHANGED <<tagDirs, tagReceipts, pointer, tagsRaced>>
  BY DEF CheckTagDir, InstAt, AtTmp
<1>2. InstEnd(i) \/ (InstGo(i, "move") /\ tagDirs[Tag(i)] = Nothing)
  BY DEF CheckTagDir
<1> QED
  BY <1>1, <1>2, InstEndIInv, InstMoveIInv

LEMMA MoveToTagIInv ==
    ASSUME InstIInv, NEW i \in Installers, MoveToTag(i)
    PROVE  InstIInv'
<1> USE InstallerAssumption
<1>1. /\ InstAt(i, "move")
      /\ tagDirs' = [tagDirs EXCEPT ![Tag(i)] = IF @ = Nothing THEN installs[i].asset ELSE @]
      /\ UNCHANGED <<tagReceipts, current, currentTmp, tagsRaced, tmpRaced>>
  BY DEF MoveToTag, pointer
<1>2. /\ installs' \in [Installers -> InstType]
      /\ \A j \in Installers : /\ installs'[j].tag = installs[j].tag
                               /\ installs'[j].asset = installs[j].asset
                               /\ installs'[j].at = IF j = i THEN "receipt" ELSE installs[j].at
      /\ \A j \in Installers : j # i => installs'[j] = installs[j]
  BY InstallsType, InstGoFacts DEF MoveToTag, InstSteps
<1>3. /\ Tag(i) \in Tags /\ installs[i].asset \in Assets
      /\ tagDirs' \in [Tags -> Assets \cup {Nothing}] /\ tagDirs'[Tag(i)] # Nothing
      /\ Tag(i) \notin tagsRaced => tagDirs[Tag(i)] = Nothing /\ tagDirs'[Tag(i)] = installs[i].asset
      /\ \A t \in Tags : tagDirs[t] # Nothing => tagDirs'[t] = tagDirs[t]
      /\ \A t \in Tags : t # Tag(i) => tagDirs'[t] = tagDirs[t]
      /\ \A j \in Installers : j # i /\ Tag(j) = Tag(i) => Tag(i) \in tagsRaced
  BY <1>1 DEF InstIInv, Busy, InstTypeOK, Progress, InstAt, TagsAreTold
<1>4. InstTypeOK'
  BY <1>1, <1>2, <1>3 DEF InstIInv, InstTypeOK, InstType, InstSteps
<1>5. Busy'
  BY <1>1, <1>2, <1>3 DEF InstIInv, Busy, InstAt, Tag, NoInstall
<1>6. TagsAreTold'
  BY <1>1, <1>2, <1>3 DEF InstIInv, TagsAreTold, Tag, NoInstall
<1>7. ReceiptsTell'
  BY <1>1, <1>2, <1>3 DEF InstIInv, ReceiptsTell
<1>8. Progress'
  BY <1>1, <1>2, <1>3 DEF InstIInv, Progress, Installed, Release, InstAt, Tag, NoInstall, InstalledIfAny, InstTypeOK, Releases, NoRelease, TornRelease
<1>9. TmpIsTold'
  BY <1>1, <1>2, <1>3 DEF InstIInv, TmpIsTold, AtTmp, InstAt, NoInstall
<1>10. InstalledIfAny(current)'
  BY <1>1, <1>2, <1>3 DEF InstIInv, InstalledIfAny, Installed, NoRelease, TornRelease
<1>11. InstalledIfAny(currentTmp)'
  BY <1>1, <1>2, <1>3 DEF InstIInv, InstalledIfAny, Installed, NoRelease, TornRelease
<1> QED
  BY <1>4, <1>5, <1>6, <1>7, <1>8, <1>9, <1>10, <1>11 DEF InstIInv

LEMMA OpenInstallReceiptIInv ==
    ASSUME InstIInv, NEW i \in Installers, OpenInstallReceipt(i)
    PROVE  InstIInv'
<1> USE InstallerAssumption
<1>1. /\ InstAt(i, "receipt")
      /\ tagReceipts' = [tagReceipts EXCEPT ![Tag(i)] = Torn]
      /\ UNCHANGED <<tagDirs, current, currentTmp, tagsRaced, tmpRaced>>
  BY DEF OpenInstallReceipt, pointer
<1>2. /\ installs' \in [Installers -> InstType]
      /\ \A j \in Installers : /\ installs'[j].tag = installs[j].tag
                               /\ installs'[j].asset = installs[j].asset
                               /\ installs'[j].at = IF j = i THEN "written" ELSE installs[j].at
      /\ \A j \in Installers : j # i => installs'[j] = installs[j]
  BY InstallsType, InstGoFacts DEF OpenInstallReceipt, InstSteps
<1>3. /\ Tag(i) \in Tags /\ installs[i].asset \in Assets
      /\ tagReceipts' \in [Tags -> Assets \cup {Nothing, Torn}] /\ tagReceipts'[Tag(i)] = Torn
      /\ \A t \in Tags : t # Tag(i) => tagReceipts'[t] = tagReceipts[t]
      /\ \A j \in Installers : j # i /\ Tag(j) = Tag(i) => Tag(i) \in tagsRaced
  BY <1>1 DEF InstIInv, Busy, InstTypeOK, InstAt, TagsAreTold
<1>4. InstTypeOK'
  BY <1>1, <1>2, <1>3 DEF InstIInv, InstTypeOK, InstType, InstSteps
<1>5. Busy'
  BY <1>1, <1>2, <1>3 DEF InstIInv, Busy, InstAt, Tag, NoInstall
<1>6. TagsAreTold'
  BY <1>1, <1>2, <1>3 DEF InstIInv, TagsAreTold, Tag, NoInstall
<1>7. ReceiptsTell'
  BY <1>1, <1>2, <1>3 DEF InstIInv, ReceiptsTell, Progress, InstAt
<1>8. Progress'
  BY <1>1, <1>2, <1>3 DEF InstIInv, Progress, Installed, Release, InstAt, Tag, NoInstall
<1>9. TmpIsTold'
  BY <1>1, <1>2, <1>3 DEF InstIInv, TmpIsTold, AtTmp, InstAt, NoInstall
<1>10. InstalledIfAny(current)'
  BY <1>1, <1>2, <1>3 DEF InstIInv, InstalledIfAny, Installed, NoRelease, TornRelease, Progress, InstAt, InstTypeOK, Releases
<1>11. InstalledIfAny(currentTmp)'
  BY <1>1, <1>2, <1>3 DEF InstIInv, InstalledIfAny, Installed, NoRelease, TornRelease, Progress, InstAt, InstTypeOK, Releases
<1> QED
  BY <1>4, <1>5, <1>6, <1>7, <1>8, <1>9, <1>10, <1>11 DEF InstIInv

LEMMA WriteInstallReceiptIInv ==
    ASSUME InstIInv, NEW i \in Installers, WriteInstallReceipt(i)
    PROVE  InstIInv'
<1> USE InstallerAssumption
<1>1. /\ InstAt(i, "written")
      /\ tagReceipts' = [tagReceipts EXCEPT ![Tag(i)] = installs[i].asset]
      /\ UNCHANGED <<tagDirs, current, currentTmp, tagsRaced, tmpRaced>>
  BY DEF WriteInstallReceipt, pointer
<1>2. /\ installs' \in [Installers -> InstType]
      /\ \A j \in Installers : /\ installs'[j].tag = installs[j].tag
                               /\ installs'[j].asset = installs[j].asset
                               /\ installs'[j].at = IF j = i THEN "point" ELSE installs[j].at
      /\ \A j \in Installers : j # i => installs'[j] = installs[j]
  BY InstallsType, InstGoFacts DEF WriteInstallReceipt, InstSteps
<1>3. /\ Tag(i) \in Tags /\ installs[i].asset \in Assets
      /\ tagReceipts' \in [Tags -> Assets \cup {Nothing, Torn}] /\ tagReceipts'[Tag(i)] = installs[i].asset
      /\ \A t \in Tags : t # Tag(i) => tagReceipts'[t] = tagReceipts[t]
      /\ \A j \in Installers : j # i /\ Tag(j) = Tag(i) => Tag(i) \in tagsRaced
  BY <1>1 DEF InstIInv, Busy, InstTypeOK, InstAt, TagsAreTold
<1>4. InstTypeOK'
  BY <1>1, <1>2, <1>3 DEF InstIInv, InstTypeOK, InstType, InstSteps
<1>5. Busy'
  BY <1>1, <1>2, <1>3 DEF InstIInv, Busy, InstAt, Tag, NoInstall
<1>6. TagsAreTold'
  BY <1>1, <1>2, <1>3 DEF InstIInv, TagsAreTold, Tag, NoInstall
<1>7. ReceiptsTell'
  BY <1>1, <1>2, <1>3 DEF InstIInv, ReceiptsTell, Progress, InstAt
<1>8. Progress'
  BY <1>1, <1>2, <1>3 DEF InstIInv, Progress, Installed, Release, InstAt, Tag, NoInstall
<1>9. TmpIsTold'
  BY <1>1, <1>2, <1>3 DEF InstIInv, TmpIsTold, AtTmp, InstAt, NoInstall
<1>10. InstalledIfAny(current)'
  BY <1>1, <1>2, <1>3 DEF InstIInv, InstalledIfAny, Installed, NoRelease, TornRelease, Progress, InstAt, InstTypeOK, Releases
<1>11. InstalledIfAny(currentTmp)'
  BY <1>1, <1>2, <1>3 DEF InstIInv, InstalledIfAny, Installed, NoRelease, TornRelease, Progress, InstAt, InstTypeOK, Releases
<1> QED
  BY <1>4, <1>5, <1>6, <1>7, <1>8, <1>9, <1>10, <1>11 DEF InstIInv

LEMMA OpenTmpIInv ==
    ASSUME InstIInv, NEW i \in Installers, OpenTmp(i)
    PROVE  InstIInv'
<1> USE InstallerAssumption
<1>1. /\ InstAt(i, "point") /\ currentTmp' = TornRelease
      /\ tmpRaced' = (tmpRaced \/ \E j \in Installers \ {i} : AtTmp(j))
      /\ UNCHANGED <<tagDirs, tagReceipts, current, tagsRaced>>
  BY DEF OpenTmp, pointer
<1>2. /\ installs' \in [Installers -> InstType]
      /\ \A j \in Installers : /\ installs'[j].tag = installs[j].tag
                               /\ installs'[j].asset = installs[j].asset
                               /\ installs'[j].at = IF j = i THEN "fill" ELSE installs[j].at
      /\ \A j \in Installers : j # i => installs'[j] = installs[j]
  BY InstallsType, InstGoFacts DEF OpenTmp, InstSteps
<1>3. tmpRaced' \in BOOLEAN /\ (~ tmpRaced' => ~ tmpRaced /\ \A j \in Installers \ {i} : ~ AtTmp(j))
  BY <1>1 DEF InstIInv, InstTypeOK
<1>4. InstTypeOK'
  BY <1>1, <1>2, <1>3 DEF InstIInv, InstTypeOK, InstType, InstSteps
<1>5. Busy'
  BY <1>1, <1>2, <1>3 DEF InstIInv, Busy, InstAt, Tag, NoInstall
<1>6. TagsAreTold'
  BY <1>1, <1>2, <1>3 DEF InstIInv, TagsAreTold, Tag, NoInstall
<1>7. ReceiptsTell'
  BY <1>1, <1>2, <1>3 DEF InstIInv, ReceiptsTell
<1>8. Progress'
  BY <1>1, <1>2, <1>3 DEF InstIInv, Progress, Installed, Release, InstAt, Tag, NoInstall, TornRelease, Busy
<1>9. TmpIsTold'
  BY <1>1, <1>2, <1>3 DEF InstIInv, TmpIsTold, AtTmp, InstAt, NoInstall
<1>10. InstalledIfAny(current)'
  BY <1>1, <1>2, <1>3 DEF InstIInv, InstalledIfAny, Installed, NoRelease, TornRelease
<1>11. InstalledIfAny(currentTmp)'
  BY <1>1, <1>2, <1>3 DEF InstIInv, InstalledIfAny, Installed, NoRelease, TornRelease
<1> QED
  BY <1>4, <1>5, <1>6, <1>7, <1>8, <1>9, <1>10, <1>11 DEF InstIInv

LEMMA FillTmpIInv ==
    ASSUME InstIInv, NEW i \in Installers, NEW torn \in BOOLEAN, FillTmp(i, torn)
    PROVE  InstIInv'
<1> USE InstallerAssumption
<1>1. /\ InstAt(i, "fill") /\ (torn => currentTmp # TornRelease)
      /\ currentTmp' = IF torn THEN TornRelease ELSE Release(i)
      /\ UNCHANGED <<tagDirs, tagReceipts, current, tagsRaced, tmpRaced>>
  BY DEF FillTmp, pointer
<1>2. /\ installs' \in [Installers -> InstType]
      /\ \A j \in Installers : /\ installs'[j].tag = installs[j].tag
                               /\ installs'[j].asset = installs[j].asset
                               /\ installs'[j].at = IF j = i THEN "replace" ELSE installs[j].at
      /\ \A j \in Installers : j # i => installs'[j] = installs[j]
  BY InstallsType, InstGoFacts DEF FillTmp, InstSteps
<1>3. /\ Release(i) \in Releases /\ Release(i) # TornRelease
      /\ Tag(i) \in Tags /\ Release(i).tag = Tag(i) /\ Installed(Release(i))
      /\ \A j \in Installers : j # i /\ Tag(j) = Tag(i) => Tag(i) \in tagsRaced
  BY <1>1 DEF InstIInv, Busy, InstAt, Release, Releases, TornRelease, Progress, TagsAreTold
<1>4. InstTypeOK'
  BY <1>1, <1>2, <1>3 DEF InstIInv, InstTypeOK, InstType, InstSteps, Releases
<1>5. Busy'
  BY <1>1, <1>2, <1>3 DEF InstIInv, Busy, InstAt, Tag, NoInstall
<1>6. TagsAreTold'
  BY <1>1, <1>2, <1>3 DEF InstIInv, TagsAreTold, Tag, NoInstall
<1>7. ReceiptsTell'
  BY <1>1, <1>2, <1>3 DEF InstIInv, ReceiptsTell
<1>8. Progress'
  BY <1>1, <1>2, <1>3 DEF InstIInv, Progress, Installed, Release, InstAt, Tag, NoInstall, TornRelease, Busy, TagsAreTold
<1>9. TmpIsTold'
  BY <1>1, <1>2, <1>3 DEF InstIInv, TmpIsTold, AtTmp, InstAt, NoInstall, TornRelease
<1>10. InstalledIfAny(current)'
  BY <1>1, <1>2, <1>3 DEF InstIInv, InstalledIfAny, Installed, NoRelease, TornRelease
<1>11. InstalledIfAny(currentTmp)'
  BY <1>1, <1>2, <1>3 DEF InstIInv, InstalledIfAny, Installed, NoRelease, TornRelease, Progress, InstAt
<1> QED
  BY <1>4, <1>5, <1>6, <1>7, <1>8, <1>9, <1>10, <1>11 DEF InstIInv

LEMMA FollowTmpIInv ==
    ASSUME InstIInv, NEW i \in Installers, NEW torn \in BOOLEAN, FollowTmp(i, torn)
    PROVE  InstIInv'
<1> USE InstallerAssumption
<1>1. /\ InstAt(i, "follow")
      /\ current' = IF torn THEN TornRelease ELSE Release(i)
      /\ UNCHANGED <<tagDirs, tagReceipts, currentTmp, tagsRaced, tmpRaced>>
  BY DEF FollowTmp, pointer
<1>2. /\ installs' \in [Installers -> InstType]
      /\ \A j \in Installers : /\ installs'[j].tag = installs[j].tag
                               /\ installs'[j].asset = installs[j].asset
                               /\ installs'[j].at = IF j = i THEN "replace" ELSE installs[j].at
      /\ \A j \in Installers : j # i => installs'[j] = installs[j]
  BY InstallsType, InstGoFacts DEF FollowTmp, InstSteps
<1>3. /\ Release(i) \in Releases /\ Release(i) # TornRelease
      /\ Tag(i) \in Tags /\ Release(i).tag = Tag(i) /\ Installed(Release(i))
      /\ \A j \in Installers : j # i /\ Tag(j) = Tag(i) => Tag(i) \in tagsRaced
  BY <1>1 DEF InstIInv, Busy, InstAt, Release, Releases, TornRelease, Progress, TagsAreTold
<1>4. InstTypeOK'
  BY <1>1, <1>2, <1>3 DEF InstIInv, InstTypeOK, InstType, InstSteps, Releases
<1>5. Busy'
  BY <1>1, <1>2, <1>3 DEF InstIInv, Busy, InstAt, Tag, NoInstall
<1>6. TagsAreTold'
  BY <1>1, <1>2, <1>3 DEF InstIInv, TagsAreTold, Tag, NoInstall
<1>7. ReceiptsTell'
  BY <1>1, <1>2, <1>3 DEF InstIInv, ReceiptsTell
<1>8. Progress'
  BY <1>1, <1>2, <1>3 DEF InstIInv, Progress, Installed, Release, InstAt, Tag, NoInstall, TornRelease, Busy, TagsAreTold
<1>9. TmpIsTold'
  BY <1>1, <1>2, <1>3 DEF InstIInv, TmpIsTold, AtTmp, InstAt, NoInstall, TornRelease
<1>10. InstalledIfAny(current)'
  BY <1>1, <1>2, <1>3 DEF InstIInv, InstalledIfAny, Installed, NoRelease, TornRelease, Progress, InstAt
<1>11. InstalledIfAny(currentTmp)'
  BY <1>1, <1>2, <1>3 DEF InstIInv, InstalledIfAny, Installed, NoRelease, TornRelease
<1> QED
  BY <1>4, <1>5, <1>6, <1>7, <1>8, <1>9, <1>10, <1>11 DEF InstIInv

LEMMA PointCurrentIInv == ASSUME InstIInv, NEW i \in Installers, PointCurrent(i) PROVE InstIInv'
<1> USE InstallerAssumption
<1>1. /\ InstAt(i, "replace")
      /\ current' = IF currentTmp = NoRelease THEN current ELSE currentTmp
      /\ currentTmp' = NoRelease
      /\ UNCHANGED <<tagDirs, tagReceipts, tagsRaced, tmpRaced>>
  BY DEF PointCurrent
<1>2. /\ installs' \in [Installers -> InstType]
      /\ installs'[i] = NoInstall
      /\ \A j \in Installers : j # i =>
             /\ installs'[j].tag = installs[j].tag /\ installs'[j].asset = installs[j].asset
             /\ installs'[j].at = IF InstAt(j, "fill") THEN "follow" ELSE installs[j].at
  BY InstallsType DEF PointCurrent, InstType, InstSteps, NoInstall, InstAt
<1>3. TornRelease # NoRelease
  BY DEF TornRelease, NoRelease, Torn, Nothing
<1>4. InstTypeOK'
  BY <1>1, <1>2, <1>3 DEF InstIInv, InstTypeOK, InstType, InstSteps, NoRelease
<1>5. Busy'
  BY <1>1, <1>2, <1>3 DEF InstIInv, Busy, InstAt, Tag, NoInstall, InstType
<1>6. TagsAreTold'
  BY <1>1, <1>2, <1>3 DEF InstIInv, TagsAreTold, Tag, NoInstall
<1>7. ReceiptsTell'
  BY <1>1, <1>2, <1>3 DEF InstIInv, ReceiptsTell
<1>8. Progress'
  BY <1>1, <1>2, <1>3 DEF InstIInv, Progress, Installed, Release, InstAt, Tag, NoInstall, NoRelease, Busy
<1>9. TmpIsTold'
  BY <1>1, <1>2, <1>3 DEF InstIInv, TmpIsTold, AtTmp, InstAt, NoInstall, TornRelease, NoRelease
<1>10. InstalledIfAny(current)'
  BY <1>1, <1>2, <1>3 DEF InstIInv, InstalledIfAny, Installed, NoRelease, TornRelease
<1>11. InstalledIfAny(currentTmp)'
  BY <1>1, <1>2, <1>3 DEF InstIInv, InstalledIfAny, Installed, NoRelease, TornRelease
<1> QED
  BY <1>4, <1>5, <1>6, <1>7, <1>8, <1>9, <1>10, <1>11 DEF InstIInv

LEMMA InstInitIInv == ASSUME InstInit PROVE InstIInv
<1> USE InstallerAssumption
<1>1. InstTypeOK
  BY DEF InstInit, InstTypeOK, NoInstall
<1>2. \A i \in Installers : installs[i] = NoInstall
  BY DEF InstInit
<1>3. Busy /\ TagsAreTold /\ Progress
  BY <1>2 DEF Busy, TagsAreTold, Progress, InstAt, Tag, NoInstall
<1>4. ReceiptsTell
  BY DEF InstInit, ReceiptsTell
<1>5. TmpIsTold
  BY <1>2 DEF InstInit, TmpIsTold, AtTmp, InstAt, NoInstall, NoRelease, TornRelease, Nothing, Torn
<1> QED
  BY <1>1, <1>3, <1>4, <1>5 DEF InstInit, InstIInv, InstalledIfAny

LEMMA InstStutterIInv == ASSUME InstIInv, UNCHANGED instVars PROVE InstIInv'
<1>1. UNCHANGED <<tagDirs, tagReceipts, current, currentTmp, installs, tagsRaced, tmpRaced>>
  BY DEF instVars, pointer
<1>2. InstTypeOK'
  BY <1>1 DEF InstIInv, InstTypeOK, InstType, InstSteps
<1>3. Busy'
  BY <1>1 DEF InstIInv, Busy, InstAt, Tag, NoInstall
<1>4. TagsAreTold'
  BY <1>1 DEF InstIInv, TagsAreTold, Tag, NoInstall
<1>5. ReceiptsTell'
  BY <1>1 DEF InstIInv, ReceiptsTell
<1>6. Progress'
  BY <1>1 DEF InstIInv, Progress, Installed, Release, InstAt, Tag, NoInstall
<1>7. TmpIsTold'
  BY <1>1 DEF InstIInv, TmpIsTold, AtTmp, InstAt, NoInstall
<1>8. InstalledIfAny(current)'
  BY <1>1 DEF InstIInv, InstalledIfAny, Installed, NoRelease, TornRelease
<1>9. InstalledIfAny(currentTmp)'
  BY <1>1 DEF InstIInv, InstalledIfAny, Installed, NoRelease, TornRelease
<1> QED
  BY <1>2, <1>3, <1>4, <1>5, <1>6, <1>7, <1>8, <1>9 DEF InstIInv

LEMMA InstInvariant == InstSpec => []InstIInv
<1>1. InstInit => InstIInv
  BY InstInitIInv
<1>2. InstIInv /\ [InstNext]_instVars => InstIInv'
  <2>1. ASSUME InstIInv, NEW i \in Installers, KillInstall(i) PROVE InstIInv'
    BY <2>1, InstEndIInv DEF KillInstall
  <2> QED
    BY <2>1, DiscoverIInv, LookForReceiptIInv, StageArchiveIInv, CheckTagDirIInv, MoveToTagIInv,
       OpenInstallReceiptIInv, WriteInstallReceiptIInv, OpenTmpIInv, FillTmpIInv, FollowTmpIInv,
       PointCurrentIInv, InstStutterIInv DEF InstNext
<1> QED
  BY <1>1, <1>2, PTL DEF InstSpec

\* current.json, from which the llama.cpp provider starts its server, names a
\* release that is installed, however many installers run at once and wherever
\* they die (turboquant_backend.py: install, _write_current).
THEOREM CurrentStaysInstalled == InstSpec => []CurrentIsInstalled
<1>1. InstIInv => CurrentIsInstalled
  BY DEF InstIInv, TmpIsTold, InstalledIfAny, Installed, CurrentIsInstalled, InstTypeOK
<1> QED
  BY <1>1, InstInvariant, PTL

(***************************************************************************)
(* The model cache.                                                        *)
(***************************************************************************)
OpType == [at : CacheSteps, art : Artifacts, from : 0 .. Size,
           fd : {"none", "part", "object", "unlinked"}]

Active(p) == ~ At(p, "idle")

\* Two operations on one digest are noticed, and two uses of one part are two
\* operations on its digest.
OverlapsAreTold ==
    /\ \A p, q \in CacheProcs : p # q /\ Active(p) /\ Active(q) /\ Sha(p) = Sha(q) => Sha(p) \in overlapped
    /\ \A p, q \in CacheProcs : p # q /\ UsesPart(p) /\ UsesPart(q) /\ Sha(p) = Sha(q) => Sha(p) \in sharedPart
    /\ sharedPart \subseteq overlapped

\* A handle is open only during a copy, on the part unless that was shared.
HandlesAreOnParts ==
    \A p \in CacheProcs :
        /\ cacheOps[p].fd # "none" => At(p, "copy")
        /\ At(p, "copy") /\ Sha(p) \notin sharedPart => cacheOps[p].fd = "part"

\* What an operation has found out and still holds, unless it was overlapped.
OpsKnow ==
    \A p \in CacheProcs :
        /\ At(p, "publish") /\ Sha(p) \notin sharedPart => cacheParts[Sha(p)] = RightFile
        /\ At(p, "refer") /\ Sha(p) \notin damaged \cup overlapped => cacheObjects[Sha(p)] = RightFile
        /\ At(p, "drop") => Sha(p) \in damaged \cup overlapped
        /\ At(p, "unlink") /\ Sha(p) \notin overlapped => \A a \in cacheRefs : ShaOf[a] # Sha(p)

CacheIInv == CacheTypeOK /\ OverlapsAreTold /\ HandlesAreOnParts /\ OpsKnow /\ CacheIsSound

LEMMA OpsType == ASSUME CacheIInv PROVE cacheOps \in [CacheProcs -> OpType]
BY DEF CacheIInv, CacheTypeOK, OpType

LEMMA CacheGoFacts ==
    ASSUME cacheOps \in [CacheProcs -> OpType], NEW p \in CacheProcs, NEW s \in CacheSteps, Go(p, s)
    PROVE  /\ cacheOps' \in [CacheProcs -> OpType]
           /\ \A q \in CacheProcs : cacheOps'[q].art = cacheOps[q].art /\ cacheOps'[q].fd = cacheOps[q].fd
           /\ cacheOps'[p].at = s
           /\ \A q \in CacheProcs : q # p => cacheOps'[q] = cacheOps[q]
BY DEF Go, OpType

LEMMA CacheEndFacts ==
    ASSUME cacheOps \in [CacheProcs -> OpType], NEW p \in CacheProcs, EndOp(p)
    PROVE  /\ cacheOps' \in [CacheProcs -> OpType]
           /\ \A q \in CacheProcs : cacheOps'[q].art = cacheOps[q].art
           /\ cacheOps'[p].at = "idle" /\ cacheOps'[p].fd = "none"
           /\ \A q \in CacheProcs : q # p => cacheOps'[q] = cacheOps[q]
BY CacheAssumption DEF EndOp, OpType, NoOp, CacheSteps

LEMMA ShaType == ASSUME CacheIInv, NEW p \in CacheProcs PROVE Sha(p) \in Shas
BY CacheAssumption, OpsType DEF Sha, OpType

LEMMA StartOpIInv ==
    ASSUME CacheIInv, NEW p \in CacheProcs, NEW a \in Artifacts, NEW s \in {"look", "unref"}, StartOp(p, a, s)
    PROVE  CacheIInv'
<1>1. /\ cacheOps' \in [CacheProcs -> OpType]
      /\ cacheOps'[p].at = s /\ cacheOps'[p].art = a /\ cacheOps'[p].fd = "none"
      /\ \A q \in CacheProcs : q # p => cacheOps'[q] = cacheOps[q]
  BY OpsType, CacheAssumption DEF StartOp, OpType, NoOp, CacheSteps
<1>2. /\ At(p, "idle") /\ UNCHANGED <<cacheObjects, cacheParts, cacheRefs, damaged, sharedPart>>
      /\ overlapped \subseteq overlapped' /\ overlapped' \subseteq Shas
      /\ (\E q \in CacheProcs \ {p} : ~At(q, "idle") /\ Sha(q) = ShaOf[a]) => ShaOf[a] \in overlapped'
  BY CacheAssumption DEF StartOp, CacheIInv, CacheTypeOK
<1>3. CacheTypeOK'
  BY <1>1, <1>2 DEF CacheIInv, CacheTypeOK, OpType, CacheFiles, NoFile, EmptyFile
<1>4. OverlapsAreTold'
  BY <1>1, <1>2 DEF CacheIInv, OverlapsAreTold, Active, At, Sha, UsesPart
<1>5. HandlesAreOnParts'
  BY <1>1, <1>2 DEF CacheIInv, HandlesAreOnParts, At, Sha
<1>6. OpsKnow'
  BY <1>1, <1>2 DEF CacheIInv, OpsKnow, At, Sha
<1>7. RefsResolve'
  BY <1>1, <1>2 DEF CacheIInv, CacheIsSound, RefsResolve
<1>8. ObjectsAreRight'
  BY <1>1, <1>2 DEF CacheIInv, CacheIsSound, ObjectsAreRight
<1> QED
  BY <1>3, <1>4, <1>5, <1>6, <1>7, <1>8 DEF CacheIInv, CacheIsSound

\* An operation that ends leaves everything else as it is.
LEMMA EndOpIInv ==
    ASSUME CacheIInv, NEW p \in CacheProcs, EndOp(p),
           UNCHANGED <<cacheObjects, cacheParts, cacheRefs, cacheHistory>>
    PROVE  CacheIInv'
<1>1. UNCHANGED <<cacheObjects, cacheParts, cacheRefs, damaged, overlapped, sharedPart>>
  BY DEF cacheHistory
<1>2. /\ cacheOps' \in [CacheProcs -> OpType]
      /\ \A q \in CacheProcs : cacheOps'[q].art = cacheOps[q].art
      /\ cacheOps'[p].at = "idle" /\ cacheOps'[p].fd = "none"
      /\ \A q \in CacheProcs : q # p => cacheOps'[q] = cacheOps[q]
  BY OpsType, CacheEndFacts
<1>3. CacheTypeOK'
  BY <1>1, <1>2 DEF CacheIInv, CacheTypeOK, OpType, CacheFiles, NoFile, EmptyFile
<1>4. OverlapsAreTold'
  BY <1>1, <1>2 DEF CacheIInv, OverlapsAreTold, Active, At, Sha, UsesPart
<1>5. HandlesAreOnParts'
  BY <1>1, <1>2 DEF CacheIInv, HandlesAreOnParts, At, Sha
<1>6. OpsKnow'
  BY <1>1, <1>2 DEF CacheIInv, OpsKnow, At, Sha
<1>7. RefsResolve'
  BY <1>1, <1>2 DEF CacheIInv, CacheIsSound, RefsResolve
<1>8. ObjectsAreRight'
  BY <1>1, <1>2 DEF CacheIInv, CacheIsSound, ObjectsAreRight
<1> QED
  BY <1>3, <1>4, <1>5, <1>6, <1>7, <1>8 DEF CacheIInv, CacheIsSound

\* A step that only goes on with what it has found out.
LEMMA GoIInv ==
    ASSUME CacheIInv, NEW p \in CacheProcs, Active(p), ~ At(p, "copy"),
           NEW s \in {"refer", "open", "drop", "publish", "orphan", "unlink"}, Go(p, s),
           s = "publish" => UsesPart(p) /\ cacheParts[Sha(p)] = RightFile,
           s = "refer" => cacheObjects[Sha(p)] = RightFile,
           s = "drop" => Sha(p) \in damaged \cup overlapped,
           s = "unlink" => \A a \in cacheRefs : ShaOf[a] # Sha(p),
           UNCHANGED <<cacheObjects, cacheParts, cacheRefs, cacheHistory>>
    PROVE  CacheIInv'
<1>1. UNCHANGED <<cacheObjects, cacheParts, cacheRefs, damaged, overlapped, sharedPart>>
  BY DEF cacheHistory
<1>2. /\ cacheOps' \in [CacheProcs -> OpType]
      /\ \A q \in CacheProcs : cacheOps'[q].art = cacheOps[q].art /\ cacheOps'[q].fd = cacheOps[q].fd
      /\ cacheOps'[p].at = s
      /\ \A q \in CacheProcs : q # p => cacheOps'[q] = cacheOps[q]
  BY OpsType, CacheGoFacts DEF CacheSteps
<1>3. CacheTypeOK'
  BY <1>1, <1>2 DEF CacheIInv, CacheTypeOK, OpType, CacheFiles, NoFile, EmptyFile
<1>4. OverlapsAreTold'
  BY <1>1, <1>2 DEF CacheIInv, OverlapsAreTold, Active, At, Sha, UsesPart
<1>5. HandlesAreOnParts'
  BY <1>1, <1>2 DEF CacheIInv, HandlesAreOnParts, At, Sha
<1>6. OpsKnow'
  BY <1>1, <1>2 DEF CacheIInv, OpsKnow, At, Sha
<1>7. RefsResolve'
  BY <1>1, <1>2 DEF CacheIInv, CacheIsSound, RefsResolve
<1>8. ObjectsAreRight'
  BY <1>1, <1>2 DEF CacheIInv, CacheIsSound, ObjectsAreRight
<1> QED
  BY <1>3, <1>4, <1>5, <1>6, <1>7, <1>8 DEF CacheIInv, CacheIsSound

LEMMA LookForObjectIInv == ASSUME CacheIInv, NEW p \in CacheProcs, LookForObject(p) PROVE CacheIInv'
<1>1. /\ Active(p) /\ ~ At(p, "copy") /\ Sha(p) \in Shas
      /\ UNCHANGED <<cacheObjects, cacheParts, cacheRefs, cacheHistory>>
  BY ShaType DEF LookForObject, Active, At
<1>2. CASE Go(p, "refer") /\ cacheObjects[Sha(p)] = RightFile
  BY <1>1, <1>2, GoIInv
<1>3. CASE Go(p, "open")
  BY <1>1, <1>3, GoIInv
<1>4. CASE Go(p, "drop") /\ cacheObjects[Sha(p)] \notin {RightFile, NoFile}
  <2>1. Sha(p) \in damaged \cup overlapped
    BY <1>1, <1>4 DEF CacheIInv, CacheIsSound, ObjectsAreRight, OverlapsAreTold
  <2> QED
    BY <1>1, <1>4, <2>1, GoIInv
<1> QED
  BY <1>2, <1>3, <1>4 DEF LookForObject

\* An object that goes away was wrong already, or nothing refers to it.
LEMMA ObjectGoneIInv ==
    ASSUME CacheIInv, NEW p \in CacheProcs, ~ At(p, "copy"), Active(p),
           \A a \in cacheRefs : ShaOf[a] # Sha(p) \/ Sha(p) \in damaged \cup overlapped,
           EndOp(p) \/ Go(p, "open"),
           cacheObjects' = [cacheObjects EXCEPT ![Sha(p)] = NoFile],
           UNCHANGED <<cacheParts, cacheRefs, cacheHistory>>
    PROVE  CacheIInv'
<1>1. UNCHANGED <<cacheParts, cacheRefs, damaged, overlapped, sharedPart>>
  BY DEF cacheHistory
<1>2. /\ cacheOps' \in [CacheProcs -> OpType]
      /\ \A q \in CacheProcs : cacheOps'[q].art = cacheOps[q].art
      /\ cacheOps'[p].at \in {"idle", "open"} /\ cacheOps'[p].fd \in {"none", cacheOps[p].fd}
      /\ \A q \in CacheProcs : q # p => cacheOps'[q] = cacheOps[q]
  <2>1. CASE EndOp(p)
    BY <2>1, OpsType, CacheEndFacts
  <2>2. CASE Go(p, "open")
    BY <2>2, OpsType, CacheGoFacts DEF CacheSteps
  <2> QED
    BY <2>1, <2>2
<1>3. /\ Sha(p) \in Shas /\ NoFile \in CacheFiles /\ cacheObjects \in [Shas -> CacheFiles]
      /\ cacheObjects' \in [Shas -> CacheFiles] /\ cacheObjects'[Sha(p)] = NoFile
      /\ \A s \in Shas : s # Sha(p) => cacheObjects'[s] = cacheObjects[s]
  <2>1. Sha(p) \in Shas /\ NoFile \in CacheFiles /\ cacheObjects \in [Shas -> CacheFiles]
    BY ShaType, CacheAssumption DEF CacheIInv, CacheTypeOK, CacheFiles, NoFile
  <2> QED
    BY <2>1
<1>4. \A q \in CacheProcs : q # p /\ Active(q) /\ Sha(q) = Sha(p) => Sha(q) \in overlapped
  BY DEF CacheIInv, OverlapsAreTold
<1>5. \A a \in cacheRefs : ShaOf[a] \in Shas
  BY CacheAssumption DEF CacheIInv, CacheTypeOK
<1>6. \A q \in CacheProcs : Sha(q) \in Shas
  BY ShaType
<1>7. CacheTypeOK'
  BY <1>1, <1>2, <1>3, <1>4, <1>5, <1>6 DEF CacheIInv, CacheTypeOK, OpType, CacheFiles, NoFile, EmptyFile
<1>8. OverlapsAreTold'
  BY <1>1, <1>2, <1>3, <1>4, <1>5, <1>6 DEF CacheIInv, OverlapsAreTold, Active, At, Sha, UsesPart
<1>9. HandlesAreOnParts'
  BY <1>1, <1>2, <1>3, <1>4, <1>5, <1>6 DEF CacheIInv, HandlesAreOnParts, At, Sha
<1>10. OpsKnow'
  BY <1>1, <1>2, <1>3, <1>4, <1>5, <1>6 DEF CacheIInv, OpsKnow, At, Sha, Active
<1>11. RefsResolve'
  BY <1>1, <1>2, <1>3, <1>4, <1>5, <1>6 DEF CacheIInv, CacheIsSound, RefsResolve
<1>12. ObjectsAreRight'
  BY <1>1, <1>2, <1>3, <1>4, <1>5, <1>6 DEF CacheIInv, CacheIsSound, ObjectsAreRight
<1> QED
  BY <1>7, <1>8, <1>9, <1>10, <1>11, <1>12 DEF CacheIInv, CacheIsSound

LEMMA DropObjectIInv == ASSUME CacheIInv, NEW p \in CacheProcs, DropObject(p) PROVE CacheIInv'
<1>1. /\ Active(p) /\ ~ At(p, "copy") /\ (EndOp(p) \/ Go(p, "open"))
      /\ cacheObjects' = [cacheObjects EXCEPT ![Sha(p)] = NoFile]
      /\ UNCHANGED <<cacheParts, cacheRefs, cacheHistory>>
  BY DEF DropObject, Active, At
<1>2. Sha(p) \in damaged \cup overlapped
  BY DEF DropObject, CacheIInv, OpsKnow
<1> QED
  BY <1>1, <1>2, ObjectGoneIInv

LEMMA UnlinkObjectIInv == ASSUME CacheIInv, NEW p \in CacheProcs, UnlinkObject(p) PROVE CacheIInv'
<1>1. /\ Active(p) /\ ~ At(p, "copy") /\ EndOp(p)
      /\ cacheObjects' = [cacheObjects EXCEPT ![Sha(p)] = NoFile]
      /\ UNCHANGED <<cacheParts, cacheRefs, cacheHistory>>
  BY DEF UnlinkObject, Active, At
<1>2. \A a \in cacheRefs : ShaOf[a] # Sha(p) \/ Sha(p) \in damaged \cup overlapped
  BY DEF UnlinkObject, CacheIInv, OpsKnow
<1> QED
  BY <1>1, <1>2, ObjectGoneIInv

LEMMA OpenPartFileIInv ==
    ASSUME CacheIInv, NEW p \in CacheProcs, NEW ignoresRange \in BOOLEAN, OpenPartFile(p, ignoresRange)
    PROVE  CacheIInv'
<1> DEFINE s == Sha(p)
           present == PartNow(s).blocks
           again == cacheParts[s].blocks > Size \/ (present > 0 /\ ignoresRange)
           file == IF again \/ cacheParts[s] = NoFile THEN EmptyFile ELSE cacheParts[s]
           moved == IF again THEN Moved(s, "unlinked") ELSE cacheOps
<1>1. /\ At(p, "open") /\ UNCHANGED <<cacheObjects, cacheRefs, damaged, overlapped>>
      /\ cacheParts' = [cacheParts EXCEPT ![s] = file]
      /\ cacheOps' = [moved EXCEPT ![p] =
             [at |-> "copy", art |-> cacheOps[p].art, from |-> file.blocks, fd |-> "part"]]
      /\ sharedPart' = IF \E q \in CacheProcs \ {p} : UsesPart(q) /\ Sha(q) = s
                       THEN sharedPart \cup {s} ELSE sharedPart
  BY DEF OpenPartFile
<1>2. /\ s \in Shas /\ cacheParts \in [Shas -> CacheFiles] /\ cacheOps \in [CacheProcs -> OpType]
      /\ \A q \in CacheProcs : Sha(q) \in Shas
  BY ShaType, OpsType DEF CacheIInv, CacheTypeOK
<1>3. file \in CacheFiles /\ file.blocks \in 0 .. Size
  <2>1. cacheParts[s] \in CacheFiles /\ EmptyFile \in CacheFiles /\ EmptyFile.blocks = 0
    BY <1>2, CacheAssumption DEF EmptyFile, CacheFiles
  <2>2. cacheParts[s].blocks \in Nat
    BY <2>1 DEF CacheFiles
  <2> QED
    BY <2>1, <2>2, CacheAssumption
<1> HIDE DEF file
<1>4. /\ moved \in [CacheProcs -> OpType]
      /\ \A q \in CacheProcs : /\ moved[q].at = cacheOps[q].at /\ moved[q].art = cacheOps[q].art
                               /\ moved[q].fd = cacheOps[q].fd \/
                                  (cacheOps[q].fd = "part" /\ Sha(q) = s /\ moved[q].fd = "unlinked")
  <2>1. \A q \in CacheProcs : cacheOps[q] \in OpType
    BY <1>2
  <2> HIDE DEF again
  <2>2. CASE again
    BY <1>2, <2>1, <2>2 DEF Moved, OpType
  <2>3. CASE ~ again
    BY <1>2, <2>3
  <2> QED
    BY <2>2, <2>3
<1> HIDE DEF moved
<1>5. /\ cacheOps' \in [CacheProcs -> OpType]
      /\ cacheOps'[p].at = "copy" /\ cacheOps'[p].fd = "part" /\ cacheOps'[p].art = cacheOps[p].art
      /\ \A q \in CacheProcs : q # p => cacheOps'[q] = moved[q]
  <2>1. [at |-> "copy", art |-> cacheOps[p].art, from |-> file.blocks, fd |-> "part"] \in OpType
    BY <1>2, <1>3 DEF OpType, CacheSteps
  <2> QED
    BY <1>1, <1>4, <2>1
<1>6. /\ \A q \in CacheProcs : cacheOps'[q].art = cacheOps[q].art
      /\ \A q \in CacheProcs : q # p => cacheOps'[q].at = cacheOps[q].at
      /\ \A q \in CacheProcs : q # p =>
             \/ cacheOps'[q].fd = cacheOps[q].fd
             \/ cacheOps[q].fd = "part" /\ Sha(q) = s
  BY <1>4, <1>5
<1>7. /\ cacheParts' \in [Shas -> CacheFiles]
      /\ \A x \in Shas : x # s => cacheParts'[x] = cacheParts[x]
  BY <1>1, <1>2, <1>3
<1> HIDE DEF s
<1>8. /\ sharedPart \subseteq sharedPart' /\ sharedPart' \subseteq Shas /\ sharedPart' \subseteq overlapped
      /\ \A q \in CacheProcs \ {p} : UsesPart(q) /\ Sha(q) = s => s \in sharedPart'
  BY <1>1, <1>2 DEF CacheIInv, CacheTypeOK, OverlapsAreTold, Active, At, UsesPart, s
<1>9. \A q \in CacheProcs \ {p} : cacheOps[q].fd = "part" => UsesPart(q)
  BY DEF CacheIInv, HandlesAreOnParts, At, UsesPart
<1>10. CacheTypeOK'
  BY <1>1, <1>2, <1>5, <1>6, <1>7, <1>8, <1>9 DEF CacheIInv, CacheTypeOK, OpType, CacheFiles, NoFile, EmptyFile
<1>11. OverlapsAreTold'
  BY <1>1, <1>2, <1>5, <1>6, <1>7, <1>8, <1>9 DEF CacheIInv, OverlapsAreTold, Active, At, Sha, UsesPart, s
<1>12. HandlesAreOnParts'
  BY <1>1, <1>2, <1>5, <1>6, <1>7, <1>8, <1>9 DEF CacheIInv, HandlesAreOnParts, At, Sha, s, UsesPart
<1>13. OpsKnow'
  BY <1>1, <1>2, <1>5, <1>6, <1>7, <1>8, <1>9 DEF CacheIInv, OpsKnow, At, Sha, s, UsesPart
<1>14. RefsResolve'
  BY <1>1, <1>2, <1>5, <1>6, <1>7, <1>8, <1>9 DEF CacheIInv, CacheIsSound, RefsResolve
<1>15. ObjectsAreRight'
  BY <1>1, <1>2, <1>5, <1>6, <1>7, <1>8, <1>9 DEF CacheIInv, CacheIsSound, ObjectsAreRight
<1> QED
  BY <1>10, <1>11, <1>12, <1>13, <1>14, <1>15 DEF CacheIInv, CacheIsSound

LEMMA CopyChunkIInv ==
    ASSUME CacheIInv, NEW p \in CacheProcs, NEW honest \in BOOLEAN, CopyChunk(p, honest)
    PROVE  CacheIInv'
<1> DEFINE s == Sha(p)
           from == cacheOps[p].from
<1>1. /\ At(p, "copy") /\ from < Size /\ UNCHANGED <<cacheRefs, damaged, overlapped, sharedPart>>
      /\ cacheParts[s].blocks < MaxPart /\ cacheObjects[s].blocks < MaxPart
      /\ cacheParts' = IF cacheOps[p].fd = "part"
                       THEN [cacheParts EXCEPT ![s] = Longer(cacheParts[s], from, honest)] ELSE cacheParts
      /\ cacheObjects' = IF cacheOps[p].fd = "object" /\ cacheObjects[s] # NoFile
                         THEN [cacheObjects EXCEPT ![s] = Longer(cacheObjects[s], from, honest)]
                         ELSE cacheObjects
      /\ cacheOps' = [cacheOps EXCEPT ![p].from = from + 1]
  BY DEF CopyChunk, cacheHistory
<1>2. /\ s \in Shas /\ cacheParts \in [Shas -> CacheFiles] /\ cacheObjects \in [Shas -> CacheFiles]
      /\ cacheOps \in [CacheProcs -> OpType] /\ \A q \in CacheProcs : Sha(q) \in Shas
      /\ from \in 0 .. Size
  BY ShaType, OpsType DEF CacheIInv, CacheTypeOK, OpType
<1>3. /\ cacheOps' \in [CacheProcs -> OpType]
      /\ \A q \in CacheProcs : /\ cacheOps'[q].at = cacheOps[q].at /\ cacheOps'[q].art = cacheOps[q].art
                               /\ cacheOps'[q].fd = cacheOps[q].fd
  BY <1>1, <1>2, CacheAssumption DEF OpType
<1> HIDE DEF s, from
<1>4. ASSUME NEW f \in CacheFiles, f.blocks < MaxPart PROVE Longer(f, from, honest) \in CacheFiles
  BY <1>4, CacheAssumption DEF Longer, CacheFiles
<1>5. cacheParts' \in [Shas -> CacheFiles] /\ cacheObjects' \in [Shas -> CacheFiles]
  BY <1>1, <1>2, <1>4
<1>6. /\ \A x \in Shas : x # s => cacheParts'[x] = cacheParts[x] /\ cacheObjects'[x] = cacheObjects[x]
      /\ s \notin sharedPart => cacheObjects' = cacheObjects
  BY <1>1, <1>2 DEF CacheIInv, HandlesAreOnParts, s
<1>7. \A q \in CacheProcs : q # p /\ UsesPart(q) /\ Sha(q) = s => s \in sharedPart
  BY <1>1 DEF CacheIInv, OverlapsAreTold, UsesPart, At, s
<1>8. sharedPart \subseteq overlapped /\ \A a \in cacheRefs : ShaOf[a] \in Shas
  BY CacheAssumption DEF CacheIInv, OverlapsAreTold, CacheTypeOK
<1>9. CacheTypeOK'
  BY <1>1, <1>2, <1>3, <1>5, <1>6, <1>7, <1>8 DEF CacheIInv, CacheTypeOK, OpType, CacheFiles, NoFile, EmptyFile
<1>10. OverlapsAreTold'
  BY <1>1, <1>2, <1>3, <1>5, <1>6, <1>7, <1>8 DEF CacheIInv, OverlapsAreTold, Active, At, Sha, UsesPart
<1>11. HandlesAreOnParts'
  BY <1>1, <1>2, <1>3, <1>5, <1>6, <1>7, <1>8 DEF CacheIInv, HandlesAreOnParts, At, Sha
<1>12. OpsKnow'
  BY <1>1, <1>2, <1>3, <1>5, <1>6, <1>7, <1>8 DEF CacheIInv, OpsKnow, At, Sha, UsesPart, s
<1>13. RefsResolve'
  BY <1>1, <1>2, <1>3, <1>5, <1>6, <1>7, <1>8 DEF CacheIInv, CacheIsSound, RefsResolve
<1>14. ObjectsAreRight'
  BY <1>1, <1>2, <1>3, <1>5, <1>6, <1>7, <1>8 DEF CacheIInv, CacheIsSound, ObjectsAreRight
<1> QED
  BY <1>9, <1>10, <1>11, <1>12, <1>13, <1>14 DEF CacheIInv, CacheIsSound

LEMMA EndCopyIInv == ASSUME CacheIInv, NEW p \in CacheProcs, EndCopy(p) PROVE CacheIInv'
<1>1. At(p, "copy") /\ UNCHANGED <<cacheObjects, cacheParts, cacheRefs, damaged, overlapped, sharedPart>>
  BY DEF EndCopy, cacheHistory
<1>2. /\ cacheOps' \in [CacheProcs -> OpType]
      /\ \A q \in CacheProcs : cacheOps'[q].art = cacheOps[q].art
      /\ cacheOps'[p].at = "check" /\ cacheOps'[p].fd = "none"
      /\ \A q \in CacheProcs : q # p => cacheOps'[q] = cacheOps[q]
  BY OpsType DEF EndCopy, OpType, CacheSteps
<1>3. CacheTypeOK'
  BY <1>1, <1>2 DEF CacheIInv, CacheTypeOK, OpType, CacheFiles, NoFile, EmptyFile
<1>4. OverlapsAreTold'
  BY <1>1, <1>2 DEF CacheIInv, OverlapsAreTold, Active, At, Sha, UsesPart
<1>5. HandlesAreOnParts'
  BY <1>1, <1>2 DEF CacheIInv, HandlesAreOnParts, At, Sha
<1>6. OpsKnow'
  BY <1>1, <1>2 DEF CacheIInv, OpsKnow, At, Sha
<1>7. RefsResolve'
  BY <1>1, <1>2 DEF CacheIInv, CacheIsSound, RefsResolve
<1>8. ObjectsAreRight'
  BY <1>1, <1>2 DEF CacheIInv, CacheIsSound, ObjectsAreRight
<1> QED
  BY <1>3, <1>4, <1>5, <1>6, <1>7, <1>8 DEF CacheIInv, CacheIsSound

LEMMA CheckPartIInv == ASSUME CacheIInv, NEW p \in CacheProcs, CheckPart(p) PROVE CacheIInv'
<1>1. /\ Active(p) /\ ~ At(p, "copy") /\ UsesPart(p)
      /\ UNCHANGED <<cacheObjects, cacheParts, cacheRefs, cacheHistory>>
  BY DEF CheckPart, Active, At, UsesPart
<1>2. CASE EndOp(p)
  BY <1>1, <1>2, EndOpIInv
<1>3. CASE Go(p, "publish") /\ cacheParts[Sha(p)] = RightFile
  BY <1>1, <1>3, GoIInv
<1> QED
  BY <1>2, <1>3 DEF CheckPart

LEMMA PublishObjectIInv == ASSUME CacheIInv, NEW p \in CacheProcs, PublishObject(p) PROVE CacheIInv'
<1> DEFINE s == Sha(p)
           gone == cacheParts[s] = NoFile
           next == IF gone THEN NoOp(cacheOps[p].art) ELSE [cacheOps[p] EXCEPT !.at = "refer"]
           moved == Moved(s, "object")
<1>1. /\ At(p, "publish") /\ UNCHANGED <<cacheRefs, damaged, overlapped, sharedPart>>
      /\ cacheObjects' = IF gone THEN cacheObjects ELSE [cacheObjects EXCEPT ![s] = cacheParts[s]]
      /\ cacheParts' = [cacheParts EXCEPT ![s] = NoFile]
      /\ cacheOps' = [moved EXCEPT ![p] = next]
  BY DEF PublishObject, cacheHistory
<1>2. /\ s \in Shas /\ cacheParts \in [Shas -> CacheFiles] /\ cacheObjects \in [Shas -> CacheFiles]
      /\ cacheOps \in [CacheProcs -> OpType] /\ \A q \in CacheProcs : Sha(q) \in Shas
      /\ NoFile \in CacheFiles
  BY ShaType, OpsType, CacheAssumption DEF CacheIInv, CacheTypeOK, NoFile, CacheFiles
<1>3. /\ next \in OpType /\ next.art = cacheOps[p].art /\ next.fd \in {"none", cacheOps[p].fd}
      /\ next.at = IF gone THEN "idle" ELSE "refer"
  BY <1>2, CacheAssumption DEF NoOp, OpType, CacheSteps
<1>4. /\ moved \in [CacheProcs -> OpType]
      /\ \A q \in CacheProcs : /\ moved[q].at = cacheOps[q].at /\ moved[q].art = cacheOps[q].art
                               /\ moved[q].fd = cacheOps[q].fd \/ (cacheOps[q].fd = "part" /\ Sha(q) = s)
  <2>1. \A q \in CacheProcs : cacheOps[q] \in OpType
    BY <1>2
  <2> QED
    BY <1>2, <2>1 DEF Moved, OpType
<1> HIDE DEF next, moved
<1>5. /\ cacheOps' \in [CacheProcs -> OpType] /\ cacheOps'[p] = next
      /\ \A q \in CacheProcs : cacheOps'[q].art = cacheOps[q].art
      /\ \A q \in CacheProcs : q # p =>
            /\ cacheOps'[q].at = cacheOps[q].at
            /\ cacheOps'[q].fd = cacheOps[q].fd \/ (cacheOps[q].fd = "part" /\ Sha(q) = s)
  BY <1>1, <1>3, <1>4
<1>6. /\ \A q \in CacheProcs : cacheOps[q].fd # "none" => UsesPart(q) /\ q # p
      /\ \A q \in CacheProcs : q # p /\ UsesPart(q) /\ Sha(q) = s => s \in sharedPart
  BY <1>1 DEF CacheIInv, HandlesAreOnParts, OverlapsAreTold, UsesPart, At
<1>7. next.fd = "none"
  BY <1>3, <1>6
<1>8. s \notin sharedPart => cacheParts[s] = RightFile /\ ~ gone
  <2>1. RightFile.sound = TRUE /\ NoFile.sound = FALSE
    BY DEF RightFile, NoFile
  <2>2. RightFile # NoFile
    BY <2>1
  <2> QED
    BY <1>1, <2>2 DEF CacheIInv, OpsKnow
<1>9. /\ cacheParts' \in [Shas -> CacheFiles] /\ cacheObjects' \in [Shas -> CacheFiles]
      /\ \A x \in Shas : x # s => cacheParts'[x] = cacheParts[x] /\ cacheObjects'[x] = cacheObjects[x]
      /\ s \notin sharedPart => cacheObjects'[s] = RightFile
  BY <1>1, <1>2, <1>8
<1>10. /\ sharedPart \subseteq overlapped /\ \A a \in cacheRefs : ShaOf[a] \in Shas
       /\ \A q \in CacheProcs : q # p /\ Active(q) /\ Sha(q) = s => s \in overlapped
  BY <1>1, CacheAssumption DEF CacheIInv, OverlapsAreTold, CacheTypeOK, Active, At
<1> HIDE DEF s, gone
<1>11. CacheTypeOK'
  BY <1>1, <1>2, <1>3, <1>5, <1>6, <1>7, <1>9, <1>10 DEF CacheIInv, CacheTypeOK, OpType, CacheFiles, NoFile, EmptyFile
<1>12. OverlapsAreTold'
  BY <1>1, <1>2, <1>3, <1>5, <1>6, <1>7, <1>9, <1>10 DEF CacheIInv, OverlapsAreTold, Active, At, Sha, UsesPart, s
<1>13. HandlesAreOnParts'
  BY <1>1, <1>2, <1>3, <1>5, <1>6, <1>7, <1>9, <1>10 DEF CacheIInv, HandlesAreOnParts, At, Sha, s, UsesPart
<1>14. OpsKnow'
  BY <1>1, <1>2, <1>3, <1>5, <1>6, <1>7, <1>9, <1>10 DEF CacheIInv, OpsKnow, At, Sha, s, UsesPart, Active
<1>15. RefsResolve'
  BY <1>1, <1>2, <1>3, <1>5, <1>6, <1>7, <1>9, <1>10 DEF CacheIInv, CacheIsSound, RefsResolve
<1>16. ObjectsAreRight'
  BY <1>1, <1>2, <1>3, <1>5, <1>6, <1>7, <1>9, <1>10 DEF CacheIInv, CacheIsSound, ObjectsAreRight
<1> QED
  BY <1>11, <1>12, <1>13, <1>14, <1>15, <1>16 DEF CacheIInv, CacheIsSound

LEMMA WriteRefIInv == ASSUME CacheIInv, NEW p \in CacheProcs, WriteRef(p) PROVE CacheIInv'
<1>1. /\ At(p, "refer") /\ UNCHANGED <<cacheObjects, cacheParts, damaged, overlapped, sharedPart>>
      /\ cacheRefs' = cacheRefs \cup {cacheOps[p].art} /\ EndOp(p)
  BY DEF WriteRef, cacheHistory
<1>2. /\ cacheOps' \in [CacheProcs -> OpType]
      /\ \A q \in CacheProcs : cacheOps'[q].art = cacheOps[q].art
      /\ cacheOps'[p].at = "idle" /\ cacheOps'[p].fd = "none"
      /\ \A q \in CacheProcs : q # p => cacheOps'[q] = cacheOps[q]
  BY <1>1, OpsType, CacheEndFacts
<1>3. /\ cacheOps[p].art \in Artifacts /\ cacheRefs' \subseteq Artifacts
      /\ \A q \in CacheProcs : q # p /\ Active(q) /\ Sha(q) = Sha(p) => Sha(p) \in overlapped
  BY <1>1, OpsType DEF CacheIInv, CacheTypeOK, OpType, OverlapsAreTold, Active, At
<1>4. CacheTypeOK'
  BY <1>1, <1>2, <1>3 DEF CacheIInv, CacheTypeOK, OpType, CacheFiles, NoFile, EmptyFile
<1>5. OverlapsAreTold'
  BY <1>1, <1>2, <1>3 DEF CacheIInv, OverlapsAreTold, Active, At, Sha, UsesPart
<1>6. HandlesAreOnParts'
  BY <1>1, <1>2, <1>3 DEF CacheIInv, HandlesAreOnParts, At, Sha
<1>7. OpsKnow'
  BY <1>1, <1>2, <1>3 DEF CacheIInv, OpsKnow, At, Sha, Active
<1>8. RefsResolve'
  BY <1>1, <1>2, <1>3 DEF CacheIInv, CacheIsSound, RefsResolve, OpsKnow, Sha
<1>9. ObjectsAreRight'
  BY <1>1, <1>2, <1>3 DEF CacheIInv, CacheIsSound, ObjectsAreRight
<1> QED
  BY <1>4, <1>5, <1>6, <1>7, <1>8, <1>9 DEF CacheIInv, CacheIsSound

LEMMA DropRefIInv == ASSUME CacheIInv, NEW p \in CacheProcs, DropRef(p) PROVE CacheIInv'
<1>1. /\ At(p, "unref") /\ UNCHANGED <<cacheObjects, cacheParts, damaged, overlapped, sharedPart>>
      /\ cacheRefs' \subseteq cacheRefs /\ (Go(p, "orphan") \/ EndOp(p))
  BY DEF DropRef, cacheHistory
<1>2. /\ cacheOps' \in [CacheProcs -> OpType]
      /\ \A q \in CacheProcs : cacheOps'[q].art = cacheOps[q].art
      /\ cacheOps'[p].at \in {"idle", "orphan"} /\ cacheOps'[p].fd \in {"none", cacheOps[p].fd}
      /\ \A q \in CacheProcs : q # p => cacheOps'[q] = cacheOps[q]
  <2>1. CASE EndOp(p)
    BY <2>1, OpsType, CacheEndFacts
  <2>2. CASE Go(p, "orphan")
    BY <2>2, OpsType, CacheGoFacts DEF CacheSteps
  <2> QED
    BY <1>1, <2>1, <2>2
<1>3. CacheTypeOK'
  BY <1>1, <1>2 DEF CacheIInv, CacheTypeOK, OpType, CacheFiles, NoFile, EmptyFile
<1>4. OverlapsAreTold'
  BY <1>1, <1>2 DEF CacheIInv, OverlapsAreTold, Active, At, Sha, UsesPart
<1>5. HandlesAreOnParts'
  BY <1>1, <1>2 DEF CacheIInv, HandlesAreOnParts, At, Sha
<1>6. OpsKnow'
  BY <1>1, <1>2 DEF CacheIInv, OpsKnow, At, Sha
<1>7. RefsResolve'
  BY <1>1, <1>2 DEF CacheIInv, CacheIsSound, RefsResolve
<1>8. ObjectsAreRight'
  BY <1>1, <1>2 DEF CacheIInv, CacheIsSound, ObjectsAreRight
<1> QED
  BY <1>3, <1>4, <1>5, <1>6, <1>7, <1>8 DEF CacheIInv, CacheIsSound

LEMMA LookForRefsIInv == ASSUME CacheIInv, NEW p \in CacheProcs, LookForRefs(p) PROVE CacheIInv'
<1>1. /\ Active(p) /\ ~ At(p, "copy")
      /\ UNCHANGED <<cacheObjects, cacheParts, cacheRefs, cacheHistory>>
  BY DEF LookForRefs, Active, At
<1>2. CASE EndOp(p)
  BY <1>1, <1>2, EndOpIInv
<1>3. CASE Go(p, "unlink") /\ \A a \in cacheRefs : ShaOf[a] # Sha(p)
  BY <1>1, <1>3, GoIInv
<1> QED
  BY <1>2, <1>3 DEF LookForRefs

LEMMA DamageObjectIInv == ASSUME CacheIInv, NEW s \in Shas, DamageObject(s) PROVE CacheIInv'
<1>1. /\ UNCHANGED <<cacheParts, cacheRefs, cacheOps, overlapped, sharedPart>>
      /\ damaged' = damaged \cup {s}
      /\ cacheObjects' = [cacheObjects EXCEPT ![s].sound = FALSE]
  BY DEF DamageObject
<1>2. /\ cacheObjects' \in [Shas -> CacheFiles]
      /\ \A x \in Shas : x # s => cacheObjects'[x] = cacheObjects[x]
  <2>1. cacheObjects \in [Shas -> CacheFiles] /\ cacheObjects[s] \in CacheFiles
    BY DEF CacheIInv, CacheTypeOK
  <2>2. [cacheObjects[s] EXCEPT !.sound = FALSE] \in CacheFiles
    BY <2>1 DEF CacheFiles
  <2> QED
    BY <1>1, <2>1, <2>2
<1>3. /\ \A q \in CacheProcs : Sha(q) \in Shas
      /\ \A a \in cacheRefs : ShaOf[a] \in Shas
  BY ShaType, CacheAssumption DEF CacheIInv, CacheTypeOK
<1>4. CacheTypeOK'
  BY <1>1, <1>2, <1>3 DEF CacheIInv, CacheTypeOK, OpType, CacheFiles, NoFile, EmptyFile
<1>5. OverlapsAreTold'
  BY <1>1, <1>2, <1>3 DEF CacheIInv, OverlapsAreTold, Active, At, Sha, UsesPart
<1>6. HandlesAreOnParts'
  BY <1>1, <1>2, <1>3 DEF CacheIInv, HandlesAreOnParts, At, Sha
<1>7. OpsKnow'
  BY <1>1, <1>2, <1>3 DEF CacheIInv, OpsKnow, At, Sha
<1>8. RefsResolve'
  BY <1>1, <1>2, <1>3 DEF CacheIInv, CacheIsSound, RefsResolve
<1>9. ObjectsAreRight'
  BY <1>1, <1>2, <1>3 DEF CacheIInv, CacheIsSound, ObjectsAreRight
<1> QED
  BY <1>4, <1>5, <1>6, <1>7, <1>8, <1>9 DEF CacheIInv, CacheIsSound

LEMMA CacheStutterIInv == ASSUME CacheIInv, UNCHANGED cacheVars PROVE CacheIInv'
<1>1. UNCHANGED <<cacheObjects, cacheParts, cacheRefs, damaged, overlapped, sharedPart>> /\ cacheOps' = cacheOps
  BY DEF cacheVars, cacheHistory
<1>2. CacheTypeOK'
  BY <1>1 DEF CacheIInv, CacheTypeOK, OpType, CacheFiles, NoFile, EmptyFile
<1>3. OverlapsAreTold'
  BY <1>1 DEF CacheIInv, OverlapsAreTold, Active, At, Sha, UsesPart
<1>4. HandlesAreOnParts'
  BY <1>1 DEF CacheIInv, HandlesAreOnParts, At, Sha
<1>5. OpsKnow'
  BY <1>1 DEF CacheIInv, OpsKnow, At, Sha
<1>6. RefsResolve'
  BY <1>1 DEF CacheIInv, CacheIsSound, RefsResolve
<1>7. ObjectsAreRight'
  BY <1>1 DEF CacheIInv, CacheIsSound, ObjectsAreRight
<1> QED
  BY <1>2, <1>3, <1>4, <1>5, <1>6, <1>7 DEF CacheIInv, CacheIsSound

LEMMA CacheInitIInv == ASSUME CacheInit PROVE CacheIInv
<1>1. PICK a \in Artifacts : cacheOps = [p \in CacheProcs |-> NoOp(a)]
  BY DEF CacheInit
<1>2. /\ cacheOps \in [CacheProcs -> OpType]
      /\ \A p \in CacheProcs : cacheOps[p].at = "idle" /\ cacheOps[p].fd = "none"
  BY <1>1, CacheAssumption DEF NoOp, OpType, CacheSteps
<1>3. NoFile \in CacheFiles
  BY CacheAssumption DEF NoFile, CacheFiles
<1>4. CacheTypeOK
  BY <1>2, <1>3 DEF CacheInit, CacheTypeOK, OpType
<1>5. OverlapsAreTold /\ HandlesAreOnParts /\ OpsKnow
  BY <1>2 DEF CacheInit, OverlapsAreTold, HandlesAreOnParts, OpsKnow, Active, UsesPart, At
<1> QED
  BY <1>4, <1>5 DEF CacheInit, CacheIInv, CacheIsSound, RefsResolve, ObjectsAreRight

LEMMA CacheInvariant == CacheSpec => []CacheIInv
<1>1. CacheInit => CacheIInv
  BY CacheInitIInv
<1>2. CacheIInv /\ [CacheNext]_cacheVars => CacheIInv'
  <2>1. ASSUME CacheIInv, NEW p \in CacheProcs, CacheDownload(p) PROVE CacheIInv'
    BY <2>1, StartOpIInv, LookForObjectIInv, DropObjectIInv, OpenPartFileIInv, CopyChunkIInv,
       EndCopyIInv, CheckPartIInv, PublishObjectIInv, WriteRefIInv
       DEF CacheDownload, StartDownload, StartRepair
  <2>2. ASSUME CacheIInv, NEW p \in CacheProcs, CacheRemove(p) PROVE CacheIInv'
    BY <2>2, StartOpIInv, DropRefIInv, LookForRefsIInv, UnlinkObjectIInv DEF CacheRemove, StartRemove
  <2>3. ASSUME CacheIInv, NEW p \in CacheProcs, AbandonOp(p) PROVE CacheIInv'
    BY <2>3, EndOpIInv DEF AbandonOp
  <2> QED
    BY <2>1, <2>2, <2>3, DamageObjectIInv, CacheStutterIInv DEF CacheNext
<1> QED
  BY <1>1, <1>2, PTL DEF CacheSpec

\* References resolve and objects are what their digests say, whatever crashed,
\* lied or was retried, but for the overlaps and the damage that are told
\* (model_cache.py: download, repair and remove lock nothing).
THEOREM CacheStaysSound == CacheSpec => []CacheIsSound
<1>1. CacheIInv => CacheIsSound
  BY DEF CacheIInv
<1> QED
  BY <1>1, CacheInvariant, PTL

(***************************************************************************)
(* The LiteRT caches.                                                      *)
(***************************************************************************)
LitOpType == [at : {"idle", "stage", "publish", "receipt", "clean", "unlink", "forget"},
              want : Wants \cup {Empty}, got : Wants \cup {Empty, Junk}, raced : BOOLEAN]

\* An operation under way is about a want.
LitBusy == \A p \in LitProcs :
    IF LitAt(p, "idle") THEN litOps[p] = LitIdle ELSE litOps[p].want \in Wants

\* Operations in one slot at once know of it.
RacesAreTold == \A p, q \in LitProcs :
    p # q /\ ~ LitAt(p, "idle") /\ ~ LitAt(q, "idle") /\ LitSlot(p) = LitSlot(q) => litOps[p].raced

\* What an operation that did not race has put in its slot is still there.
LitKnow == \A p \in LitProcs :
    /\ litOps[p].at = "publish" => litOps[p].got = litOps[p].want
    /\ litOps[p].at = "receipt" /\ ~ litOps[p].raced /\ LitSlot(p) \notin litDamaged
           => litFile[LitSlot(p)] = litOps[p].want
    /\ litOps[p].at = "forget" /\ ~ litOps[p].raced => litFile[LitSlot(p)] = Empty

\* The receipt of a slot is the one of its artifact.
SlotsAreConsistent == \A s \in Slots :
    s \in litTorn \cup litDamaged \/ Halfway(s) \/ litReceipt[s] = litFile[s]

LitIInv == /\ LitTypeOK /\ LitBusy /\ RacesAreTold /\ LitKnow /\ SlotsAreConsistent
           /\ OnlyVerifiedArtifacts

LEMMA LitOpsType == ASSUME LitIInv PROVE litOps \in [LitProcs -> LitOpType]
BY DEF LitIInv, LitTypeOK, LitOpType

LEMMA SlotType == \A w \in Wants : SlotOf(w) \in Slots
BY DEF SlotOf, Slots, Wants

LEMMA LitSlotType ==
    ASSUME LitIInv, NEW p \in LitProcs, ~ LitAt(p, "idle")
    PROVE  LitSlot(p) \in Slots /\ litOps[p].want \in Wants
BY SlotType DEF LitIInv, LitBusy, LitSlot

LEMMA LitStartIInv ==
    ASSUME LitIInv, NEW p \in LitProcs, NEW r \in Requests, NEW s \in {"stage", "unlink"}, LitStart(p, r, s),
           litStaging' \subseteq LitProcs, UNCHANGED <<litFile, litReceipt, litTorn, litDamaged>>
    PROVE  LitIInv'
<1> DEFINE others == {q \in LitProcs \ {p} : ~LitAt(q, "idle") /\ LitSlot(q) = SlotOf(r.want)}
<1>1. LitAt(p, "idle") /\ r.want \in Wants
  BY DEF LitStart, Requests
<1>2. /\ litOps' \in [LitProcs -> LitOpType]
      /\ litOps'[p].at = s /\ litOps'[p].want = r.want
      /\ others # {} => litOps'[p].raced = TRUE
      /\ \A q \in LitProcs : q # p =>
             /\ litOps'[q].at = litOps[q].at /\ litOps'[q].want = litOps[q].want
             /\ litOps'[q].got = litOps[q].got
             /\ q \in others => litOps'[q].raced = TRUE
             /\ q \notin others => litOps'[q].raced = litOps[q].raced
      /\ \A q \in LitProcs : q \notin others /\ q # p => litOps'[q] = litOps[q]
  <2>1. litOps' = [q \in LitProcs |->
              CASE q = p -> [at |-> s, want |-> r.want, got |-> Empty, raced |-> others # {}]
                [] q \in others -> [litOps[q] EXCEPT !.raced = TRUE]
                [] OTHER -> litOps[q]]
    BY DEF LitStart
  <2>2. \A q \in LitProcs : litOps[q] \in LitOpType
    BY LitOpsType
  <2>3. [at |-> s, want |-> r.want, got |-> Empty, raced |-> others # {}] \in LitOpType
    BY <1>1 DEF LitOpType
  <2>4. p \notin others
    OBVIOUS
  <2> HIDE DEF others
  <2> QED
    BY <2>1, <2>2, <2>3, <2>4 DEF LitOpType
<1>3. \A q \in LitProcs : q # p /\ ~ LitAt(q, "idle") /\ LitSlot(q) = SlotOf(r.want) => q \in others
  OBVIOUS
<1>4. \A q \in others : q \in LitProcs /\ ~ LitAt(q, "idle")
  OBVIOUS
<1> HIDE DEF others
<1>5. LitTypeOK'
  BY <1>1, <1>2, <1>3, <1>4 DEF LitIInv, LitTypeOK, LitOpType
<1>6. LitBusy'
  BY <1>1, <1>2, <1>3, <1>4 DEF LitIInv, LitBusy, LitAt, LitIdle
<1>7. RacesAreTold'
  BY <1>1, <1>2, <1>3, <1>4 DEF LitIInv, RacesAreTold, LitAt, LitSlot, LitIdle
<1>8. LitKnow'
  BY <1>1, <1>2, <1>3, <1>4 DEF LitIInv, LitKnow, LitSlot, LitIdle, LitAt
<1>9. SlotsAreConsistent'
  BY <1>1, <1>2, <1>3, <1>4 DEF LitIInv, SlotsAreConsistent, Halfway, LitSlot, LitIdle, LitAt
<1>10. OnlyVerifiedArtifacts'
  BY <1>1, <1>2, <1>3, <1>4 DEF LitIInv, OnlyVerifiedArtifacts
<1> QED
  BY <1>5, <1>6, <1>7, <1>8, <1>9, <1>10 DEF LitIInv

LEMMA StageIInv ==
    ASSUME LitIInv, NEW p \in LitProcs, NEW got \in Wants \cup {Junk}, NEW probePassed \in BOOLEAN, Stage(p, got, probePassed)
    PROVE  LitIInv'
<1>1. LitAt(p, "stage") /\ UNCHANGED <<litFile, litReceipt, litTorn, litStaging, litDamaged>>
  BY DEF Stage
<1>2. /\ litOps' \in [LitProcs -> LitOpType]
      /\ litOps'[p].at \in {"publish", "clean"} /\ litOps'[p].want = litOps[p].want
      /\ litOps'[p].raced = litOps[p].raced
      /\ litOps'[p].at = "publish" => litOps'[p].got = litOps[p].want
      /\ \A q \in LitProcs : q # p => litOps'[q] = litOps[q]
  BY LitOpsType DEF Stage, LitOpType
<1>3. /\ LitSlot(p) \in Slots /\ litOps[p].want \in Wants
      /\ \A q \in LitProcs : q # p /\ ~ LitAt(q, "idle") /\ LitSlot(q) = LitSlot(p) => litOps[p].raced /\ litOps[q].raced
  BY <1>1, LitSlotType DEF LitIInv, RacesAreTold, LitAt
<1>4. LitTypeOK'
  BY <1>1, <1>2, <1>3 DEF LitIInv, LitTypeOK, LitOpType
<1>5. LitBusy'
  BY <1>1, <1>2, <1>3 DEF LitIInv, LitBusy, LitAt, LitIdle
<1>6. RacesAreTold'
  BY <1>1, <1>2, <1>3 DEF LitIInv, RacesAreTold, LitAt, LitSlot, LitIdle
<1>7. LitKnow'
  BY <1>1, <1>2, <1>3 DEF LitIInv, LitKnow, LitSlot, LitIdle, LitAt
<1>8. SlotsAreConsistent'
  BY <1>1, <1>2, <1>3 DEF LitIInv, SlotsAreConsistent, Halfway, LitSlot, LitIdle, LitAt
<1>9. OnlyVerifiedArtifacts'
  BY <1>1, <1>2, <1>3 DEF LitIInv, OnlyVerifiedArtifacts
<1> QED
  BY <1>4, <1>5, <1>6, <1>7, <1>8, <1>9 DEF LitIInv

LEMMA PublishStagedIInv ==
    ASSUME LitIInv, NEW p \in LitProcs, PublishStaged(p)
    PROVE  LitIInv'
<1>1. /\ LitAt(p, "publish") /\ UNCHANGED <<litReceipt, litTorn, litStaging>>
      /\ litFile' = [litFile EXCEPT ![LitSlot(p)] = litOps[p].got]
      /\ litDamaged' = litDamaged \ {LitSlot(p)}
  BY DEF PublishStaged
<1>2. /\ litOps' \in [LitProcs -> LitOpType]
      /\ litOps'[p].at = "receipt" /\ litOps'[p].want = litOps[p].want
      /\ litOps'[p].raced = litOps[p].raced /\ litOps'[p].got = litOps[p].got
      /\ \A q \in LitProcs : q # p => litOps'[q] = litOps[q]
  BY LitOpsType DEF PublishStaged, LitGo, LitOpType
<1>3. /\ LitSlot(p) \in Slots /\ litOps[p].want \in Wants
      /\ \A q \in LitProcs : q # p /\ ~ LitAt(q, "idle") /\ LitSlot(q) = LitSlot(p) => litOps[p].raced /\ litOps[q].raced
  BY <1>1, LitSlotType DEF LitIInv, RacesAreTold, LitAt
<1>4. litOps[p].got = litOps[p].want /\ SlotOf(litOps[p].want) = LitSlot(p)
  BY <1>1 DEF LitIInv, LitKnow, LitAt, LitSlot
<1>5. /\ litFile' \in [Slots -> Wants \cup {Empty, Junk}] /\ litFile'[LitSlot(p)] = litOps[p].want
      /\ \A s \in Slots : s # LitSlot(p) => litFile'[s] = litFile[s]
  BY <1>1, <1>3, <1>4 DEF LitIInv, LitTypeOK
<1>6. LitTypeOK'
  BY <1>1, <1>2, <1>3, <1>4, <1>5 DEF LitIInv, LitTypeOK, LitOpType
<1>7. LitBusy'
  BY <1>1, <1>2, <1>3, <1>4, <1>5 DEF LitIInv, LitBusy, LitAt, LitIdle
<1>8. RacesAreTold'
  BY <1>1, <1>2, <1>3, <1>4, <1>5 DEF LitIInv, RacesAreTold, LitAt, LitSlot, LitIdle
<1>9. LitKnow'
  BY <1>1, <1>2, <1>3, <1>4, <1>5 DEF LitIInv, LitKnow, LitSlot, LitIdle, LitAt, LitBusy
<1>10. SlotsAreConsistent'
  BY <1>1, <1>2, <1>3, <1>4, <1>5 DEF LitIInv, SlotsAreConsistent, Halfway, LitSlot, LitIdle, LitAt
<1>11. OnlyVerifiedArtifacts'
  BY <1>1, <1>2, <1>3, <1>4, <1>5 DEF LitIInv, OnlyVerifiedArtifacts
<1> QED
  BY <1>6, <1>7, <1>8, <1>9, <1>10, <1>11 DEF LitIInv

LEMMA WriteReceiptIInv ==
    ASSUME LitIInv, NEW p \in LitProcs, WriteReceipt(p)
    PROVE  LitIInv'
<1>1. /\ LitAt(p, "receipt") /\ UNCHANGED <<litFile, litStaging, litDamaged>>
      /\ litReceipt' = [litReceipt EXCEPT ![LitSlot(p)] = litOps[p].want]
      /\ litTorn' = IF litOps[p].raced THEN litTorn \cup {LitSlot(p)} ELSE litTorn \ {LitSlot(p)}
  BY DEF WriteReceipt, LitDone
<1>2. /\ litOps' \in [LitProcs -> LitOpType]
      /\ litOps'[p].at = "clean" /\ litOps'[p].want = litOps[p].want
      /\ litOps'[p].raced = litOps[p].raced /\ litOps'[p].got = litOps[p].got
      /\ \A q \in LitProcs : q # p => litOps'[q] = litOps[q]
  BY LitOpsType DEF WriteReceipt, LitGo, LitOpType
<1>3. /\ LitSlot(p) \in Slots /\ litOps[p].want \in Wants
      /\ \A q \in LitProcs : q # p /\ ~ LitAt(q, "idle") /\ LitSlot(q) = LitSlot(p) => litOps[p].raced /\ litOps[q].raced
  BY <1>1, LitSlotType DEF LitIInv, RacesAreTold, LitAt
<1>4. /\ litReceipt' \in [Slots -> Wants \cup {Empty}] /\ litReceipt'[LitSlot(p)] = litOps[p].want
      /\ \A s \in Slots : s # LitSlot(p) => litReceipt'[s] = litReceipt[s]
      /\ litTorn' \subseteq Slots
  BY <1>1, <1>3 DEF LitIInv, LitTypeOK
<1>5. LitTypeOK'
  BY <1>1, <1>2, <1>3, <1>4 DEF LitIInv, LitTypeOK, LitOpType
<1>6. LitBusy'
  BY <1>1, <1>2, <1>3, <1>4 DEF LitIInv, LitBusy, LitAt, LitIdle
<1>7. RacesAreTold'
  BY <1>1, <1>2, <1>3, <1>4 DEF LitIInv, RacesAreTold, LitAt, LitSlot, LitIdle
<1>8. LitKnow'
  BY <1>1, <1>2, <1>3, <1>4 DEF LitIInv, LitKnow, LitSlot, LitIdle
<1>9. SlotsAreConsistent'
  BY <1>1, <1>2, <1>3, <1>4 DEF LitIInv, SlotsAreConsistent, Halfway, LitSlot, LitIdle, LitAt, LitKnow
<1>10. OnlyVerifiedArtifacts'
  BY <1>1, <1>2, <1>3, <1>4 DEF LitIInv, OnlyVerifiedArtifacts
<1> QED
  BY <1>5, <1>6, <1>7, <1>8, <1>9, <1>10 DEF LitIInv

LEMMA CleanStagingIInv ==
    ASSUME LitIInv, NEW p \in LitProcs, CleanStaging(p)
    PROVE  LitIInv'
<1>1. LitAt(p, "clean") /\ litStaging' \subseteq LitProcs /\ UNCHANGED <<litFile, litReceipt, litTorn, litDamaged>>
  BY DEF CleanStaging, LitIInv, LitTypeOK
<1>2. /\ litOps' \in [LitProcs -> LitOpType] /\ litOps'[p] = LitIdle
      /\ \A q \in LitProcs : q # p => litOps'[q] = litOps[q]
  BY LitOpsType DEF CleanStaging, LitIdle, LitOpType
<1>3. /\ LitSlot(p) \in Slots /\ litOps[p].want \in Wants
      /\ \A q \in LitProcs : q # p /\ ~ LitAt(q, "idle") /\ LitSlot(q) = LitSlot(p) => litOps[p].raced /\ litOps[q].raced
  BY <1>1, LitSlotType DEF LitIInv, RacesAreTold, LitAt
<1>4. LitTypeOK'
  BY <1>1, <1>2, <1>3 DEF LitIInv, LitTypeOK, LitOpType
<1>5. LitBusy'
  BY <1>1, <1>2, <1>3 DEF LitIInv, LitBusy, LitAt, LitIdle
<1>6. RacesAreTold'
  BY <1>1, <1>2, <1>3 DEF LitIInv, RacesAreTold, LitAt, LitSlot, LitIdle
<1>7. LitKnow'
  BY <1>1, <1>2, <1>3 DEF LitIInv, LitKnow, LitSlot, LitIdle
<1>8. SlotsAreConsistent'
  BY <1>1, <1>2, <1>3 DEF LitIInv, SlotsAreConsistent, Halfway, LitSlot, LitIdle, LitAt
<1>9. OnlyVerifiedArtifacts'
  BY <1>1, <1>2, <1>3 DEF LitIInv, OnlyVerifiedArtifacts
<1> QED
  BY <1>4, <1>5, <1>6, <1>7, <1>8, <1>9 DEF LitIInv

LEMMA UnlinkArtifactIInv ==
    ASSUME LitIInv, NEW p \in LitProcs, UnlinkArtifact(p)
    PROVE  LitIInv'
<1>1. /\ LitAt(p, "unlink") /\ UNCHANGED <<litReceipt, litStaging>>
      /\ litFile' = [litFile EXCEPT ![LitSlot(p)] = Empty]
      /\ litTorn' = IF litFile[LitSlot(p)] = Empty THEN litTorn \cup {LitSlot(p)} ELSE litTorn
      /\ litDamaged' = litDamaged \ {LitSlot(p)}
  BY DEF UnlinkArtifact
<1>2. /\ litOps' \in [LitProcs -> LitOpType]
      /\ \/ litOps'[p] = LitIdle /\ litFile[LitSlot(p)] = Empty
         \/ /\ litOps'[p].at = "forget" /\ litOps'[p].want = litOps[p].want
            /\ litOps'[p].raced = litOps[p].raced
      /\ \A q \in LitProcs : q # p => litOps'[q] = litOps[q]
  <2>1. litOps[p] \in LitOpType /\ LitIdle \in LitOpType
    BY LitOpsType DEF LitIdle, LitOpType
  <2>2. CASE litFile[LitSlot(p)] = Empty
    BY <2>1, <2>2, LitOpsType DEF UnlinkArtifact
  <2>3. CASE litFile[LitSlot(p)] # Empty
    BY <2>1, <2>3, LitOpsType DEF UnlinkArtifact, LitOpType
  <2> QED
    BY <2>2, <2>3
<1>3. /\ LitSlot(p) \in Slots /\ litOps[p].want \in Wants
      /\ \A q \in LitProcs : q # p /\ ~ LitAt(q, "idle") /\ LitSlot(q) = LitSlot(p) => litOps[p].raced /\ litOps[q].raced
  BY <1>1, LitSlotType DEF LitIInv, RacesAreTold, LitAt
<1>4. /\ litFile' \in [Slots -> Wants \cup {Empty, Junk}] /\ litFile'[LitSlot(p)] = Empty
      /\ \A s \in Slots : s # LitSlot(p) => litFile'[s] = litFile[s]
      /\ litTorn' \subseteq Slots
  BY <1>1, <1>3 DEF LitIInv, LitTypeOK
<1>5. LitTypeOK'
  BY <1>1, <1>2, <1>3, <1>4 DEF LitIInv, LitTypeOK, LitOpType
<1>6. LitBusy'
  BY <1>1, <1>2, <1>3, <1>4 DEF LitIInv, LitBusy, LitAt, LitIdle
<1>7. RacesAreTold'
  BY <1>1, <1>2, <1>3, <1>4 DEF LitIInv, RacesAreTold, LitAt, LitSlot, LitIdle
<1>8. LitKnow'
  BY <1>1, <1>2, <1>3, <1>4 DEF LitIInv, LitKnow, LitSlot, LitIdle, LitAt, LitBusy
<1>9. SlotsAreConsistent'
  BY <1>1, <1>2, <1>3, <1>4 DEF LitIInv, SlotsAreConsistent, Halfway, LitSlot, LitIdle, LitAt
<1>10. OnlyVerifiedArtifacts'
  BY <1>1, <1>2, <1>3, <1>4 DEF LitIInv, OnlyVerifiedArtifacts
<1> QED
  BY <1>5, <1>6, <1>7, <1>8, <1>9, <1>10 DEF LitIInv

LEMMA UnlinkReceiptIInv ==
    ASSUME LitIInv, NEW p \in LitProcs, UnlinkReceipt(p)
    PROVE  LitIInv'
<1>1. /\ LitAt(p, "forget") /\ UNCHANGED <<litFile, litStaging, litDamaged>>
      /\ litReceipt' = [litReceipt EXCEPT ![LitSlot(p)] = Empty]
      /\ litTorn' = IF litOps[p].raced THEN litTorn \cup {LitSlot(p)} ELSE litTorn \ {LitSlot(p)}
  BY DEF UnlinkReceipt, LitDone
<1>2. /\ litOps' \in [LitProcs -> LitOpType] /\ litOps'[p] = LitIdle
      /\ \A q \in LitProcs : q # p => litOps'[q] = litOps[q]
  BY LitOpsType DEF UnlinkReceipt, LitIdle, LitOpType
<1>3. /\ LitSlot(p) \in Slots /\ litOps[p].want \in Wants
      /\ \A q \in LitProcs : q # p /\ ~ LitAt(q, "idle") /\ LitSlot(q) = LitSlot(p) => litOps[p].raced /\ litOps[q].raced
  BY <1>1, LitSlotType DEF LitIInv, RacesAreTold, LitAt
<1>4. /\ litReceipt' \in [Slots -> Wants \cup {Empty}] /\ litReceipt'[LitSlot(p)] = Empty
      /\ \A s \in Slots : s # LitSlot(p) => litReceipt'[s] = litReceipt[s]
      /\ litTorn' \subseteq Slots
  BY <1>1, <1>3 DEF LitIInv, LitTypeOK
<1>5. LitTypeOK'
  BY <1>1, <1>2, <1>3, <1>4 DEF LitIInv, LitTypeOK, LitOpType
<1>6. LitBusy'
  BY <1>1, <1>2, <1>3, <1>4 DEF LitIInv, LitBusy, LitAt, LitIdle
<1>7. RacesAreTold'
  BY <1>1, <1>2, <1>3, <1>4 DEF LitIInv, RacesAreTold, LitAt, LitSlot, LitIdle
<1>8. LitKnow'
  BY <1>1, <1>2, <1>3, <1>4 DEF LitIInv, LitKnow, LitSlot, LitIdle
<1>9. SlotsAreConsistent'
  BY <1>1, <1>2, <1>3, <1>4 DEF LitIInv, SlotsAreConsistent, Halfway, LitSlot, LitIdle, LitAt, LitKnow
<1>10. OnlyVerifiedArtifacts'
  BY <1>1, <1>2, <1>3, <1>4 DEF LitIInv, OnlyVerifiedArtifacts
<1> QED
  BY <1>5, <1>6, <1>7, <1>8, <1>9, <1>10 DEF LitIInv

LEMMA LitCrashIInv ==
    ASSUME LitIInv, NEW p \in LitProcs, LitCrash(p)
    PROVE  LitIInv'
<1>1. /\ ~ LitAt(p, "idle") /\ UNCHANGED <<litFile, litReceipt, litStaging, litDamaged>>
      /\ litTorn' = IF litOps[p].at \in {"receipt", "forget"} \/ litOps[p].raced
                    THEN litTorn \cup {LitSlot(p)} ELSE litTorn
  BY DEF LitCrash
<1>2. /\ litOps' \in [LitProcs -> LitOpType] /\ litOps'[p] = LitIdle
      /\ \A q \in LitProcs : q # p => litOps'[q] = litOps[q]
  BY LitOpsType DEF LitCrash, LitIdle, LitOpType
<1>3. /\ LitSlot(p) \in Slots /\ litOps[p].want \in Wants
      /\ \A q \in LitProcs : q # p /\ ~ LitAt(q, "idle") /\ LitSlot(q) = LitSlot(p) => litOps[p].raced /\ litOps[q].raced
  BY <1>1, LitSlotType DEF LitIInv, RacesAreTold, LitAt
<1>4. litTorn' \subseteq Slots
  BY <1>1, <1>3 DEF LitIInv, LitTypeOK
<1>5. LitTypeOK'
  BY <1>1, <1>2, <1>3, <1>4 DEF LitIInv, LitTypeOK, LitOpType
<1>6. LitBusy'
  BY <1>1, <1>2, <1>3, <1>4 DEF LitIInv, LitBusy, LitAt, LitIdle
<1>7. RacesAreTold'
  BY <1>1, <1>2, <1>3, <1>4 DEF LitIInv, RacesAreTold, LitAt, LitSlot, LitIdle
<1>8. LitKnow'
  BY <1>1, <1>2, <1>3, <1>4 DEF LitIInv, LitKnow, LitSlot, LitIdle
<1>9. SlotsAreConsistent'
  BY <1>1, <1>2, <1>3, <1>4 DEF LitIInv, SlotsAreConsistent, Halfway, LitSlot, LitIdle, LitAt
<1>10. OnlyVerifiedArtifacts'
  BY <1>1, <1>2, <1>3, <1>4 DEF LitIInv, OnlyVerifiedArtifacts
<1> QED
  BY <1>5, <1>6, <1>7, <1>8, <1>9, <1>10 DEF LitIInv

LEMMA ArtifactChangesIInv == ASSUME LitIInv, NEW s \in Slots, ArtifactChanges(s) PROVE LitIInv'
<1>1. /\ UNCHANGED <<litReceipt, litOps, litTorn, litStaging>> /\ litFile[s] # Empty
      /\ litDamaged' = litDamaged \cup {s}
      /\ litFile' = [litFile EXCEPT ![s] = Junk]
  BY DEF ArtifactChanges
<1>2. /\ litFile' \in [Slots -> Wants \cup {Empty, Junk}] /\ litFile'[s] = Junk
      /\ \A x \in Slots : x # s => litFile'[x] = litFile[x]
  BY <1>1 DEF LitIInv, LitTypeOK
<1>3. \A p \in LitProcs : ~ LitAt(p, "idle") => LitSlot(p) \in Slots
  BY LitSlotType
<1>4. LitTypeOK'
  BY <1>1, <1>2, <1>3 DEF LitIInv, LitTypeOK, LitOpType
<1>5. LitBusy'
  BY <1>1, <1>2, <1>3 DEF LitIInv, LitBusy, LitAt, LitIdle
<1>6. RacesAreTold'
  BY <1>1, <1>2, <1>3 DEF LitIInv, RacesAreTold, LitAt, LitSlot, LitIdle
<1>7. LitKnow'
  BY <1>1, <1>2, <1>3 DEF LitIInv, LitKnow, LitSlot, LitIdle, LitAt
<1>8. SlotsAreConsistent'
  BY <1>1, <1>2, <1>3 DEF LitIInv, SlotsAreConsistent, Halfway, LitSlot, LitIdle
<1>9. OnlyVerifiedArtifacts'
  BY <1>1, <1>2, <1>3 DEF LitIInv, OnlyVerifiedArtifacts
<1> QED
  BY <1>4, <1>5, <1>6, <1>7, <1>8, <1>9 DEF LitIInv

LEMMA LitStutterIInv == ASSUME LitIInv, UNCHANGED litVars PROVE LitIInv'
<1>1. UNCHANGED <<litFile, litReceipt, litOps, litTorn, litStaging, litDamaged>>
  BY DEF litVars
<1>2. LitTypeOK'
  BY <1>1 DEF LitIInv, LitTypeOK, LitOpType
<1>3. LitBusy'
  BY <1>1 DEF LitIInv, LitBusy, LitAt, LitIdle
<1>4. RacesAreTold'
  BY <1>1 DEF LitIInv, RacesAreTold, LitAt, LitSlot, LitIdle
<1>5. LitKnow'
  BY <1>1 DEF LitIInv, LitKnow, LitSlot, LitIdle
<1>6. SlotsAreConsistent'
  BY <1>1 DEF LitIInv, SlotsAreConsistent, Halfway, LitSlot, LitIdle
<1>7. OnlyVerifiedArtifacts'
  BY <1>1 DEF LitIInv, OnlyVerifiedArtifacts
<1> QED
  BY <1>2, <1>3, <1>4, <1>5, <1>6, <1>7 DEF LitIInv

LEMMA LitInitIInv == ASSUME LitInit PROVE LitIInv
<1>1. LitTypeOK
  BY DEF LitInit, LitTypeOK, LitIdle
<1>2. \A p \in LitProcs : litOps[p] = LitIdle /\ litOps[p].at = "idle"
  BY DEF LitInit, LitIdle
<1>3. LitBusy /\ RacesAreTold /\ LitKnow
  <2>1. LitBusy
    BY <1>2 DEF LitBusy, LitAt
  <2>2. RacesAreTold
    BY <1>2 DEF RacesAreTold, LitAt
  <2>3. LitKnow
    BY <1>2 DEF LitKnow
  <2> QED
    BY <2>1, <2>2, <2>3
<1>4. SlotsAreConsistent /\ OnlyVerifiedArtifacts
  BY DEF LitInit, SlotsAreConsistent, OnlyVerifiedArtifacts
<1> QED
  BY <1>1, <1>3, <1>4 DEF LitIInv

LEMMA VerifyFollows == ASSUME LitIInv PROVE VerifyTellsWhatIsThere
<1> SUFFICES ASSUME NEW w \in Wants, SlotOf(w) \notin litTorn \cup litDamaged, ~ Halfway(SlotOf(w))
             PROVE  (IF SlotOf(w) = Package THEN VerifyPackage(w) ELSE VerifyModel(w)) =
                        CASE litFile[SlotOf(w)] = w -> "verified"
                          [] litFile[SlotOf(w)] = Empty -> "offline-cache-miss"
                          [] OTHER -> "offline-manifest-mismatch"
  BY DEF VerifyTellsWhatIsThere
<1> USE LiteRtAssumption
<1>1. SlotOf(w) \in Slots /\ w # Empty
  BY SlotType
<1>2. litReceipt[SlotOf(w)] = litFile[SlotOf(w)]
  BY <1>1 DEF LitIInv, SlotsAreConsistent
<1>3. litFile[SlotOf(w)] = Empty \/ (litFile[SlotOf(w)] \in Wants /\ SlotOf(litFile[SlotOf(w)]) = SlotOf(w))
  BY <1>1 DEF LitIInv, OnlyVerifiedArtifacts
<1>4. CASE SlotOf(w) = Package
  <2>1. CASE litFile[Package] = Empty
    BY <1>1, <1>2, <1>4, <2>1 DEF VerifyPackage
  <2>2. CASE litFile[Package] = w
    BY <1>1, <1>2, <1>4, <2>2 DEF VerifyPackage
  <2>3. CASE litFile[Package] \notin {Empty, w}
    BY <1>1, <1>2, <1>4, <2>3 DEF VerifyPackage
  <2> QED
    BY <2>1, <2>2, <2>3
<1>5. CASE SlotOf(w) # Package
  <2>1. w \in LitModels /\ SlotOf(w) = w /\ w # Package
    BY <1>5 DEF SlotOf, Wants
  <2>2. litFile[w] \in {Empty, w}
    BY <1>3, <2>1 DEF SlotOf
  <2>3. CASE litFile[w] = Empty
    BY <1>1, <1>2, <1>5, <2>1, <2>3 DEF VerifyModel
  <2>4. CASE litFile[w] = w
    BY <1>1, <1>2, <1>5, <2>1, <2>4 DEF VerifyModel
  <2> QED
    BY <2>2, <2>3, <2>4
<1> QED
  BY <1>4, <1>5

LEMMA LitInvariant == LitSpec => []LitIInv
<1>1. LitInit => LitIInv
  BY LitInitIInv
<1>2. LitIInv /\ [LitNext]_litVars => LitIInv'
  <2>1. ASSUME LitIInv, NEW p \in LitProcs, NEW r \in Requests, InstallStart(p, r) PROVE LitIInv'
    <3>1. litStaging' \subseteq LitProcs
      BY <2>1 DEF InstallStart, LitIInv, LitTypeOK
    <3> QED
      BY <2>1, <3>1, LitStartIInv DEF InstallStart
  <2>2. ASSUME LitIInv, NEW p \in LitProcs, NEW r \in Requests, RollbackStart(p, r) PROVE LitIInv'
    <3>1. litStaging' \subseteq LitProcs
      BY <2>2 DEF RollbackStart, LitIInv, LitTypeOK
    <3> QED
      BY <2>2, <3>1, LitStartIInv DEF RollbackStart
  <2>3. ASSUME LitIInv, NEW p \in LitProcs, LitInstall(p) PROVE LitIInv'
    BY <2>1, <2>3, StageIInv, PublishStagedIInv, WriteReceiptIInv, CleanStagingIInv DEF LitInstall
  <2>4. ASSUME LitIInv, NEW p \in LitProcs, LitRollback(p) PROVE LitIInv'
    BY <2>2, <2>4, UnlinkArtifactIInv, UnlinkReceiptIInv DEF LitRollback
  <2> QED
    BY <2>3, <2>4, LitCrashIInv, ArtifactChangesIInv, LitStutterIInv DEF LitNext
<1> QED
  BY <1>1, <1>2, PTL DEF LitSpec

\* verify tells exactly what is in a slot, and a slot never holds an artifact
\* no plan for it asks for, whatever overlaps or dies half way, except while a
\* slot is torn or its artifact was changed from outside; installing again makes
\* a torn slot whole (backend_contract.py: install_*, verify_*, rollback_*).
THEOREM SlotsStaySound == LitSpec => []SlotsAreSound
<1>1. LitIInv => SlotsAreSound
  BY VerifyFollows DEF LitIInv, SlotsAreSound
<1> QED
  BY <1>1, LitInvariant, PTL

(***************************************************************************)
(* The checkpoint converter.  The invariant speaks of the shards that are  *)
(* not in holed: what the sidecar, or the run in its memory, says has been *)
(* fetched is in the part, which has its full size; one stream goes on     *)
(* only in a part without holes, beside no sidecar of another part; and so *)
(* what is renamed to the shard is whole.  A local conversion's manifest   *)
(* is complete in memory until it is written.                              *)
(***************************************************************************)
FullFile(f) == f \in [1..ShardBlocks -> {"data", "hole"}]
Fetched(n, done) == done \in [1..n -> Nat] /\ \A t \in 1..n : done[t] <= SegLen(n, t)
Promised(f, n, done) == \A t \in 1..n : \A b \in 1..done[t] : f[SegStart(n, t) + b] = "data"

ConvShape ==
    /\ conv = [at |-> conv.at, mode |-> conv.mode, n |-> conv.n, shard |-> conv.shard,
               done |-> conv.done]
    /\ dlPart = [s \in Shards |-> dlPart[s]]
    /\ dlSide = [s \in Shards |-> dlSide[s]]
    /\ dlFull = [s \in Shards |-> dlFull[s]]

SideOk(x) == x # NoSide => x.n \in Streams /\ Fetched(x.n, x.done)

ShardOk(s) ==
    /\ dlPart[s] # NoPart => dlPart[s] \in Seq({"data", "hole"})
    /\ dlPart[s] # NoPart /\ dlSide[s] # NoSide =>
          FullFile(dlPart[s]) /\ Promised(dlPart[s], dlSide[s].n, dlSide[s].done)
    /\ ~ Holes(dlFull[s])

Working == {"get", "multi", "rename", "fallback", "single", "convert", "save", "clean"}

RunOk ==
    /\ conv.mode \in Modes
    /\ conv.at \in Working => conv.shard \in Shards /\ conv.n \in Streams
    /\ conv.at = "next" => conv.n \in Streams
    /\ conv.at \in Working \cup {"off", "next", "local"}
    /\ conv.at = "multi" => Fetched(conv.n, conv.done)
    /\ S \notin holed =>
        /\ conv.at = "multi" => FullFile(dlPart[S]) /\ Promised(dlPart[S], conv.n, conv.done)
        /\ conv.at \in {"rename", "single"} => ~ Holes(dlPart[S])
        /\ conv.at = "single" => dlSide[S] = NoSide \/ dlPart[S] # NoPart
        /\ conv.at = "fallback" => dlPart[S] = NoPart

OutputsOk ==
    /\ outputs = [m \in Modes |-> [s \in Shards |-> outputs[m][s]]]
    /\ \A m \in Modes, s \in Shards :
          /\ outputs[m][s].tensors \subseteq Kept(s, m)
          /\ outputs[m][s] # NoOutput => outputs[m][s].state = "whole" \/ s \in holed

Documents(tensors) == \A s \in localDone : Kept(s, "main") \subseteq tensors

ManifestOk ==
    /\ manifest = [memory |-> manifest.memory, disk |-> manifest.disk]
    /\ ~ resumed /\ conv.at = "local" => Documents(manifest.memory)
    /\ ~ resumed /\ conv.at # "local" => Documents(manifest.disk)

DownloadOk ==
    /\ ConvShape /\ RunOk
    /\ \A s \in Shards : SideOk(dlSide[s]) /\ (s \notin holed => ShardOk(s))

ConvIInv == DownloadOk /\ OutputsOk /\ ManifestOk

LEMMA NumbersOfStreams == ASSUME NEW n \in Streams PROVE n \in Nat \ {0}
BY ConverterAssumption

LEMMA SegType ==
    ASSUME NEW n \in Streams, NEW t \in 1..(n + 1)
    PROVE  SegStart(n, t) \in Nat
<1>1. n \in Nat \ {0} /\ ShardBlocks * (t - 1) \in Nat
  BY NumbersOfStreams, ConverterAssumption
<1>2. (ShardBlocks * (t - 1)) \div n \in Nat
  BY <1>1, QuotientFits
<1> QED
  BY <1>2 DEF SegStart

\* The segments follow one another and end with the file.
LEMMA SegOrder ==
    ASSUME NEW n \in Streams, NEW t \in 1..n
    PROVE  SegStart(n, t) <= SegStart(n, t + 1) /\ SegStart(n, t + 1) <= ShardBlocks
<1>1. n \in Nat \ {0} /\ t \in Nat /\ t >= 1 /\ t <= n /\ ShardBlocks \in Nat
  BY NumbersOfStreams, ConverterAssumption
<1> DEFINE a == ShardBlocks * (t - 1)
           b == ShardBlocks * t
           c == ShardBlocks * n
<1>2. a \in Nat /\ b \in Nat /\ c \in Nat /\ a <= b /\ b <= c
  BY <1>1
<1>3. (t + 1) - 1 = t
  BY <1>1
<1>4. SegStart(n, t) = a \div n /\ SegStart(n, t + 1) = b \div n
  BY <1>3 DEF SegStart
<1> HIDE DEF a, b
<1>5. /\ a \div n \in Nat /\ b \div n \in Nat
      /\ (a \div n) * n <= a
      /\ \A k \in Nat : k > b \div n => k * n > b
      /\ (b \div n) * n <= b
  BY <1>1, <1>2, QuotientFits
<1>6. a \div n <= b \div n
  BY <1>1, <1>2, <1>5
<1>7. b \div n <= ShardBlocks
  <2> DEFINE q == b \div n
  <2> HIDE DEF q
  <2>1. q \in Nat /\ q * n <= ShardBlocks * n
    BY <1>1, <1>2, <1>5 DEF q
  <2>2. CASE q >= ShardBlocks + 1
    <3>1. q * n >= ShardBlocks * n + n
      BY ONLY <1>1, <2>1, <2>2
    <3> QED
      BY ONLY <1>1, <2>1, <3>1
  <2> QED
    BY <1>1, <2>1, <2>2 DEF q
<1> QED
  BY <1>4, <1>6, <1>7

LEMMA SegEnds ==
    ASSUME NEW n \in Streams
    PROVE  SegStart(n, 1) = 0 /\ SegStart(n, n + 1) = ShardBlocks
<1>1. n \in Nat \ {0} /\ ShardBlocks \in Nat
  BY NumbersOfStreams, ConverterAssumption
<1> DEFINE c == ShardBlocks * n
<1>2. c \in Nat /\ ShardBlocks * (1 - 1) = 0 /\ (n + 1) - 1 = n
  BY <1>1
<1>3. /\ c \div n \in Nat /\ (c \div n) * n <= c
      /\ \A k \in Nat : k > c \div n => k * n > c
  BY <1>1, <1>2, QuotientFits
<1>4. ~ (ShardBlocks > c \div n)
  BY <1>1, <1>2, <1>3
<1>5. c \div n <= ShardBlocks
  BY <1>1, <1>2, SegOrder, n \in 1..n DEF SegStart
<1>6. 0 \div n = 0
  BY <1>1
<1> QED
  BY <1>1, <1>2, <1>3, <1>4, <1>5, <1>6 DEF SegStart

\* Every block is in a segment.
LEMMA SegCover ==
    ASSUME NEW n \in Streams, NEW i \in 1..ShardBlocks
    PROVE  \E t \in 1..n : SegStart(n, t) < i /\ i <= SegStart(n, t + 1)
<1> DEFINE T == {t \in 1..n : i <= SegStart(n, t + 1)}
<1>1. n \in Nat \ {0} /\ ShardBlocks \in Nat /\ i \in Nat /\ n \in 1..n
  BY NumbersOfStreams, ConverterAssumption
<1>2. n \in T
  BY <1>1, SegEnds
<1>3. T \subseteq Nat /\ T # {}
  BY <1>1, <1>2
<1>4. PICK t \in T : \A k \in T : t <= k
  BY <1>3, LeastNat
<1>5. t \in 1..n /\ i <= SegStart(n, t + 1)
  OBVIOUS
<1>6. CASE t = 1
  BY <1>1, <1>5, <1>6, SegEnds
<1>7. CASE t # 1
  <2> DEFINE k == t - 1
  <2>1. k \in 1..n /\ k + 1 = t /\ ~ (t <= k)
    BY <1>1, <1>5, <1>7
  <2>2. k \notin T
    BY <1>4, <2>1
  <2>3. ~ (i <= SegStart(n, t))
    BY <2>1, <2>2
  <2>4. SegStart(n, t) \in Nat
    BY <1>1, <1>5, SegType
  <2> QED
    BY <1>1, <1>5, <2>3, <2>4
<1> QED
  BY <1>6, <1>7

LEMMA ConvGoFacts ==
    ASSUME ConvShape, NEW a, ConvGo(a)
    PROVE  conv' = [at |-> a, mode |-> conv.mode, n |-> conv.n, shard |-> conv.shard, done |-> <<>>]
BY DEF ConvShape, ConvGo

\* A step that leaves the files alone and is not about to stream.
LEMMA QuietDownloadOk ==
    ASSUME DownloadOk, UNCHANGED download, NEW a \in Working \cup {"off", "next", "local"},
           conv' = [at |-> a, mode |-> conv'.mode, n |-> conv'.n, shard |-> conv'.shard,
                    done |-> conv'.done],
           conv'.mode \in Modes,
           a \in Working => conv'.shard \in Shards,
           a \in Working \cup {"next"} => conv'.n \in Streams,
           holed \subseteq holed',
           a \notin {"multi", "rename", "fallback"},
           a = "single" /\ conv'.shard \notin holed' =>
               /\ ~ Holes(dlPart[conv'.shard])
               /\ dlSide[conv'.shard] = NoSide \/ dlPart[conv'.shard] # NoPart
    PROVE  DownloadOk'
<1>1. ConvShape'
  BY DEF DownloadOk, ConvShape, download
<1>2. conv'.at = a
  OBVIOUS
<1>3. RunOk'
  BY <1>2 DEF RunOk, S, Holes, download, Working
<1>4. \A s \in Shards : SideOk(dlSide[s])' /\ (s \notin holed' => ShardOk(s)')
  BY DEF DownloadOk, ShardOk, download, SideOk, Holes, FullFile, Promised
<1> QED
  BY <1>1, <1>3, <1>4 DEF DownloadOk

LEMMA LaunchConvertDownload ==
    ASSUME DownloadOk, NEW mode \in Modes, NEW n \in Streams, LaunchConvert(mode, n)
    PROVE  DownloadOk'
<1>1. conv' = [at |-> "next", mode |-> mode, n |-> n, shard |-> 0, done |-> <<>>]
  BY DEF LaunchConvert, Off
<1>2. "next" \in Working \cup {"off", "next", "local"} /\ "next" \notin Working
  BY DEF Working
<1>3. UNCHANGED <<download, holed>>
  BY DEF LaunchConvert
<1>4. conv'.mode \in Modes /\ conv'.n \in Streams
  BY <1>1
<1> QED
  BY ONLY DownloadOk, <1>1, <1>2, <1>3, <1>4, QuietDownloadOk

LEMMA NextShardDownload == ASSUME DownloadOk, NextShard PROVE DownloadOk'
<1>1. PICK s \in Todo : conv' = [conv EXCEPT !.at = "get", !.shard = s]
  BY DEF NextShard
<1>2. conv' = [at |-> "get", mode |-> conv.mode, n |-> conv.n, shard |-> s, done |-> conv.done]
  BY <1>1 DEF DownloadOk, ConvShape
<1>3. s \in Shards
  BY DEF Todo, ShardsOf
<1>4. conv.mode \in Modes /\ conv.n \in Streams
  BY DEF DownloadOk, RunOk, NextShard, ConvAt
<1>5. "get" \in Working
  BY DEF Working
<1> QED
  BY <1>2, <1>3, <1>4, <1>5, QuietDownloadOk DEF NextShard

LEMMA AlreadyDownloadedDownload == ASSUME DownloadOk, AlreadyDownloaded PROVE DownloadOk'
<1>1. conv' = [at |-> "convert", mode |-> conv.mode, n |-> conv.n, shard |-> conv.shard, done |-> <<>>]
  BY ConvGoFacts DEF AlreadyDownloaded, DownloadOk
<1>2. conv.mode \in Modes /\ conv.n \in Streams /\ conv.shard \in Shards
  BY DEF DownloadOk, RunOk, AlreadyDownloaded, ConvAt, Working
<1>3. "convert" \in Working
  BY DEF Working
<1> QED
  BY <1>1, <1>2, <1>3, QuietDownloadOk DEF AlreadyDownloaded

LEMMA StartSingleDownload == ASSUME DownloadOk, StartSingle PROVE DownloadOk'
<1>1. conv' = [at |-> "single", mode |-> conv.mode, n |-> conv.n, shard |-> conv.shard, done |-> <<>>]
  BY ConvGoFacts DEF StartSingle, DownloadOk
<1>2. conv.mode \in Modes /\ conv.n \in Streams /\ conv.shard \in Shards
  BY DEF DownloadOk, RunOk, StartSingle, ConvAt, Working
<1>3. "single" \in Working
  BY DEF Working
<1>4. conv'.shard \notin holed' => ~ Holes(dlPart[conv.shard]) /\ ~ Orphaned(conv.shard)
  BY <1>1 DEF StartSingle, S
<1> QED
  BY <1>1, <1>2, <1>3, <1>4, QuietDownloadOk DEF StartSingle, Orphaned

LEMMA SavePartialDownload == ASSUME DownloadOk, SavePartial PROVE DownloadOk'
<1>1. conv' = [at |-> "save", mode |-> conv.mode, n |-> conv.n, shard |-> conv.shard, done |-> <<>>]
  BY ConvGoFacts DEF SavePartial, DownloadOk
<1>2. conv.mode \in Modes /\ conv.n \in Streams /\ conv.shard \in Shards
  BY DEF DownloadOk, RunOk, SavePartial, ConvAt, Working
<1>3. "save" \in Working
  BY DEF Working
<1> QED
  BY <1>1, <1>2, <1>3, QuietDownloadOk DEF SavePartial

LEMMA OffDownload == ASSUME DownloadOk, UNCHANGED <<download, holed>>, conv' = Off PROVE DownloadOk'
<1>1. conv' = [at |-> "off", mode |-> "main", n |-> 1, shard |-> 0, done |-> <<>>] /\ "main" \in Modes
  BY DEF Off, Modes
<1>2. "off" \in Working \cup {"off", "next", "local"} /\ "off" \notin Working
  BY DEF Working
<1> QED
  BY <1>1, <1>2, QuietDownloadOk


\* The files of _inflight go, all of them or some.
LEMMA ClearedDownload ==
    ASSUME DownloadOk, NEW gone, NEW sides, NEW fulls,
           dlPart' = [s \in Shards |-> IF s \in gone THEN NoPart ELSE dlPart[s]],
           dlSide' = [s \in Shards |-> IF s \in sides THEN NoSide ELSE dlSide[s]],
           dlFull' = [s \in Shards |-> IF s \in fulls THEN NoPart ELSE dlFull[s]],
           UNCHANGED holed,
           NEW a \in {"off", "next"},
           conv' = [at |-> a, mode |-> conv'.mode, n |-> conv'.n, shard |-> conv'.shard,
                    done |-> conv'.done],
           conv'.mode \in Modes, a = "next" => conv'.n \in Streams
    PROVE  DownloadOk'
<1>1. ConvShape'
  BY DEF DownloadOk, ConvShape
<1>2. conv'.at = a
  OBVIOUS
<1>3. RunOk'
  BY <1>2 DEF RunOk, Working
<1>4. ASSUME NEW s \in Shards PROVE SideOk(dlSide[s])' /\ (s \notin holed' => ShardOk(s)')
  <2>1. dlPart'[s] \in {NoPart, dlPart[s]} /\ dlSide'[s] \in {NoSide, dlSide[s]}
        /\ dlFull'[s] \in {NoPart, dlFull[s]}
    OBVIOUS
  <2>2. SideOk(dlSide[s]) /\ (s \notin holed => ShardOk(s))
    BY DEF DownloadOk
  <2>3. SideOk(dlSide'[s])
    BY <2>1, <2>2 DEF SideOk
  <2>4. ~ Holes(NoPart)
    BY DEF Holes
  <2>5. s \notin holed' => ShardOk(s)'
    BY <2>1, <2>2, <2>4 DEF ShardOk
  <2> QED
    BY <2>3, <2>5
<1> QED
  BY <1>1, <1>3, <1>4 DEF DownloadOk

LEMMA FinishConvertDownload == ASSUME DownloadOk, FinishConvert PROVE DownloadOk'
<1>1. conv' = [at |-> "off", mode |-> "main", n |-> 1, shard |-> 0, done |-> <<>>] /\ "main" \in Modes
  BY DEF FinishConvert, Off, Modes
<1>2. /\ dlPart' = [s \in Shards |-> IF s \in Shards THEN NoPart ELSE dlPart[s]]
      /\ dlSide' = [s \in Shards |-> IF s \in Shards THEN NoSide ELSE dlSide[s]]
      /\ dlFull' = [s \in Shards |-> IF s \in Shards THEN NoPart ELSE dlFull[s]]
      /\ UNCHANGED holed
  BY DEF FinishConvert, Cleared
<1>3. conv' = [at |-> "off", mode |-> conv'.mode, n |-> conv'.n, shard |-> conv'.shard,
                done |-> conv'.done] /\ conv'.mode \in Modes
  BY <1>1
<1> QED
  BY ONLY DownloadOk, <1>2, <1>3, ClearedDownload

LEMMA ClearInflightDownload == ASSUME DownloadOk, ClearInflight PROVE DownloadOk'
<1>1. conv' = [at |-> "next", mode |-> conv.mode, n |-> conv.n, shard |-> conv.shard, done |-> <<>>]
  BY ConvGoFacts DEF ClearInflight, DownloadOk
<1>2. /\ dlPart' = [s \in Shards |-> IF s \in Shards THEN NoPart ELSE dlPart[s]]
      /\ dlSide' = [s \in Shards |-> IF s \in Shards THEN NoSide ELSE dlSide[s]]
      /\ dlFull' = [s \in Shards |-> IF s \in Shards THEN NoPart ELSE dlFull[s]]
      /\ UNCHANGED holed
  BY DEF ClearInflight, Cleared
<1>3. conv.mode \in Modes /\ conv.n \in Streams
  BY DEF DownloadOk, RunOk, ClearInflight, ConvAt, Working
<1>4. conv' = [at |-> "next", mode |-> conv'.mode, n |-> conv'.n, shard |-> conv'.shard,
                done |-> conv'.done] /\ conv'.mode \in Modes /\ conv'.n \in Streams
  BY <1>1, <1>3
<1> QED
  BY ONLY DownloadOk, <1>2, <1>4, ClearedDownload

LEMMA KillClearingDownload == ASSUME DownloadOk, KillClearing PROVE DownloadOk'
<1>1. conv' = [at |-> "off", mode |-> "main", n |-> 1, shard |-> 0, done |-> <<>>] /\ "main" \in Modes
  BY DEF KillClearing, Off, Modes
<1>2. PICK gone, sides, fulls \in SUBSET Shards :
        /\ dlPart' = [s \in Shards |-> IF s \in gone THEN NoPart ELSE dlPart[s]]
        /\ dlSide' = [s \in Shards |-> IF s \in sides THEN NoSide ELSE dlSide[s]]
        /\ dlFull' = [s \in Shards |-> IF s \in fulls THEN NoPart ELSE dlFull[s]]
  BY DEF KillClearing
<1>3. conv' = [at |-> "off", mode |-> conv'.mode, n |-> conv'.n, shard |-> conv'.shard,
                done |-> conv'.done] /\ conv'.mode \in Modes
  BY <1>1
<1>4. UNCHANGED holed
  BY DEF KillClearing
<1> QED
  BY ONLY DownloadOk, <1>2, <1>3, <1>4, ClearedDownload

\* The step changes the files of the shard at hand only.
LEMMA AtHandDownload ==
    ASSUME DownloadOk, NEW part, NEW side, NEW full, NEW a \in Working,
           conv.at \in Working,
           dlPart' = [dlPart EXCEPT ![S] = part],
           dlSide' = [dlSide EXCEPT ![S] = side],
           dlFull' = [dlFull EXCEPT ![S] = full],
           holed' \in {holed, holed \cup {S}},
           conv' = [at |-> a, mode |-> conv.mode, n |-> conv.n, shard |-> conv.shard,
                    done |-> conv'.done],
           SideOk(side),
           a = "multi" => Fetched(conv.n, conv'.done),
           S \notin holed' =>
               /\ part # NoPart => part \in Seq({"data", "hole"})
               /\ part # NoPart /\ side # NoSide =>
                     FullFile(part) /\ Promised(part, side.n, side.done)
               /\ ~ Holes(full)
               /\ a = "multi" => FullFile(part) /\ Promised(part, conv.n, conv'.done)
               /\ a \in {"rename", "single"} => ~ Holes(part)
               /\ a = "single" => side = NoSide \/ part # NoPart
               /\ a = "fallback" => part = NoPart
    PROVE  DownloadOk'
<1>1. ConvShape'
  BY DEF DownloadOk, ConvShape
<1>2. /\ conv'.at = a /\ conv'.mode = conv.mode /\ conv'.n = conv.n /\ conv'.shard = conv.shard
      /\ S' = S
  BY DEF S
<1>3. conv.mode \in Modes /\ conv.n \in Streams /\ S \in Shards
  BY DEF DownloadOk, RunOk, S
<1>4. dlPart'[S] = part /\ dlSide'[S] = side /\ dlFull'[S] = full
  BY <1>3 DEF DownloadOk, ConvShape
<1>5. \A s \in Shards : s # S => dlPart'[s] = dlPart[s] /\ dlSide'[s] = dlSide[s] /\ dlFull'[s] = dlFull[s]
  BY DEF DownloadOk, ConvShape
<1>6. RunOk'
  <2>1. conv'.at \in Working => conv'.shard \in Shards /\ conv'.n \in Streams
    BY <1>2, <1>3 DEF S
  <2>2. conv'.at # "next" /\ conv'.at \in Working \cup {"off", "next", "local"}
    BY <1>2 DEF Working
  <2>3. conv'.at = "multi" => Fetched(conv'.n, conv'.done)
    BY <1>2
  <2>4. S' \notin holed' =>
          /\ conv'.at = "multi" => FullFile(dlPart'[S']) /\ Promised(dlPart'[S'], conv'.n, conv'.done)
          /\ conv'.at \in {"rename", "single"} => ~ Holes(dlPart'[S'])
          /\ conv'.at = "single" => dlSide'[S'] = NoSide \/ dlPart'[S'] # NoPart
          /\ conv'.at = "fallback" => dlPart'[S'] = NoPart
    BY <1>2, <1>4
  <2> QED
    BY <1>2, <1>3, <2>1, <2>2, <2>3, <2>4 DEF RunOk
<1>7. ASSUME NEW s \in Shards PROVE SideOk(dlSide[s])' /\ (s \notin holed' => ShardOk(s)')
  <2>1. CASE s = S
    BY <1>4, <2>1 DEF ShardOk
  <2>2. CASE s # S
    BY <1>5, <2>2 DEF ShardOk, DownloadOk
  <2> QED
    BY <2>1, <2>2
<1> QED
  BY <1>1, <1>6, <1>7 DEF DownloadOk

\* What the invariant says of a step on the shard at hand.
LEMMA AtHandFacts ==
    ASSUME DownloadOk, conv.at \in Working
    PROVE  /\ S \in Shards /\ conv.n \in Streams /\ SideOk(dlSide[S])
           /\ S \notin holed => ShardOk(S)
           /\ dlPart = [dlPart EXCEPT ![S] = dlPart[S]]
           /\ dlSide = [dlSide EXCEPT ![S] = dlSide[S]]
           /\ dlFull = [dlFull EXCEPT ![S] = dlFull[S]]
BY DEF DownloadOk, RunOk, ConvShape, S

LEMMA NewFileOk ==
    ASSUME NEW f, f = [b \in 1..ShardBlocks |-> "hole"]
    PROVE  FullFile(f) /\ f \in Seq({"data", "hole"})
BY ConverterAssumption DEF FullFile

LEMMA FullFileIsSeq ==
    ASSUME NEW f, FullFile(f) PROVE f \in Seq({"data", "hole"}) /\ Len(f) = ShardBlocks
BY ConverterAssumption DEF FullFile

LEMMA SegLenType ==
    ASSUME NEW n \in Streams, NEW t \in 1..n
    PROVE  SegLen(n, t) \in Nat /\ SegStart(n, t) + SegLen(n, t) <= ShardBlocks
<1>1. n \in Nat \ {0} /\ t \in 1..(n + 1) /\ t + 1 \in 1..(n + 1)
  BY NumbersOfStreams
<1>2. SegStart(n, t) \in Nat /\ SegStart(n, t + 1) \in Nat
  BY <1>1, SegType
<1> QED
  BY <1>2, SegOrder, ConverterAssumption DEF SegLen

LEMMA StartStreamsDownload == ASSUME DownloadOk, StartStreams PROVE DownloadOk'
<1>1. conv.at = "get" /\ conv.at \in Working /\ conv.n \in Streams /\ S \in Shards
  BY AtHandFacts DEF StartStreams, ConvAt, Working
<1>2. PICK part : part = IF dlPart[S] = NoPart THEN [b \in 1..ShardBlocks |-> "hole"] ELSE dlPart[S]
  OBVIOUS
<1>3. PICK side : side = dlSide[S]
  OBVIOUS
<1>4. PICK full : full = dlFull[S]
  OBVIOUS
<1>5. PICK done : done = ResumePoint(S, conv.n)
  OBVIOUS
<1>6. /\ dlPart' = [dlPart EXCEPT ![S] = part]
      /\ dlSide' = [dlSide EXCEPT ![S] = side]
      /\ dlFull' = [dlFull EXCEPT ![S] = full]
  BY <1>1, <1>2, <1>3, <1>4, AtHandFacts DEF StartStreams
<1>7. conv' = [at |-> "multi", mode |-> conv.mode, n |-> conv.n, shard |-> conv.shard, done |-> done]
  BY <1>5 DEF StartStreams, DownloadOk, ConvShape
<1>8. holed' \in {holed, holed \cup {S}} /\ (S \notin holed' => S \notin holed /\ ~ Orphaned(S))
  BY DEF StartStreams
<1>9. SideOk(side)
  BY <1>1, <1>3, AtHandFacts
<1>10. conv.n \in Nat \ {0}
  BY <1>1, NumbersOfStreams
<1>11. Fetched(conv.n, done) /\ (done # side.done \/ side.n # conv.n => done = [t \in 1..conv.n |-> 0])
  <2>1. CASE side.n = conv.n
    <3>1. side # NoSide
      BY <1>10, <2>1 DEF NoSide
    <3> QED
      BY <1>3, <1>5, <1>9, <2>1, <3>1 DEF SideOk, ResumePoint
  <2>2. CASE side.n # conv.n
    <3>1. done = [t \in 1..conv.n |-> 0]
      BY <1>3, <1>5, <2>2 DEF ResumePoint
    <3>2. \A t \in 1..conv.n : 0 <= SegLen(conv.n, t)
      BY <1>1, SegLenType
    <3> QED
      BY <3>1, <3>2, <2>2 DEF Fetched
  <2> QED
    BY <2>1, <2>2
<1>12. ASSUME S \notin holed'
       PROVE  /\ FullFile(part) /\ part \in Seq({"data", "hole"})
              /\ side # NoSide => Promised(part, side.n, side.done)
              /\ ~ Holes(full) /\ Promised(part, conv.n, done)
  <2>1. ShardOk(S)
    BY <1>1, <1>8, <1>12, AtHandFacts
  <2>2. FullFile(part) /\ (side # NoSide => Promised(part, side.n, side.done))
    <3>1. CASE dlPart[S] = NoPart
      BY <1>2, <1>3, <1>8, <1>12, <3>1, NewFileOk DEF Orphaned
    <3>2. CASE dlPart[S] # NoPart
      BY <1>2, <1>3, <2>1, <3>2 DEF ShardOk, StartStreams, Legacy
    <3> QED
      BY <3>1, <3>2
  <2>3. ~ Holes(full)
    BY <1>4, <2>1 DEF ShardOk
  <2>4. Promised(part, conv.n, done)
    <3>1. CASE done = [t \in 1..conv.n |-> 0]
      BY <3>1 DEF Promised
    <3>2. CASE side.n = conv.n /\ done = side.done
      <4>1. side # NoSide
        BY <1>10, <3>2 DEF NoSide
      <4> QED
        BY <2>2, <3>2, <4>1
    <3> QED
      BY <1>11, <3>1, <3>2
  <2> QED
    BY <2>2, <2>3, <2>4, FullFileIsSeq
<1>13. "multi" \in Working
  BY DEF Working
<1>14. conv'.done = done
  BY <1>7
<1> QED
  BY <1>1, <1>6, <1>7, <1>8, <1>9, <1>11, <1>12, <1>13, <1>14, AtHandDownload

\* A written block is there, and no other changes.
LEMMA PWriteKeeps ==
    ASSUME NEW f, FullFile(f), NEW b \in 1..ShardBlocks
    PROVE  /\ FullFile(PWrite(f, b)) /\ PWrite(f, b)[b] = "data"
           /\ \A i \in 1..ShardBlocks : f[i] = "data" => PWrite(f, b)[i] = "data"
<1>1. DOMAIN f = 1..ShardBlocks /\ DOMAIN f \cup 1..b = 1..ShardBlocks
  BY ConverterAssumption DEF FullFile
<1>2. \A i \in 1..ShardBlocks : PWrite(f, b)[i] = IF i = b THEN "data" ELSE f[i]
  BY <1>1 DEF PWrite
<1>3. PWrite(f, b) = [i \in 1..ShardBlocks |-> IF i = b THEN "data" ELSE f[i]]
  BY <1>1, <1>2 DEF PWrite
<1> QED
  BY <1>2, <1>3 DEF FullFile

\* What was promised of a part stays promised when a block is written.
LEMMA PWriteKeepsPromises ==
    ASSUME NEW f, FullFile(f), NEW b \in 1..ShardBlocks, NEW n \in Streams, NEW done,
           Fetched(n, done), Promised(f, n, done)
    PROVE  Promised(PWrite(f, b), n, done)
<1> SUFFICES ASSUME NEW t \in 1..n, NEW k \in 1..done[t]
             PROVE  PWrite(f, b)[SegStart(n, t) + k] = "data"
  BY DEF Promised
<1>1. f[SegStart(n, t) + k] = "data"
  BY DEF Promised
<1>2. SegStart(n, t) \in Nat
  BY SegType, NumbersOfStreams
<1>3. done[t] \in Nat /\ done[t] <= SegLen(n, t)
  BY DEF Fetched
<1>4. SegStart(n, t) + k \in 1..ShardBlocks
  BY <1>2, <1>3, SegLenType, ConverterAssumption
<1> QED
  BY <1>1, <1>4, PWriteKeeps

LEMMA StreamBlockDownload ==
    ASSUME DownloadOk, NEW t \in 1..conv.n, StreamBlock(t) PROVE DownloadOk'
<1> DEFINE n == conv.n
           b == SegStart(n, t) + conv.done[t] + 1
<1>1. conv.at = "multi" /\ conv.at \in Working /\ n \in Streams /\ S \in Shards
  BY AtHandFacts DEF StreamBlock, ConvAt, Working
<1>2. PICK part : part = PWrite(dlPart[S], b)
  OBVIOUS
<1>3. PICK side : side = dlSide[S]
  OBVIOUS
<1>4. PICK full : full = dlFull[S]
  OBVIOUS
<1>5. PICK done : done = [conv.done EXCEPT ![t] = @ + 1]
  OBVIOUS
<1>6. /\ dlPart' = [dlPart EXCEPT ![S] = part]
      /\ dlSide' = [dlSide EXCEPT ![S] = side]
      /\ dlFull' = [dlFull EXCEPT ![S] = full]
      /\ holed' = holed
  BY <1>1, <1>2, <1>3, <1>4, AtHandFacts DEF StreamBlock
<1>7. conv' = [at |-> "multi", mode |-> conv.mode, n |-> conv.n, shard |-> conv.shard, done |-> done]
  BY <1>1, <1>5 DEF StreamBlock, DownloadOk, ConvShape
<1>8. SideOk(side)
  BY <1>1, <1>3, AtHandFacts
<1>9. Fetched(n, conv.done) /\ conv.done[t] \in Nat /\ conv.done[t] < SegLen(n, t)
  BY <1>1 DEF DownloadOk, RunOk, StreamBlock, Fetched
<1>10. SegLen(n, t) \in Nat /\ SegStart(n, t) + SegLen(n, t) <= ShardBlocks /\ SegStart(n, t) \in Nat
  BY <1>1, SegLenType, SegType, NumbersOfStreams
<1>11. b \in 1..ShardBlocks
  BY <1>9, <1>10, ConverterAssumption
<1>12. /\ done \in [1..n -> Nat] /\ done[t] = conv.done[t] + 1
       /\ \A u \in 1..n : u # t => done[u] = conv.done[u]
  <2>1. PICK d : d = conv.done
    OBVIOUS
  <2>2. d \in [1..n -> Nat] /\ t \in 1..n /\ done = [d EXCEPT ![t] = d[t] + 1] /\ d[t] \in Nat
    BY <1>5, <1>9, <2>1 DEF Fetched
  <2> HIDE DEF n
  <2>3. done \in [1..n -> Nat] /\ done[t] = d[t] + 1 /\ \A u \in 1..n : u # t => done[u] = d[u]
    BY ONLY <2>2
  <2> QED
    BY <2>1, <2>3
<1>13. Fetched(n, done)
  BY <1>9, <1>10, <1>12 DEF Fetched
<1>14. ASSUME S \notin holed'
       PROVE  /\ FullFile(part)
              /\ side # NoSide => Promised(part, side.n, side.done)
              /\ ~ Holes(full) /\ Promised(part, n, done)
  <2>1. ShardOk(S) /\ FullFile(dlPart[S]) /\ Promised(dlPart[S], n, conv.done)
    BY <1>1, <1>6, <1>14, AtHandFacts DEF DownloadOk, RunOk
  <2>2. FullFile(part) /\ part[b] = "data" /\ Promised(part, n, conv.done)
    BY <1>1, <1>2, <1>9, <1>11, <2>1, PWriteKeeps, PWriteKeepsPromises
  <2>3. ASSUME side # NoSide PROVE Promised(part, side.n, side.done)
    <3>1. Promised(dlPart[S], side.n, side.done) \/ dlPart[S] = NoPart
      BY <1>3, <2>1, <2>3 DEF ShardOk
    <3>2. side.n \in Streams /\ Fetched(side.n, side.done)
      BY <1>8, <2>3 DEF SideOk
    <3>3. dlPart[S] # NoPart
      <4>1. \A i \in DOMAIN dlPart[S] : dlPart[S][i] \in {"data", "hole"}
        BY <2>1 DEF FullFile
      <4>2. 1 \in DOMAIN NoPart /\ NoPart[1] = "absent"
        BY DEF NoPart
      <4> QED
        BY <4>1, <4>2
    <3> QED
      BY <1>2, <1>11, <2>1, <3>1, <3>2, <3>3, PWriteKeepsPromises
  <2>4. ~ Holes(full)
    BY <1>4, <2>1 DEF ShardOk
  <2>5. Promised(part, n, done)
    <3> SUFFICES ASSUME NEW u \in 1..n, NEW k \in 1..done[u]
                 PROVE  part[SegStart(n, u) + k] = "data"
      BY DEF Promised
    <3>1. CASE k \in 1..conv.done[u]
      BY <2>2, <3>1 DEF Promised
    <3>2. CASE k \notin 1..conv.done[u]
      <4>1. u = t /\ k = conv.done[t] + 1
        BY <1>9, <1>12, <3>2
      <4>2. SegStart(n, u) + k = b
        BY <1>9, <1>10, <4>1
      <4> QED
        BY <2>2, <4>2
    <3> QED
      BY <3>1, <3>2
  <2> QED
    BY <2>2, <2>3, <2>4, <2>5
<1>15. "multi" \in Working /\ conv'.done = done
  BY <1>7 DEF Working
<1> HIDE DEF b
<1>16. S \notin holed' => part \in Seq({"data", "hole"})
  BY <1>14, FullFileIsSeq
<1> QED
  BY <1>1, <1>6, <1>7, <1>8, <1>13, <1>14, <1>15, <1>16, AtHandDownload

LEMMA CheckpointDownload == ASSUME DownloadOk, Checkpoint PROVE DownloadOk'
<1>1. conv.at = "multi" /\ conv.at \in Working /\ conv.n \in Streams /\ S \in Shards
  BY AtHandFacts DEF Checkpoint, ConvAt, Working
<1>2. PICK part : part = dlPart[S]
  OBVIOUS
<1>3. PICK side : side = [n |-> conv.n, done |-> conv.done]
  OBVIOUS
<1>4. PICK full : full = dlFull[S]
  OBVIOUS
<1>5. /\ dlPart' = [dlPart EXCEPT ![S] = part]
      /\ dlSide' = [dlSide EXCEPT ![S] = side]
      /\ dlFull' = [dlFull EXCEPT ![S] = full]
      /\ holed' = holed
  BY <1>1, <1>2, <1>3, <1>4, AtHandFacts DEF Checkpoint
<1>6. conv' = [at |-> "multi", mode |-> conv.mode, n |-> conv.n, shard |-> conv.shard, done |-> conv'.done]
      /\ conv'.done = conv.done
  BY <1>1 DEF Checkpoint, DownloadOk, ConvShape
<1>7. Fetched(conv.n, conv.done) /\ SideOk(side) /\ side.n = conv.n /\ side.done = conv.done
  BY <1>1, <1>3 DEF DownloadOk, RunOk, SideOk
<1>8. S \notin holed => ShardOk(S) /\ FullFile(dlPart[S]) /\ Promised(dlPart[S], conv.n, conv.done)
  BY <1>1, AtHandFacts DEF DownloadOk, RunOk
<1>9. S \notin holed => ~ Holes(full) /\ part \in Seq({"data", "hole"})
  BY <1>2, <1>4, <1>8, FullFileIsSeq DEF ShardOk
<1>10. "multi" \in Working
  BY DEF Working
<1> QED
  BY <1>1, <1>2, <1>5, <1>6, <1>7, <1>8, <1>9, <1>10, AtHandDownload

\* All segments streamed: no block is missing.
LEMMA AllStreamedNoHoles ==
    ASSUME NEW n \in Streams, NEW f, NEW done, FullFile(f), Fetched(n, done), Promised(f, n, done),
           \A t \in 1..n : done[t] = SegLen(n, t)
    PROVE  ~ Holes(f)
<1> SUFFICES ASSUME NEW i \in 1..ShardBlocks PROVE f[i] = "data"
  BY DEF Holes, FullFile
<1>1. PICK t \in 1..n : SegStart(n, t) < i /\ i <= SegStart(n, t + 1)
  BY SegCover
<1>2. SegStart(n, t) \in Nat /\ SegStart(n, t + 1) \in Nat
  BY SegType, NumbersOfStreams
<1>3. i - SegStart(n, t) \in 1..done[t] /\ SegStart(n, t) + (i - SegStart(n, t)) = i
  BY <1>1, <1>2, ConverterAssumption DEF SegLen
<1> QED
  BY <1>3 DEF Promised

LEMMA EndStreamsDownload == ASSUME DownloadOk, EndStreams PROVE DownloadOk'
<1>1. conv.at = "multi" /\ conv.at \in Working /\ conv.n \in Streams /\ S \in Shards
  BY AtHandFacts DEF EndStreams, ConvAt, Working
<1>2. PICK part : part = dlPart[S]
  OBVIOUS
<1>3. PICK full : full = dlFull[S]
  OBVIOUS
<1>4. /\ dlPart' = [dlPart EXCEPT ![S] = part]
      /\ dlSide' = [dlSide EXCEPT ![S] = NoSide]
      /\ dlFull' = [dlFull EXCEPT ![S] = full]
      /\ holed' = holed
  BY <1>1, <1>2, <1>3, AtHandFacts DEF EndStreams
<1>5. conv' = [at |-> "rename", mode |-> conv.mode, n |-> conv.n, shard |-> conv.shard, done |-> conv'.done]
  BY ConvGoFacts DEF EndStreams, DownloadOk
<1>6. Fetched(conv.n, conv.done) /\ SideOk(NoSide)
  BY <1>1 DEF DownloadOk, RunOk, SideOk
<1>7. S \notin holed => ShardOk(S) /\ FullFile(dlPart[S]) /\ Promised(dlPart[S], conv.n, conv.done)
  BY <1>1, AtHandFacts DEF DownloadOk, RunOk
<1>8. S \notin holed => ~ Holes(full) /\ part \in Seq({"data", "hole"}) /\ ~ Holes(part)
  BY <1>1, <1>2, <1>3, <1>6, <1>7, FullFileIsSeq, AllStreamedNoHoles DEF ShardOk, EndStreams, AllStreamed
<1>9. "rename" \in Working
  BY DEF Working
<1> QED
  BY <1>1, <1>4, <1>5, <1>6, <1>8, <1>9, AtHandDownload

\* A part without holes becomes the shard.
LEMMA RenamePartDownload ==
    ASSUME DownloadOk, conv.at \in {"rename", "single"}, RenamePart PROVE DownloadOk'
<1>1. conv.at \in Working /\ conv.n \in Streams /\ S \in Shards
  BY AtHandFacts DEF Working
<1>2. PICK side : side = dlSide[S]
  OBVIOUS
<1>3. PICK full : full = dlPart[S]
  OBVIOUS
<1>4. /\ dlPart' = [dlPart EXCEPT ![S] = NoPart]
      /\ dlSide' = [dlSide EXCEPT ![S] = side]
      /\ dlFull' = [dlFull EXCEPT ![S] = full]
      /\ holed' = holed
  BY <1>1, <1>2, <1>3, AtHandFacts DEF RenamePart
<1>5. conv' = [at |-> "convert", mode |-> conv.mode, n |-> conv.n, shard |-> conv.shard, done |-> conv'.done]
  BY ConvGoFacts DEF RenamePart, DownloadOk
<1>6. SideOk(side)
  BY <1>1, <1>2, AtHandFacts
<1>7. S \notin holed => ~ Holes(full)
  BY <1>3 DEF DownloadOk, RunOk
<1>8. "convert" \in Working
  BY DEF Working
<1> QED
  BY <1>1, <1>4, <1>5, <1>6, <1>7, <1>8, AtHandDownload

LEMMA FallBackDownload == ASSUME DownloadOk, FallBack PROVE DownloadOk'
<1>1. conv.at \in Working /\ conv.n \in Streams /\ S \in Shards
  BY AtHandFacts DEF Working, FallBack, ConvAt
<1>2. PICK side : side = dlSide[S]
  OBVIOUS
<1>3. PICK full : full = dlFull[S]
  OBVIOUS
<1>4. /\ dlPart' = [dlPart EXCEPT ![S] = NoPart]
      /\ dlSide' = [dlSide EXCEPT ![S] = side]
      /\ dlFull' = [dlFull EXCEPT ![S] = full]
      /\ holed' = holed
  BY <1>1, <1>2, <1>3, AtHandFacts DEF FallBack
<1>5. conv' = [at |-> "fallback", mode |-> conv.mode, n |-> conv.n, shard |-> conv.shard, done |-> conv'.done]
  BY ConvGoFacts DEF FallBack, DownloadOk
<1>6. SideOk(side)
  BY <1>1, <1>2, AtHandFacts
<1>7. S \notin holed => ~ Holes(full)
  BY <1>1, <1>3, AtHandFacts DEF ShardOk
<1>8. "fallback" \in Working
  BY DEF Working
<1> QED
  BY <1>1, <1>4, <1>5, <1>6, <1>7, <1>8, AtHandDownload

LEMMA DropSidecarDownload == ASSUME DownloadOk, DropSidecar PROVE DownloadOk'
<1>1. conv.at = "fallback" /\ conv.at \in Working /\ conv.n \in Streams /\ S \in Shards
  BY AtHandFacts DEF Working, DropSidecar, ConvAt
<1>2. PICK part : part = dlPart[S]
  OBVIOUS
<1>3. PICK full : full = dlFull[S]
  OBVIOUS
<1>4. /\ dlPart' = [dlPart EXCEPT ![S] = part]
      /\ dlSide' = [dlSide EXCEPT ![S] = NoSide]
      /\ dlFull' = [dlFull EXCEPT ![S] = full]
      /\ holed' = holed
  BY <1>1, <1>2, <1>3, AtHandFacts DEF DropSidecar
<1>5. conv' = [at |-> "single", mode |-> conv.mode, n |-> conv.n, shard |-> conv.shard, done |-> conv'.done]
  BY ConvGoFacts DEF DropSidecar, DownloadOk
<1>6. SideOk(NoSide)
  BY DEF SideOk
<1>7. S \notin holed => ~ Holes(full) /\ part = NoPart
  BY <1>1, <1>2, <1>3, AtHandFacts DEF ShardOk, DownloadOk, RunOk
<1>8. "single" \in Working /\ ~ Holes(NoPart)
  BY DEF Working, Holes
<1> QED
  BY <1>1, <1>4, <1>5, <1>6, <1>7, <1>8, AtHandDownload

LEMMA AppendBlockDownload ==
    ASSUME DownloadOk, NEW restart \in BOOLEAN, AppendBlock(restart) PROVE DownloadOk'
<1>1. conv.at = "single" /\ conv.at \in Working /\ conv.n \in Streams /\ S \in Shards
  BY AtHandFacts DEF Working, AppendBlock, ConvAt
<1>2. PICK base : base = IF restart THEN <<>> ELSE Have
  OBVIOUS
<1>3. PICK part : part = Append(base, "data")
  OBVIOUS
<1>4. PICK side : side = dlSide[S]
  OBVIOUS
<1>5. PICK full : full = dlFull[S]
  OBVIOUS
<1>6. /\ dlPart' = [dlPart EXCEPT ![S] = part]
      /\ dlSide' = [dlSide EXCEPT ![S] = side]
      /\ dlFull' = [dlFull EXCEPT ![S] = full]
      /\ holed' = holed
  BY <1>1, <1>2, <1>3, <1>4, <1>5, AtHandFacts DEF AppendBlock
<1>7. conv' = [at |-> "single", mode |-> conv.mode, n |-> conv.n, shard |-> conv.shard, done |-> conv'.done]
  BY <1>1 DEF AppendBlock, DownloadOk, ConvShape
<1>8. SideOk(side)
  BY <1>1, <1>4, AtHandFacts
<1>9. ASSUME S \notin holed
      PROVE  ~ Holes(full) /\ side = NoSide /\ part \in Seq({"data", "hole"}) /\ ~ Holes(part)
  <2>1. ShardOk(S) /\ ~ Holes(dlPart[S]) /\ (dlSide[S] = NoSide \/ dlPart[S] # NoPart)
    BY <1>1, <1>9, AtHandFacts DEF DownloadOk, RunOk
  <2>2. Len(Have) < ShardBlocks
    BY DEF AppendBlock
  <2>3. side = NoSide
    BY <1>4, <2>1, <2>2, FullFileIsSeq, ConverterAssumption DEF ShardOk, Have
  <2>4. base \in Seq({"data", "hole"}) /\ \A i \in 1..Len(base) : base[i] = "data"
    <3>1. CASE restart \/ dlPart[S] = NoPart
      BY <1>2, <3>1 DEF Have
    <3>2. CASE ~ restart /\ dlPart[S] # NoPart
      <4>1. base = dlPart[S] /\ base \in Seq({"data", "hole"})
        BY <1>2, <2>1, <3>2 DEF Have, ShardOk
      <4>2. \A i \in 1..Len(base) : base[i] \in {"data", "hole"} /\ base[i] # "hole"
        BY <2>1, <3>2, <4>1 DEF Holes
      <4> QED
        BY <4>1, <4>2
    <3> QED
      BY <3>1, <3>2
  <2>5. part \in Seq({"data", "hole"}) /\ \A i \in DOMAIN part : part[i] = "data"
    BY <1>3, <2>4
  <2> QED
    BY <1>5, <2>1, <2>3, <2>5 DEF ShardOk, Holes
<1> QED
  BY <1>1, <1>6, <1>7, <1>8, <1>9, AtHandDownload

LEMMA ReplaceOutputDownload == ASSUME DownloadOk, ReplaceOutput PROVE DownloadOk'
<1>1. conv' = [at |-> "clean", mode |-> conv.mode, n |-> conv.n, shard |-> conv.shard, done |-> <<>>]
  BY ConvGoFacts DEF ReplaceOutput, DownloadOk
<1>2. conv.mode \in Modes /\ conv.n \in Streams /\ conv.shard \in Shards
  BY DEF DownloadOk, RunOk, ReplaceOutput, ConvAt, Working
<1>3. "clean" \in Working
  BY DEF Working
<1> QED
  BY <1>1, <1>2, <1>3, QuietDownloadOk DEF ReplaceOutput

LEMMA LaunchLocalDownload == ASSUME DownloadOk, LaunchLocal PROVE DownloadOk'
<1>1. conv' = [at |-> "local", mode |-> "main", n |-> 1, shard |-> 0, done |-> <<>>] /\ "main" \in Modes
  BY DEF LaunchLocal, Off, Modes
<1>2. "local" \in Working \cup {"off", "next", "local"} /\ "local" \notin Working
  BY DEF Working
<1>3. UNCHANGED <<download, holed>> /\ conv'.mode \in Modes
  BY <1>1 DEF LaunchLocal
<1> QED
  BY ONLY DownloadOk, <1>1, <1>2, <1>3, QuietDownloadOk

LEMMA StutterDownload == ASSUME DownloadOk, UNCHANGED <<download, conv, holed>> PROVE DownloadOk'
<1>1. ConvShape'
  BY DEF DownloadOk, ConvShape, download
<1>2. RunOk'
  BY DEF DownloadOk, RunOk, download, S, FullFile, Promised, Fetched, Holes
<1>3. \A s \in Shards : SideOk(dlSide[s])' /\ (s \notin holed' => ShardOk(s)')
  BY DEF DownloadOk, ShardOk, download, SideOk, Holes, FullFile, Promised
<1> QED
  BY <1>1, <1>2, <1>3 DEF DownloadOk

LEMMA ConvNextDownload == ASSUME DownloadOk, [ConvNext]_convVars PROVE DownloadOk'
<1>1. CASE \E mode \in Modes, n \in Streams : LaunchConvert(mode, n)
  BY <1>1, LaunchConvertDownload
<1>2. CASE NextShard \/ FinishConvert
  BY <1>2, NextShardDownload, FinishConvertDownload
<1>3. CASE AlreadyDownloaded \/ StartSingle \/ StartStreams
  BY <1>3, AlreadyDownloadedDownload, StartSingleDownload, StartStreamsDownload
<1>4. CASE \E t \in 1..conv.n : StreamBlock(t)
  BY <1>4, StreamBlockDownload
<1>5. CASE Checkpoint \/ EndStreams \/ FallBack \/ DropSidecar
  BY <1>5, CheckpointDownload, EndStreamsDownload, FallBackDownload, DropSidecarDownload
<1>6. CASE RenameStreamed \/ RenameSingle
  BY <1>6, RenamePartDownload DEF RenameStreamed, RenameSingle, ConvAt
<1>7. CASE \E restart \in BOOLEAN : AppendBlock(restart)
  BY <1>7, AppendBlockDownload
<1>8. CASE SavePartial \/ ReplaceOutput \/ ClearInflight \/ KillClearing
  BY <1>8, SavePartialDownload, ReplaceOutputDownload, ClearInflightDownload, KillClearingDownload
<1>9. CASE KillConvert \/ WriteContainerManifest \/ KillLocal
  <2>1. conv' = Off /\ UNCHANGED <<download, holed>>
    BY <1>9 DEF KillConvert, WriteContainerManifest, KillLocal
  <2> QED
    BY <2>1, OffDownload
<1>10. CASE LaunchLocal
  BY <1>10, LaunchLocalDownload
<1>11. CASE (\E s \in Shards : LocalShard(s)) \/ UNCHANGED convVars
  <2>1. UNCHANGED <<download, conv, holed>>
    BY <1>11 DEF LocalShard, convVars
  <2> QED
    BY <2>1, StutterDownload
<1> QED
  BY <1>1, <1>2, <1>3, <1>4, <1>5, <1>6, <1>7, <1>8, <1>9, <1>10, <1>11 DEF ConvNext

LEMMA ReplaceOutputOutputs == ASSUME DownloadOk, OutputsOk, ReplaceOutput PROVE OutputsOk'
<1>1. conv.at \in Working /\ S \in Shards /\ conv.mode \in Modes /\ holed' = holed
  BY AtHandFacts DEF Working, ReplaceOutput, ConvAt, DownloadOk, RunOk
<1>2. S \notin holed => ~ Holes(dlFull[S])
  BY <1>1, AtHandFacts DEF ShardOk
<1>3. Converted.tensors = Kept(S, conv.mode) /\ (S \notin holed => Converted.state = "whole")
  BY <1>2 DEF Converted
<1>4. PICK out : out = Converted
  OBVIOUS
<1>5. outputs' = [outputs EXCEPT ![conv.mode] = [outputs[conv.mode] EXCEPT ![S] = out]]
  BY <1>4 DEF ReplaceOutput
<1>6. outputs = [m \in Modes |-> [s \in Shards |-> outputs[m][s]]]
  BY DEF OutputsOk
<1>7. outputs' = [m \in Modes |-> [s \in Shards |-> IF m = conv.mode /\ s = S THEN out ELSE outputs[m][s]]]
  BY <1>1, <1>5, <1>6
<1>8. ASSUME NEW m \in Modes, NEW s \in Shards
      PROVE  outputs'[m][s] = IF m = conv.mode /\ s = S THEN out ELSE outputs[m][s]
  BY <1>7
<1>9. outputs' = [m \in Modes |-> [s \in Shards |-> outputs'[m][s]]]
  BY <1>7
<1>10. ASSUME NEW m \in Modes, NEW s \in Shards
       PROVE  /\ outputs'[m][s].tensors \subseteq Kept(s, m)
              /\ outputs'[m][s] # NoOutput => outputs'[m][s].state = "whole" \/ s \in holed'
  BY <1>1, <1>3, <1>4, <1>8 DEF OutputsOk
<1> QED
  BY <1>9, <1>10 DEF OutputsOk

LEMMA OtherOutputs ==
    ASSUME OutputsOk, outputs' = outputs, holed \subseteq holed' PROVE OutputsOk'
BY DEF OutputsOk

LEMMA ConvNextOutputs ==
    ASSUME DownloadOk, OutputsOk, [ConvNext]_convVars PROVE OutputsOk'
<1>1. CASE ReplaceOutput
  BY <1>1, ReplaceOutputOutputs
<1>2. CASE ~ ReplaceOutput
  <2>1. outputs' = outputs
    BY <1>2 DEF ConvNext, convVars, LaunchConvert, NextShard, FinishConvert, AlreadyDownloaded,
       StartSingle, StartStreams, StreamBlock, Checkpoint, EndStreams, RenameStreamed, RenamePart,
       FallBack, DropSidecar, AppendBlock, RenameSingle, SavePartial, ClearInflight, KillConvert,
       KillClearing, LaunchLocal, LocalShard, WriteContainerManifest, KillLocal
  <2>2. holed \subseteq holed'
    BY <1>2 DEF ConvNext, convVars, LaunchConvert, NextShard, FinishConvert, AlreadyDownloaded,
       StartSingle, StartStreams, StreamBlock, Checkpoint, EndStreams, RenameStreamed, RenamePart,
       FallBack, DropSidecar, AppendBlock, RenameSingle, SavePartial, ClearInflight, KillConvert,
       KillClearing, LaunchLocal, LocalShard, WriteContainerManifest, KillLocal
  <2> QED
    BY <2>1, <2>2, OtherOutputs
<1> QED
  BY <1>1, <1>2

\* Only the local conversion touches its manifest.
LEMMA OtherManifest ==
    ASSUME ManifestOk, UNCHANGED local, conv.at = "local" <=> conv'.at = "local" PROVE ManifestOk'
BY DEF ManifestOk, Documents, local

LEMMA ConvNextManifest ==
    ASSUME DownloadOk, ManifestOk, [ConvNext]_convVars PROVE ManifestOk'
<1>1. CASE LaunchLocal
  <2>1. conv.at = "off" /\ conv'.at = "local" /\ UNCHANGED <<localDone, resumed>>
    BY <1>1 DEF LaunchLocal, ConvAt, Off
  <2>2. manifest' = [memory |-> manifest.disk, disk |-> manifest.disk]
    BY <1>1 DEF LaunchLocal, ManifestOk
  <2> QED
    BY <2>1, <2>2 DEF ManifestOk, Documents
<1>2. ASSUME NEW s \in Shards, LocalShard(s) PROVE ManifestOk'
  <2>1. conv.at = "local" /\ conv'.at = "local" /\ resumed' = resumed /\ localDone' = localDone \cup {s}
    BY <1>2 DEF LocalShard, ConvAt
  <2>2. manifest' = [memory |-> manifest.memory \cup Kept(s, "main"), disk |-> manifest.disk]
    BY <1>2 DEF LocalShard, ManifestOk
  <2> QED
    BY <2>1, <2>2 DEF ManifestOk, Documents
<1>3. CASE WriteContainerManifest
  <2>1. conv.at = "local" /\ conv'.at = "off" /\ UNCHANGED <<localDone, resumed>>
    BY <1>3 DEF WriteContainerManifest, ConvAt, Off
  <2>2. manifest' = [memory |-> manifest.memory, disk |-> manifest.memory]
    BY <1>3 DEF WriteContainerManifest, ManifestOk
  <2> QED
    BY <2>1, <2>2 DEF ManifestOk, Documents
<1>4. CASE KillLocal
  <2>1. /\ conv.at = "local" /\ conv'.at = "off" /\ localDone' = localDone
        /\ ~ resumed' => ~ resumed /\ manifest.memory = manifest.disk
    BY <1>4 DEF KillLocal, ConvAt, Off
  <2>2. manifest' = [memory |-> {}, disk |-> manifest.disk]
    BY <1>4 DEF KillLocal, ManifestOk
  <2> QED
    BY <2>1, <2>2 DEF ManifestOk, Documents
<1>5. CASE \/ \E mode \in Modes, n \in Streams : LaunchConvert(mode, n)
           \/ NextShard \/ FinishConvert \/ AlreadyDownloaded \/ StartSingle \/ StartStreams
           \/ \E t \in 1..conv.n : StreamBlock(t)
  <2>1. UNCHANGED local /\ conv.at # "local"
    BY <1>5 DEF ConvAt, LaunchConvert, NextShard, FinishConvert, AlreadyDownloaded,
       StartSingle, StartStreams, StreamBlock
  <2>2. conv = [at |-> conv.at, mode |-> conv.mode, n |-> conv.n, shard |-> conv.shard,
                done |-> conv.done]
    BY DEF DownloadOk, ConvShape
  <2>3. conv'.at # "local"
    <3>3. CASE \E mode \in Modes, n \in Streams : LaunchConvert(mode, n)
      BY <3>3 DEF LaunchConvert, Off
    <3>4. CASE NextShard
      BY <2>2, <3>4 DEF NextShard
    <3>5. CASE FinishConvert
      BY <3>5 DEF FinishConvert, Off
    <3>6. CASE AlreadyDownloaded \/ StartSingle
      BY <2>2, <3>6 DEF AlreadyDownloaded, StartSingle, ConvGo
    <3>7. CASE StartStreams
      BY <2>2, <3>7 DEF StartStreams
    <3>8. CASE \E t \in 1..conv.n : StreamBlock(t)
      BY <2>1, <2>2, <3>8 DEF StreamBlock
    <3> QED
      BY <1>5, <3>3, <3>4, <3>5, <3>6, <3>7, <3>8
  <2> QED
    BY <2>1, <2>3, OtherManifest
<1>6. CASE \/ Checkpoint \/ EndStreams \/ RenameStreamed \/ FallBack \/ DropSidecar
           \/ (\E restart \in BOOLEAN : AppendBlock(restart)) \/ RenameSingle
           \/ SavePartial \/ ReplaceOutput \/ ClearInflight \/ KillConvert \/ KillClearing
  <2>1. UNCHANGED local /\ conv.at # "local"
    BY <1>6 DEF ConvAt, Checkpoint, EndStreams, RenameStreamed, RenamePart, FallBack, DropSidecar,
       AppendBlock, RenameSingle, SavePartial, ReplaceOutput, ClearInflight, KillConvert, KillClearing
  <2>2. conv = [at |-> conv.at, mode |-> conv.mode, n |-> conv.n, shard |-> conv.shard,
                done |-> conv.done]
    BY DEF DownloadOk, ConvShape
  <2>3. conv'.at # "local"
    <3>3. CASE Checkpoint \/ \E restart \in BOOLEAN : AppendBlock(restart)
      BY <2>1, <3>3 DEF Checkpoint, AppendBlock
    <3>4. CASE EndStreams \/ FallBack \/ DropSidecar
      BY <2>2, <3>4 DEF EndStreams, FallBack, DropSidecar, ConvGo
    <3>5. CASE RenameStreamed \/ RenameSingle
      BY <2>2, <3>5 DEF RenameStreamed, RenameSingle, RenamePart, ConvGo
    <3>6. CASE SavePartial \/ ReplaceOutput \/ ClearInflight
      BY <2>2, <3>6 DEF SavePartial, ReplaceOutput, ClearInflight, ConvGo
    <3>7. CASE KillConvert \/ KillClearing
      BY <3>7 DEF KillConvert, KillClearing, Off
    <3> QED
      BY <1>6, <3>3, <3>4, <3>5, <3>6, <3>7
  <2> QED
    BY <2>1, <2>3, OtherManifest
<1>7. CASE UNCHANGED convVars
  BY <1>7, OtherManifest DEF convVars
<1> QED
  BY <1>1, <1>2, <1>3, <1>4, <1>5, <1>6, <1>7 DEF ConvNext

LEMMA ConvInitIInv == ASSUME ConvInit PROVE ConvIInv
<1>1. conv = [at |-> "off", mode |-> "main", n |-> 1, shard |-> 0, done |-> <<>>]
  BY DEF ConvInit, Off
<1>2. ConvShape
  BY <1>1 DEF ConvInit, ConvShape
<1>3. RunOk
  BY <1>1 DEF RunOk, Working, Modes
<1>4. \A s \in Shards : SideOk(dlSide[s]) /\ ShardOk(s)
  BY DEF ConvInit, SideOk, ShardOk, Holes
<1>5. OutputsOk
  BY DEF ConvInit, OutputsOk, NoOutput
<1>6. ManifestOk
  BY DEF ConvInit, ManifestOk, Documents
<1> QED
  BY <1>2, <1>3, <1>4, <1>5, <1>6 DEF ConvIInv, DownloadOk

\* The modes divide the tensors of a shard among them.
LEMMA ModesKeepApart ==
    ASSUME NEW s \in Shards, NEW m \in Modes, NEW k \in Modes \ {m}
    PROVE  Kept(s, m) \cap Kept(s, k) = {}
<1> SUFFICES ASSUME NEW t \in TensorsOf[s], t \in Kept(s, m), t \in Kept(s, k) PROVE FALSE
  BY DEF Kept
<1>1. t \in Tensors /\ t.layer \in -1..NLayers
  BY TensorsAssumption DEF Tensors
<1>2. t.part # "scale_inv"
  BY DEF Kept, Classify
<1>3. ASSUME NEW x \in {m, k}
      PROVE  /\ x = "idx" => t.layer \in 0..(NLayers - 1) /\ IsIndexer(t)
             /\ x = "mtp" => t.layer = NLayers /\ ~ IsIndexer(t)
             /\ x = "main" => ~ (t.layer >= NLayers) /\ ~ IsIndexer(t)
  BY <1>2, t \in Kept(s, x) DEF Kept, Classify
<1> QED
  BY <1>1, <1>3, ConverterAssumption DEF Modes

LEMMA ConvInvariant == ConvSpec => []ConvIInv
<1>1. ConvInit => ConvIInv
  BY ConvInitIInv
<1>2. ConvIInv /\ [ConvNext]_convVars => ConvIInv'
  BY ConvNextDownload, ConvNextOutputs, ConvNextManifest DEF ConvIInv
<1> QED
  BY <1>1, <1>2, PTL DEF ConvSpec

\* A sidecar never promises a block that is not in its part, whatever the size
\* of the shards and the numbers of streams of the runs, however many of them
\* are killed (download_retry's checkpoints and its resume), unless the download
\* began beside a sidecar of another part or went on with one stream in a sparse
\* part.
THEOREM SidecarsStayTrue == ConvSpec => []SidecarIsTrue
<1>1. ConvIInv => SidecarIsTrue
  <2> SUFFICES ASSUME ConvIInv, NEW s \in Shards, dlSide[s] # NoSide, dlPart[s] # NoPart, s \notin holed,
                      NEW t \in DOMAIN dlSide[s].done, NEW b \in 1..dlSide[s].done[t]
               PROVE  dlPart[s][SegStart(dlSide[s].n, t) + b] = "data"
    BY DEF SidecarIsTrue
  <2>1. Promised(dlPart[s], dlSide[s].n, dlSide[s].done) /\ Fetched(dlSide[s].n, dlSide[s].done)
    BY DEF ConvIInv, DownloadOk, ShardOk, SideOk
  <2> QED
    BY <2>1 DEF Promised, Fetched
<1> QED
  BY <1>1, ConvInvariant, PTL

\* An output that exists was converted from all of its shard, holds no tensor
\* that another mode's output holds, and the manifest of a local conversion that
\* was not interrupted documents all it wrote (convert_shard, save_file_atomic).
THEOREM ConversionsStayWhole == ConvSpec => []ConversionsAreWhole
<1>1. ConvIInv => ConversionsAreWhole
  <2> SUFFICES ASSUME ConvIInv PROVE OutputsAreComplete /\ ManifestDocumentsOutputs
    BY DEF ConversionsAreWhole
  <2>1. OutputsAreComplete
    BY ModesKeepApart DEF ConvIInv, OutputsOk, OutputsAreComplete
  <2>2. ManifestDocumentsOutputs
    BY DEF ConvIInv, ManifestOk, Documents, ManifestDocumentsOutputs
  <2> QED
    BY <2>1, <2>2
<1> QED
  BY <1>1, ConvInvariant, PTL

(***************************************************************************)
(* The types of all that is on disk.  The converter's need a little more:  *)
(* a part or a shard has no more blocks than the file has, whatever was    *)
(* said of its holes, and there is a part as long as streams write to it.  *)
(***************************************************************************)
FileOk(f) == f = NoPart \/ \E m \in 0..ShardBlocks : f \in [1..m -> {"data", "hole"}]

FilesAreTyped ==
    /\ \A s \in Shards : FileOk(dlPart[s]) /\ FileOk(dlFull[s])
    /\ conv.at = "multi" => dlPart[S] # NoPart

RestIsTyped ==
    /\ \A m \in Modes, s \in Shards : outputs[m][s].state \in {"none", "torn", "holed", "whole"}
    /\ launches \in 0..Launches /\ holed \subseteq Shards
    /\ manifest.memory \subseteq Tensors /\ manifest.disk \subseteq Tensors /\ localDone \subseteq Shards

LEMMA DlFilesAre == ASSUME NEW f, FileOk(f) PROVE f \in DlFiles
BY DEF FileOk, DlFiles, BoundedSeq, SeqOf

LEMMA BlocksAreNotAbsent == ASSUME NEW f, NEW m \in Nat, f \in [1..m -> {"data", "hole"}] PROVE f # NoPart
<1>1. DOMAIN NoPart = 1..1 /\ NoPart[1] = "absent"
  BY DEF NoPart
<1>2. \A i \in DOMAIN f : f[i] \in {"data", "hole"}
  OBVIOUS
<1> QED
  BY <1>1, <1>2

\* A block written into a part leaves a part, as long as the file has it.
LEMMA PWriteIsTyped ==
    ASSUME NEW f, FileOk(f), f # NoPart, NEW b \in 1..ShardBlocks
    PROVE  FileOk(PWrite(f, b)) /\ PWrite(f, b) # NoPart
<1>1. PICK m \in 0..ShardBlocks : f \in [1..m -> {"data", "hole"}]
  BY DEF FileOk
<1> DEFINE k == IF b <= m THEN m ELSE b
<1>2. k \in 0..ShardBlocks /\ k \in Nat /\ DOMAIN f \cup 1..b = 1..k
  BY <1>1, ConverterAssumption
<1>3. PWrite(f, b) \in [1..k -> {"data", "hole"}]
  <2>1. PWrite(f, b) = [i \in 1..k |-> CASE i = b -> "data" [] i # b /\ i \in DOMAIN f -> f[i] [] OTHER -> "hole"]
    BY <1>2 DEF PWrite
  <2> HIDE DEF k
  <2> QED
    BY <1>1, <2>1
<1> QED
  BY <1>2, <1>3, BlocksAreNotAbsent DEF FileOk

LEMMA AppendIsTyped ==
    ASSUME NEW f, FileOk(f), f # NoPart, Len(f) < ShardBlocks
    PROVE  FileOk(Append(f, "data"))
<1>1. PICK m \in 0..ShardBlocks : f \in [1..m -> {"data", "hole"}]
  BY DEF FileOk
<1>2. f \in Seq({"data", "hole"}) /\ Len(f) = m
  BY <1>1
<1>3. Append(f, "data") \in Seq({"data", "hole"}) /\ Len(Append(f, "data")) = m + 1
  BY <1>2
<1>4. Append(f, "data") \in [1..(m + 1) -> {"data", "hole"}]
  <2> DEFINE g == Append(f, "data")
  <2>1. g \in Seq({"data", "hole"}) /\ Len(g) = m + 1
    BY <1>3
  <2> HIDE DEF g
  <2>2. g \in [1..(m + 1) -> {"data", "hole"}]
    BY <2>1
  <2> QED
    BY <2>2 DEF g
<1>5. m + 1 \in 0..ShardBlocks
  BY <1>2, ConverterAssumption
<1> QED
  BY <1>4, <1>5 DEF FileOk

\* A step that touches the files of the shard at hand only.
LEMMA FilesStayTyped ==
    ASSUME DownloadOk, FilesAreTyped, S \in Shards,
           NEW part, FileOk(part), NEW full, FileOk(full),
           dlPart' = [dlPart EXCEPT ![S] = part], dlFull' = [dlFull EXCEPT ![S] = full],
           conv'.at = "multi" => S' = S /\ part # NoPart
    PROVE  FilesAreTyped'
<1>1. /\ dlPart' = [s \in Shards |-> IF s = S THEN part ELSE dlPart[s]]
      /\ dlFull' = [s \in Shards |-> IF s = S THEN full ELSE dlFull[s]]
  BY DEF DownloadOk, ConvShape
<1>2. \A s \in Shards : FileOk(dlPart'[s]) /\ FileOk(dlFull'[s])
  BY <1>1 DEF FilesAreTyped
<1>3. conv'.at = "multi" => dlPart'[S'] # NoPart
  BY <1>1
<1> QED
  BY <1>2, <1>3 DEF FilesAreTyped, FileOk

LEMMA StreamingIsTyped ==
    ASSUME DownloadOk, FilesAreTyped, StartStreams \/ \E t \in 1..conv.n : StreamBlock(t)
    PROVE  FilesAreTyped'
<1>1. conv.at \in {"get", "multi"} /\ conv.at \in Working
  BY DEF StartStreams, StreamBlock, ConvAt, Working
<1>2. /\ S \in Shards /\ conv.n \in Streams
      /\ dlFull = [dlFull EXCEPT ![S] = dlFull[S]]
      /\ FileOk(dlPart[S]) /\ FileOk(dlFull[S])
  BY <1>1, AtHandFacts DEF FilesAreTyped
<1>3. S' = S
  BY DEF StartStreams, StreamBlock, S, DownloadOk, ConvShape
<1>4. CASE StartStreams
  <2> DEFINE new == [b \in 1..ShardBlocks |-> "hole"]
             part == IF dlPart[S] = NoPart THEN new ELSE dlPart[S]
  <2>1. FileOk(new) /\ new # NoPart
    <3>1. new \in [1..ShardBlocks -> {"data", "hole"}] /\ ShardBlocks \in 0..ShardBlocks /\ ShardBlocks \in Nat
      BY ConverterAssumption
    <3> HIDE DEF new
    <3> QED
      BY <3>1, BlocksAreNotAbsent DEF FileOk
  <2>2. FileOk(part) /\ part # NoPart
    BY <1>2, <2>1
  <2>3. dlPart' = [dlPart EXCEPT ![S] = part] /\ dlFull' = [dlFull EXCEPT ![S] = dlFull[S]]
    BY <1>2, <1>4 DEF StartStreams
  <2> HIDE DEF part
  <2> QED
    BY <1>2, <1>3, <2>2, <2>3, FilesStayTyped
<1>5. ASSUME NEW t \in 1..conv.n, StreamBlock(t) PROVE FilesAreTyped'
  <2> DEFINE b == SegStart(conv.n, t) + conv.done[t] + 1
             part == PWrite(dlPart[S], b)
  <2>1. conv.at = "multi" /\ dlPart[S] # NoPart
    BY <1>5 DEF StreamBlock, ConvAt, FilesAreTyped
  <2>2. conv.done[t] \in Nat /\ conv.done[t] < SegLen(conv.n, t)
    BY <1>5, <2>1 DEF DownloadOk, RunOk, StreamBlock, Fetched
  <2>3. SegLen(conv.n, t) \in Nat /\ SegStart(conv.n, t) + SegLen(conv.n, t) <= ShardBlocks
        /\ SegStart(conv.n, t) \in Nat
    BY <1>2, SegLenType, SegType, NumbersOfStreams
  <2>4. b \in 1..ShardBlocks
    BY <2>2, <2>3, ConverterAssumption
  <2>5. FileOk(part) /\ part # NoPart
    BY <1>2, <2>1, <2>4, PWriteIsTyped
  <2>6. dlPart' = [dlPart EXCEPT ![S] = part] /\ dlFull' = [dlFull EXCEPT ![S] = dlFull[S]]
    BY <1>2, <1>5 DEF StreamBlock
  <2> HIDE DEF part
  <2> QED
    BY <1>2, <1>3, <2>5, <2>6, FilesStayTyped
<1> QED
  BY <1>4, <1>5

LEMMA OneStreamIsTyped ==
    ASSUME DownloadOk, FilesAreTyped,
           FallBack \/ RenameStreamed \/ RenameSingle \/ \E restart \in BOOLEAN : AppendBlock(restart)
    PROVE  FilesAreTyped'
<1>1. conv.at \in {"multi", "rename", "single"} /\ conv.at \in Working
  BY DEF FallBack, RenameStreamed, RenameSingle, AppendBlock, ConvAt, Working
<1>2. /\ S \in Shards /\ dlFull = [dlFull EXCEPT ![S] = dlFull[S]]
      /\ FileOk(dlPart[S]) /\ FileOk(dlFull[S]) /\ FileOk(NoPart)
  BY <1>1, AtHandFacts DEF FilesAreTyped, FileOk
<1>3. conv'.at # "multi"
  BY DEF FallBack, RenameStreamed, RenameSingle, RenamePart, AppendBlock, ConvAt, ConvGo, DownloadOk, ConvShape
<1>4. CASE FallBack
  <2>1. dlPart' = [dlPart EXCEPT ![S] = NoPart] /\ dlFull' = [dlFull EXCEPT ![S] = dlFull[S]]
    BY <1>2, <1>4 DEF FallBack
  <2> QED
    BY <1>2, <1>3, <2>1, FilesStayTyped
<1>5. CASE RenameStreamed \/ RenameSingle
  <2>1. dlPart' = [dlPart EXCEPT ![S] = NoPart] /\ dlFull' = [dlFull EXCEPT ![S] = dlPart[S]]
    BY <1>5 DEF RenameStreamed, RenameSingle, RenamePart
  <2> QED
    BY <1>2, <1>3, <2>1, FilesStayTyped
<1>6. ASSUME NEW restart \in BOOLEAN, AppendBlock(restart) PROVE FilesAreTyped'
  <2> DEFINE from == IF restart THEN <<>> ELSE Have
             part == Append(from, "data")
  <2>1. FileOk(<<>>) /\ <<>> # NoPart /\ Len(<<>>) = 0
    <3>1. <<>> \in [1..0 -> {"data", "hole"}] /\ 0 \in 0..ShardBlocks
      BY ConverterAssumption
    <3> QED
      BY <3>1, BlocksAreNotAbsent DEF FileOk
  <2>2. Len(Have) < ShardBlocks /\ FileOk(Have) /\ Have # NoPart
    BY <1>2, <1>6, <2>1 DEF AppendBlock, Have
  <2>3. 0 < ShardBlocks
    <3>1. PICK m \in 0..ShardBlocks : Have \in [1..m -> {"data", "hole"}]
      BY <2>2 DEF FileOk
    <3>2. Len(Have) = m
      BY <3>1
    <3> QED
      BY <2>2, <3>1, <3>2, ConverterAssumption
  <2>4. FileOk(from) /\ from # NoPart /\ Len(from) < ShardBlocks
    BY <2>1, <2>2, <2>3
  <2> HIDE DEF from
  <2>5. FileOk(part)
    BY <2>4, AppendIsTyped
  <2>6. dlPart' = [dlPart EXCEPT ![S] = part] /\ dlFull' = [dlFull EXCEPT ![S] = dlFull[S]]
    BY <1>2, <1>6 DEF AppendBlock, from
  <2> HIDE DEF part
  <2> QED
    BY <1>2, <1>3, <2>5, <2>6, FilesStayTyped
<1> QED
  BY <1>4, <1>5, <1>6

LEMMA ConvNextFiles == ASSUME DownloadOk, FilesAreTyped, [ConvNext]_convVars PROVE FilesAreTyped'
<1>1. ASSUME UNCHANGED <<dlPart, dlFull>>, conv'.at # "multi" \/ conv' = conv PROVE FilesAreTyped'
  BY <1>1 DEF FilesAreTyped, FileOk, S
<1>2. CASE StartStreams \/ (\E t \in 1..conv.n : StreamBlock(t))
  BY <1>2, StreamingIsTyped
<1>3. CASE FallBack \/ RenameStreamed \/ RenameSingle \/ \E restart \in BOOLEAN : AppendBlock(restart)
  BY <1>3, OneStreamIsTyped
<1>4. CASE FinishConvert \/ ClearInflight \/ KillClearing
  <2>1. \A s \in Shards : dlPart'[s] \in {NoPart, dlPart[s]} /\ dlFull'[s] \in {NoPart, dlFull[s]}
    BY <1>4 DEF FinishConvert, ClearInflight, KillClearing, Cleared
  <2>2. conv'.at # "multi"
    <3>1. conv' = Off \/ ConvGo("next")
      BY <1>4 DEF FinishConvert, ClearInflight, KillClearing
    <3>2. ConvGo("next") => conv'.at = "next"
      BY ConvGoFacts DEF DownloadOk
    <3> QED
      BY <3>1, <3>2 DEF Off
  <2>3. \A s \in Shards : FileOk(dlPart'[s]) /\ FileOk(dlFull'[s])
    BY <2>1 DEF FilesAreTyped, FileOk
  <2> QED
    BY <2>2, <2>3 DEF FilesAreTyped, FileOk
<1>5. CASE \/ NextShard \/ AlreadyDownloaded \/ StartSingle \/ EndStreams \/ DropSidecar
           \/ SavePartial \/ ReplaceOutput
  <2>1. UNCHANGED <<dlPart, dlFull>>
    BY <1>5 DEF NextShard, AlreadyDownloaded, StartSingle, EndStreams, DropSidecar, SavePartial,
       ReplaceOutput, download
  <2>2. conv'.at # "multi"
    BY <1>5 DEF NextShard, AlreadyDownloaded, StartSingle, EndStreams, DropSidecar, SavePartial,
       ReplaceOutput, ConvGo, DownloadOk, ConvShape
  <2> QED
    BY <1>1, <2>1, <2>2
<1>6. CASE \/ Checkpoint \/ KillConvert \/ LaunchLocal \/ WriteContainerManifest \/ KillLocal
           \/ (\E s \in Shards : LocalShard(s)) \/ UNCHANGED convVars
           \/ \E mode \in Modes, n \in Streams : LaunchConvert(mode, n)
  <2>1. UNCHANGED <<dlPart, dlFull>>
    BY <1>6 DEF Checkpoint, KillConvert, LaunchLocal, WriteContainerManifest, KillLocal, LocalShard,
       LaunchConvert, convVars, download
  <2>2. conv' = conv \/ conv'.at # "multi"
    <3>1. \/ conv' = conv \/ conv' = Off \/ conv' = [Off EXCEPT !.at = "local"]
          \/ \E mode \in Modes, n \in Streams : conv' = [Off EXCEPT !.at = "next", !.mode = mode, !.n = n]
      BY <1>6 DEF Checkpoint, KillConvert, LaunchLocal, WriteContainerManifest, KillLocal, LocalShard,
         LaunchConvert, convVars
    <3>2. Off.at = "off" /\ [Off EXCEPT !.at = "local"].at = "local"
      BY DEF Off
    <3>3. \A mode, n : [Off EXCEPT !.at = "next", !.mode = mode, !.n = n].at = "next"
      BY DEF Off
    <3>4. ASSUME NEW mode, NEW n, conv' = [Off EXCEPT !.at = "next", !.mode = mode, !.n = n]
          PROVE  conv'.at # "multi"
      <4>1. conv'.at = "next"
        BY <3>3, <3>4, Zenon
      <4> QED
        BY <4>1
    <3>5. CASE conv' = Off \/ conv' = [Off EXCEPT !.at = "local"]
      <4>1. conv'.at = "off" \/ conv'.at = "local"
        BY <3>2, <3>5, Zenon
      <4> QED
        BY <4>1
    <3> QED
      BY <3>1, <3>4, <3>5
  <2> QED
    BY <1>1, <2>1, <2>2
<1> QED
  BY <1>2, <1>3, <1>4, <1>5, <1>6 DEF ConvNext

LEMMA ConvNextRest == ASSUME DownloadOk, ManifestOk, RestIsTyped, [ConvNext]_convVars PROVE RestIsTyped'
<1>1. \A m \in Modes, s \in Shards : outputs'[m][s].state \in {"none", "torn", "holed", "whole"}
  <2>1. CASE ReplaceOutput
    <3>4. Converted.state \in {"holed", "whole"}
      BY DEF Converted
    <3>1. PICK out : out = Converted /\ out.state \in {"holed", "whole"}
      BY <3>4
    <3>2. outputs' = [outputs EXCEPT ![conv.mode] = [outputs[conv.mode] EXCEPT ![S] = out]]
      BY <2>1, <3>1 DEF ReplaceOutput
    <3>3. \A m \in Modes, s \in Shards : outputs'[m][s] = outputs[m][s] \/ outputs'[m][s] = out
      BY <3>2
    <3> QED
      BY <3>1, <3>3 DEF RestIsTyped
  <2>2. CASE ~ ReplaceOutput
    <3>1. outputs' = outputs
      BY <2>2 DEF ConvNext, convVars, LaunchConvert, NextShard, FinishConvert, AlreadyDownloaded,
         StartSingle, StartStreams, StreamBlock, Checkpoint, EndStreams, RenameStreamed, RenamePart,
         FallBack, DropSidecar, AppendBlock, RenameSingle, SavePartial, ClearInflight, KillConvert,
         KillClearing, LaunchLocal, LocalShard, WriteContainerManifest, KillLocal
    <3> QED
      BY <3>1 DEF RestIsTyped
  <2> QED
    BY <2>1, <2>2
<1>2. launches' \in 0..Launches
  <2>1. launches' = launches \/ (launches < Launches /\ launches' = launches + 1)
    BY DEF ConvNext, convVars, LaunchConvert, NextShard, FinishConvert, AlreadyDownloaded,
       StartSingle, StartStreams, StreamBlock, Checkpoint, EndStreams, RenameStreamed, RenamePart,
       FallBack, DropSidecar, AppendBlock, RenameSingle, SavePartial, ReplaceOutput, ClearInflight,
       KillConvert, KillClearing, LaunchLocal, LocalShard, WriteContainerManifest, KillLocal
  <2> QED
    BY <2>1, ConverterAssumption DEF RestIsTyped
<1>3. holed' \subseteq Shards
  <2>1. holed' = holed \/ (conv.at = "get" /\ holed' \subseteq holed \cup {S})
    BY DEF ConvNext, convVars, LaunchConvert, NextShard, FinishConvert, AlreadyDownloaded,
       StartSingle, StartStreams, StreamBlock, Checkpoint, EndStreams, RenameStreamed, RenamePart,
       FallBack, DropSidecar, AppendBlock, RenameSingle, SavePartial, ReplaceOutput, ClearInflight,
       KillConvert, KillClearing, LaunchLocal, LocalShard, WriteContainerManifest, KillLocal, ConvAt
  <2>2. conv.at = "get" => S \in Shards
    BY AtHandFacts DEF Working
  <2> QED
    BY <2>1, <2>2 DEF RestIsTyped
<1>4. manifest'.memory \subseteq Tensors /\ manifest'.disk \subseteq Tensors /\ localDone' \subseteq Shards
  <2>1. CASE UNCHANGED local
    BY <2>1 DEF local, RestIsTyped
  <2>2. ASSUME NEW s \in Shards, LocalShard(s)
        PROVE  manifest'.memory \subseteq Tensors /\ manifest'.disk \subseteq Tensors /\ localDone' \subseteq Shards
    <3>1. Kept(s, "main") \subseteq Tensors
      BY TensorsAssumption DEF Kept
    <3>2. manifest' = [manifest EXCEPT !.memory = manifest.memory \cup Kept(s, "main")]
          /\ localDone' = localDone \cup {s}
      BY <2>2 DEF LocalShard
    <3>3. /\ manifest'.memory \subseteq manifest.memory \cup manifest.disk \cup Kept(s, "main")
          /\ manifest'.disk \subseteq manifest.memory \cup manifest.disk
      BY <3>2
    <3> QED
      BY <3>1, <3>2, <3>3 DEF RestIsTyped
  <2>3. CASE LaunchLocal \/ WriteContainerManifest \/ KillLocal
    <3>1. /\ manifest'.memory \subseteq manifest.memory \cup manifest.disk
          /\ manifest'.disk \subseteq manifest.memory \cup manifest.disk
      <4>1. manifest = [memory |-> manifest.memory, disk |-> manifest.disk]
        BY DEF ManifestOk
      <4>2. CASE LaunchLocal
        BY <4>1, <4>2 DEF LaunchLocal
      <4>3. CASE WriteContainerManifest
        BY <4>1, <4>3 DEF WriteContainerManifest
      <4>4. CASE KillLocal
        BY <4>1, <4>4 DEF KillLocal
      <4> QED
        BY <2>3, <4>2, <4>3, <4>4
    <3>2. localDone' = localDone
      BY <2>3 DEF LaunchLocal, WriteContainerManifest, KillLocal
    <3> QED
      BY <3>1, <3>2 DEF RestIsTyped
  <2> QED
    BY <2>1, <2>2, <2>3 DEF ConvNext, convVars, LaunchConvert, NextShard, FinishConvert, AlreadyDownloaded,
       StartSingle, StartStreams, StreamBlock, Checkpoint, EndStreams, RenameStreamed, RenamePart,
       FallBack, DropSidecar, AppendBlock, RenameSingle, SavePartial, ReplaceOutput, ClearInflight,
       KillConvert, KillClearing
<1> QED
  BY <1>1, <1>2, <1>3, <1>4 DEF RestIsTyped

LEMMA ConvTypes == ConvSpec => []ConvTypeOK
<1>1. ConvInit => FilesAreTyped /\ RestIsTyped
  <2> SUFFICES ASSUME ConvInit PROVE FilesAreTyped /\ RestIsTyped
    OBVIOUS
  <2>1. FilesAreTyped
    BY DEF ConvInit, FilesAreTyped, FileOk, Off
  <2>2. RestIsTyped
    BY ConverterAssumption DEF ConvInit, RestIsTyped, NoOutput
  <2> QED
    BY <2>1, <2>2
<1>2. ConvIInv /\ FilesAreTyped /\ RestIsTyped /\ [ConvNext]_convVars => FilesAreTyped' /\ RestIsTyped'
  BY ConvNextFiles, ConvNextRest DEF ConvIInv
<1>3. ConvIInv /\ FilesAreTyped /\ RestIsTyped => ConvTypeOK
  <2> SUFFICES ASSUME ConvIInv, FilesAreTyped, RestIsTyped PROVE ConvTypeOK
    OBVIOUS
  <2>1. \A s \in Shards : dlPart[s] \in DlFiles /\ dlFull[s] \in DlFiles
    BY DlFilesAre DEF FilesAreTyped
  <2>2. \A s \in Shards : dlSide[s] = NoSide \/ dlSide[s].n \in Streams
    BY DEF ConvIInv, DownloadOk, SideOk
  <2>3. conv.at \in Working \cup {"off", "next", "local"}
    BY DEF ConvIInv, DownloadOk, RunOk
  <2> QED
    BY <2>1, <2>2, <2>3 DEF ConvTypeOK, RestIsTyped, Working
<1> QED
  BY <1>1, <1>2, <1>3, ConvInvariant, PTL DEF ConvSpec

LEMMA DiskTypes ==
    /\ InstIInv => InstTypeOK
    /\ CacheIInv => CacheTypeOK
    /\ LitIInv => LitTypeOK
BY DEF InstIInv, CacheIInv, LitIInv

LEMMA DiskFocusHolds ==
    /\ MCSpec => Spec /\ CacheSpec /\ LitSpec
    /\ MCSpec => InstSpec /\ ConvSpec
<1> DEFINE allVars == <<focus, vars, cacheVars, litVars, instVars, convVars>>
<1>1. MCInit => Init /\ CacheInit /\ LitInit /\ InstInit /\ ConvInit
  BY DEF MCInit
<1>2. [MCNext]_allVars => /\ [Next]_vars /\ [CacheNext]_cacheVars /\ [LitNext]_litVars
                          /\ [InstNext]_instVars /\ [ConvNext]_convVars
  BY DEF MCNext
<1>3. MCSpec => Spec /\ CacheSpec /\ LitSpec
  BY <1>1, <1>2, PTL DEF MCSpec, Spec, CacheSpec, LitSpec
<1>4. MCSpec => InstSpec /\ ConvSpec
  BY <1>1, <1>2, PTL DEF MCSpec, InstSpec, ConvSpec
<1> QED
  BY <1>3, <1>4

\* What the store, the caches, the installer and the converter keep on disk
\* has its type, and a downloaded file never has more blocks than its shard,
\* for every value of the constants of all five components (MCArtifacts runs
\* one of them at a time).
THEOREM ArtifactTypesStay == MCSpec => []ArtifactsTypeOK
<1>1. Spec /\ CacheSpec /\ LitSpec => [](TypeOK /\ CacheTypeOK /\ LitTypeOK)
  BY StoreTypeCorrect, CacheInvariant, LitInvariant, DiskTypes, PTL
<1>2. InstSpec /\ ConvSpec => [](InstTypeOK /\ ConvTypeOK)
  BY InstInvariant, ConvTypes, DiskTypes, PTL
<1>3. (TypeOK /\ CacheTypeOK /\ LitTypeOK /\ InstTypeOK /\ ConvTypeOK) => ArtifactsTypeOK
  BY DEF ArtifactsTypeOK
<1> QED
  BY <1>1, <1>2, <1>3, DiskFocusHolds, PTL
=============================================================================
