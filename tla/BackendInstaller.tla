-------------------------- MODULE BackendInstaller --------------------------
(***************************************************************************)
(* The installer of the TurboQuant llama-server                            *)
(* (local_data_plane/turboquant_backend.py).                               *)
(*                                                                         *)
(* install asks the published manifest for a release, downloads and        *)
(* extracts its archive in a staging directory, moves that to the          *)
(* directory of the release's tag, writes install-receipt.json in place    *)
(* and then replaces current.json, which discover_installed_executable     *)
(* reads.  Two installers may run at once; each may die at any step.       *)
(***************************************************************************)
EXTENDS Naturals, FiniteSets

CONSTANTS Installers,   \* processes that install
          Tags,         \* tags a release may have
          Assets        \* archives of this platform a release may name

VARIABLES tagDirs,      \* the asset extracted in each tag's directory, or Nothing
          tagReceipts,  \* the asset its receipt names, Torn, or Nothing
          current,      \* current.json: the receipt in use, or NoRelease
          currentTmp,   \* current.json.tmp, one name for all processes
          installs,     \* the installation of each process
          tagsRaced,    \* tags two processes have installed at once
          tmpRaced      \* two processes have used current.json.tmp at once

pointer == <<current, currentTmp, tmpRaced>>
instVars == <<tagDirs, tagReceipts, pointer, installs, tagsRaced>>

Nothing == "nothing"
Torn == "torn"
Releases == [tag : Tags, asset : Assets]
NoRelease == [tag |-> Nothing, asset |-> Nothing]
TornRelease == [tag |-> Torn, asset |-> Torn]
NoInstall == [at |-> "idle", tag |-> Nothing, asset |-> Nothing]

\* The two values that stand for no file and for half a file are no names.
ASSUME InstallerAssumption == {Nothing, Torn} \cap (Tags \cup Assets) = {}

InstTypeOK ==
    /\ tagDirs \in [Tags -> Assets \cup {Nothing}]
    /\ tagReceipts \in [Tags -> Assets \cup {Nothing, Torn}]
    /\ current \in Releases \cup {NoRelease, TornRelease}
    /\ currentTmp \in Releases \cup {NoRelease, TornRelease}
    /\ installs \in [Installers -> [at : {"idle", "look", "stage", "check", "move", "receipt",
                                          "written", "point", "fill", "follow", "replace"},
                                    tag : Tags \cup {Nothing}, asset : Assets \cup {Nothing}]]
    /\ tagsRaced \subseteq Tags /\ tmpRaced \in BOOLEAN

InstInit ==
    /\ tagDirs = [t \in Tags |-> Nothing]
    /\ tagReceipts = [t \in Tags |-> Nothing]
    /\ current = NoRelease /\ currentTmp = NoRelease
    /\ installs = [i \in Installers |-> NoInstall]
    /\ tagsRaced = {} /\ tmpRaced = FALSE

InstAt(i, a) == installs[i].at = a
InstGo(i, a) == installs' = [installs EXCEPT ![i].at = a]
InstEnd(i) == installs' = [installs EXCEPT ![i] = NoInstall]
Tag(i) == installs[i].tag

\* discover_release: the entry of this platform, whose asset name is checked.
Discover(i, r) ==
    /\ InstAt(i, "idle")
    /\ installs' = [installs EXCEPT ![i] =
           [at |-> "look", tag |-> r.tag, asset |-> r.asset]]
    /\ tagsRaced' = IF \E j \in Installers \ {i} : Tag(j) = r.tag
                    THEN tagsRaced \cup {r.tag} ELSE tagsRaced
    /\ UNCHANGED <<tagDirs, tagReceipts, pointer>>

\* A receipt that does not parse raises; one for the asset whose executable
\* is there is taken as it is; otherwise the release is installed.
LookForReceipt(i) ==
    /\ InstAt(i, "look")
    /\ CASE tagReceipts[Tag(i)] = Torn -> InstEnd(i)
         [] tagReceipts[Tag(i)] = installs[i].asset /\ tagDirs[Tag(i)] # Nothing -> InstGo(i, "point")
         [] OTHER -> InstGo(i, "stage")
    /\ UNCHANGED <<tagDirs, tagReceipts, pointer, tagsRaced>>

\* Download and extraction, in a temporary directory: too large, of a wrong
\* size, with members that escape or no llama-server, the archive is refused.
StageArchive(i, sound) ==
    /\ InstAt(i, "stage")
    /\ IF sound THEN InstGo(i, "check") ELSE InstEnd(i)
    /\ UNCHANGED <<tagDirs, tagReceipts, pointer, tagsRaced>>

\* Mutant: a directory that is there already is installed over.
CheckNothing(i) ==
    /\ InstAt(i, "check")
    /\ InstGo(i, "move")
    /\ UNCHANGED <<tagDirs, tagReceipts, pointer, tagsRaced>>

\* A tag directory that exists already is refused as incomplete.
CheckTagDir(i) ==
    /\ InstAt(i, "check")
    /\ IF tagDirs[Tag(i)] # Nothing THEN InstEnd(i) ELSE InstGo(i, "move")
    /\ UNCHANGED <<tagDirs, tagReceipts, pointer, tagsRaced>>

\* shutil.move puts the files beside those of a directory that has appeared.
MoveToTag(i) ==
    /\ InstAt(i, "move")
    /\ tagDirs' = [tagDirs EXCEPT ![Tag(i)] = IF @ = Nothing THEN installs[i].asset ELSE @]
    /\ InstGo(i, "receipt")
    /\ UNCHANGED <<tagReceipts, pointer, tagsRaced>>

\* write_text: the file is truncated first ...
OpenInstallReceipt(i) ==
    /\ InstAt(i, "receipt")
    /\ tagReceipts' = [tagReceipts EXCEPT ![Tag(i)] = Torn]
    /\ InstGo(i, "written")
    /\ UNCHANGED <<tagDirs, pointer, tagsRaced>>

\* ... and then written.
WriteInstallReceipt(i) ==
    /\ InstAt(i, "written")
    /\ tagReceipts' = [tagReceipts EXCEPT ![Tag(i)] = installs[i].asset]
    /\ InstGo(i, "point")
    /\ UNCHANGED <<tagDirs, pointer, tagsRaced>>

(* _write_current *)

Release(i) == [tag |-> Tag(i), asset |-> installs[i].asset]
AtTmp(i) == installs[i].at \in {"fill", "follow", "replace"}

\* The temporary file is truncated ...
OpenTmp(i) ==
    /\ InstAt(i, "point")
    /\ currentTmp' = TornRelease
    /\ tmpRaced' = (tmpRaced \/ \E j \in Installers \ {i} : AtTmp(j))
    /\ InstGo(i, "fill")
    /\ UNCHANGED <<tagDirs, tagReceipts, current, tagsRaced>>

\* ... and written, over what another process may have written meanwhile ...
FillTmp(i, torn) ==
    /\ InstAt(i, "fill") /\ (torn => currentTmp # TornRelease)
    /\ currentTmp' = IF torn THEN TornRelease ELSE Release(i)
    /\ InstGo(i, "replace")
    /\ UNCHANGED <<tagDirs, tagReceipts, current, tagsRaced, tmpRaced>>

\* ... or after another process has renamed it to current.json.
FollowTmp(i, torn) ==
    /\ InstAt(i, "follow") /\ (torn => current # TornRelease)
    /\ current' = IF torn THEN TornRelease ELSE Release(i)
    /\ InstGo(i, "replace")
    /\ UNCHANGED <<tagDirs, tagReceipts, currentTmp, tagsRaced, tmpRaced>>

\* os.replace, which raises when another process has moved the file.
PointCurrent(i) ==
    /\ InstAt(i, "replace")
    /\ current' = IF currentTmp = NoRelease THEN current ELSE currentTmp
    /\ currentTmp' = NoRelease
    /\ installs' = [j \in Installers |->
           CASE j = i -> NoInstall
             [] j # i /\ InstAt(j, "fill") -> [installs[j] EXCEPT !.at = "follow"]
             [] OTHER -> installs[j]]
    /\ UNCHANGED <<tagDirs, tagReceipts, tagsRaced, tmpRaced>>

KillInstall(i) ==
    /\ ~InstAt(i, "idle")
    /\ InstEnd(i)
    /\ UNCHANGED <<tagDirs, tagReceipts, pointer, tagsRaced>>

InstNext ==
    \E i \in Installers :
        \/ \E r \in Releases : Discover(i, r)
        \/ LookForReceipt(i)
        \/ \E sound \in BOOLEAN : StageArchive(i, sound)
        \/ CheckTagDir(i)
        \/ MoveToTag(i)
        \/ OpenInstallReceipt(i)
        \/ WriteInstallReceipt(i)
        \/ OpenTmp(i)
        \/ \E torn \in BOOLEAN : FillTmp(i, torn) \/ FollowTmp(i, torn)
        \/ PointCurrent(i)
        \/ KillInstall(i)

InstSpec == InstInit /\ [][InstNext]_instVars

-----------------------------------------------------------------------------
\* current.json, which the llama.cpp provider starts its server from, names a
\* release whose directory is there, whatever ran at once or died: an
\* installation under way or abandoned never takes the working executable
\* away.  Unless two processes installed one tag at once, the directory and
\* its receipt are also those of the very asset; and only two processes that
\* wrote current.json.tmp at once can leave a current.json that is no receipt.
CurrentIsInstalled ==
    /\ current = TornRelease => tmpRaced
    /\ current \notin {NoRelease, TornRelease} =>
           /\ tagDirs[current.tag] # Nothing
           /\ current.tag \notin tagsRaced =>
                  /\ tagDirs[current.tag] = current.asset
                  /\ tagReceipts[current.tag] = current.asset
=============================================================================
