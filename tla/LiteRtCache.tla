----------------------------- MODULE LiteRtCache ----------------------------
(***************************************************************************)
(* The LiteRT package cache and model cache                                *)
(* (engine/c/backend_contract.py).                                         *)
(*                                                                         *)
(* Both keep one artifact and one receipt in a slot.  A package's slot is  *)
(* the directory of its version and platform, whatever manifest asked for  *)
(* it; a model's slot is named after its digest.  install stages a copy in *)
(* a directory of its own, verifies it, renames it to the destination and  *)
(* then replaces the receipt; rollback unlinks the artifact and then the   *)
(* receipt.  Every command is a process, nothing locks the cache, and a    *)
(* process may die between any two steps.                                  *)
(*                                                                         *)
(* A want is what a plan asks for: a manifest, standing for the artifact   *)
(* it pins, or a model's digest.                                           *)
(***************************************************************************)
EXTENDS Naturals, FiniteSets

CONSTANTS LitProcs,     \* processes that use the caches
          Manifests,    \* package manifests, all of one version, platform and
                        \* artifact name
          LitModels,      \* digests of models
          Junk          \* an artifact that nothing asks for

VARIABLES litFile,      \* the artifact in each slot, or Empty
          litReceipt,   \* what the receipt in each slot is for, or Empty
          litOps,       \* the operation of each process
          litTorn,      \* slots an operation died in, or two worked in at once
          litStaging,   \* processes' staging directories left behind
          litDamaged    \* slots whose artifact was changed from outside

litVars == <<litFile, litReceipt, litOps, litTorn, litStaging, litDamaged>>

Empty == "empty"
Package == "package"
Wants == Manifests \cup LitModels
Slots == {Package} \cup LitModels
SlotOf(w) == IF w \in Manifests THEN Package ELSE w

\* Names are told apart.
ASSUME LiteRtAssumption ==
    /\ Manifests \cap LitModels = {}
    /\ {Empty, Package, Junk} \cap Wants = {}
    /\ Junk # Empty

LitIdle == [at |-> "idle", want |-> Empty, got |-> Empty, raced |-> FALSE]

LitTypeOK ==
    /\ litFile \in [Slots -> Wants \cup {Empty, Junk}]
    /\ litReceipt \in [Slots -> Wants \cup {Empty}]
    /\ litOps \in [LitProcs -> [at : {"idle", "stage", "publish", "receipt", "clean",
                                      "unlink", "forget"},
                                want : Wants \cup {Empty}, got : Wants \cup {Empty, Junk},
                                raced : BOOLEAN]]
    /\ litTorn \subseteq Slots /\ litStaging \subseteq LitProcs /\ litDamaged \subseteq Slots

LitInit ==
    /\ litFile = [s \in Slots |-> Empty]
    /\ litReceipt = [s \in Slots |-> Empty]
    /\ litOps = [p \in LitProcs |-> LitIdle]
    /\ litTorn = {} /\ litStaging = {} /\ litDamaged = {}

-----------------------------------------------------------------------------
\* What a plan is built from: whether the manifest has its schema and sound
\* fields and an artifact for the platform (or the digest of a model, its
\* size and the suffix of its source are sound), and whether the cache is
\* outside the checkout.
Requests == [want : Wants, sound : BOOLEAN, covered : BOOLEAN, outside : BOOLEAN, yes : BOOLEAN]

\* build_litert_install_plan and build_litert_model_plan raise otherwise.
HasPlan(r) == r.sound /\ r.covered /\ r.outside

LitAt(p, s) == litOps[p].at = s
LitSlot(p) == SlotOf(litOps[p].want)
LitGo(p, s) == litOps' = [litOps EXCEPT ![p].at = s]

\* An operation begins; it and the ones under way in its slot race.
LitStart(p, r, s) ==
    LET others == {q \in LitProcs \ {p} : ~LitAt(q, "idle") /\ LitSlot(q) = SlotOf(r.want)}
    IN /\ LitAt(p, "idle") /\ r.yes /\ HasPlan(r)
       /\ litOps' = [q \in LitProcs |->
              CASE q = p -> [at |-> s, want |-> r.want, got |-> Empty, raced |-> others # {}]
                [] q \in others -> [litOps[q] EXCEPT !.raced = TRUE]
                [] OTHER -> litOps[q]]

\* A completed operation leaves its slot whole, unless it raced.
LitDone(p) ==
    litTorn' = IF litOps[p].raced THEN litTorn \cup {LitSlot(p)} ELSE litTorn \ {LitSlot(p)}

(* install_litert_package, install_litert_model *)

InstallStart(p, r) ==
    /\ LitStart(p, r, "stage")
    /\ litStaging' = litStaging \cup {p}
    /\ UNCHANGED <<litFile, litReceipt, litTorn, litDamaged>>

\* The copy of the source has the size and digest asked for; a package also
\* has safe archive members and answers the runtime probe.
Stage(p, got, probePassed) ==
    /\ LitAt(p, "stage")
    /\ litOps' = [litOps EXCEPT ![p].got = got, ![p].at =
           IF got = litOps[p].want /\ (litOps[p].want \in Manifests => probePassed)
           THEN "publish" ELSE "clean"]
    /\ UNCHANGED <<litFile, litReceipt, litTorn, litStaging, litDamaged>>

\* os.replace(staged, destination)
PublishStaged(p) ==
    /\ LitAt(p, "publish")
    /\ litFile' = [litFile EXCEPT ![LitSlot(p)] = litOps[p].got]
    /\ litDamaged' = litDamaged \ {LitSlot(p)}
    /\ LitGo(p, "receipt")
    /\ UNCHANGED <<litReceipt, litTorn, litStaging>>

\* os.replace(temporary_receipt, receipt_path)
WriteReceipt(p) ==
    /\ LitAt(p, "receipt")
    /\ litReceipt' = [litReceipt EXCEPT ![LitSlot(p)] = litOps[p].want]
    /\ LitDone(p)
    /\ LitGo(p, "clean")
    /\ UNCHANGED <<litFile, litStaging, litDamaged>>

\* The finally clause.
CleanStaging(p) ==
    /\ LitAt(p, "clean")
    /\ litStaging' = litStaging \ {p}
    /\ litOps' = [litOps EXCEPT ![p] = LitIdle]
    /\ UNCHANGED <<litFile, litReceipt, litTorn, litDamaged>>

(* verify_litert_package, verify_litert_model *)

\* Why a package's plan does not verify, or "verified".  The runtime probe,
\* which is run again, is taken to pass as it did before.
VerifyPackage(w) ==
    CASE litReceipt[Package] = Empty -> "offline-cache-miss"
      [] litReceipt[Package] \notin {Empty, w} -> "offline-manifest-mismatch"
      [] litReceipt[Package] = w /\ litFile[Package] = Empty -> "offline-cache-miss"
      [] litReceipt[Package] = w /\ litFile[Package] \notin {Empty, w} -> "offline-integrity-failure"
      [] OTHER -> "verified"

\* The same for a model, whose receipt is under its digest.
VerifyModel(w) ==
    CASE Empty \in {litReceipt[w], litFile[w]} -> "offline-cache-miss"
      [] litReceipt[w] # Empty /\ litFile[w] \notin {Empty, w} -> "offline-integrity-failure"
      [] OTHER -> "verified"

(* rollback_litert_package, rollback_litert_model *)

\* The checks before anything is removed; the artifact's digest is not one.
RollbackStart(p, r) ==
    /\ litReceipt[SlotOf(r.want)] = r.want
    /\ litFile[SlotOf(r.want)] # Empty
    /\ LitStart(p, r, "unlink")
    /\ UNCHANGED <<litFile, litReceipt, litTorn, litStaging, litDamaged>>

\* Mutant: the rollback ends with the artifact.
UnlinkArtifactOnly(p) ==
    /\ LitAt(p, "unlink")
    /\ litFile' = [litFile EXCEPT ![LitSlot(p)] = Empty]
    /\ LitDone(p)
    /\ litOps' = [litOps EXCEPT ![p] = LitIdle]
    /\ litDamaged' = litDamaged \ {LitSlot(p)}
    /\ UNCHANGED <<litReceipt, litStaging>>

\* Each path is looked at again before it is unlinked: one that has gone
\* ends the rollback half way.
UnlinkArtifact(p) ==
    LET gone == litFile[LitSlot(p)] = Empty
    IN /\ LitAt(p, "unlink")
       /\ litFile' = [litFile EXCEPT ![LitSlot(p)] = Empty]
       /\ litTorn' = IF gone THEN litTorn \cup {LitSlot(p)} ELSE litTorn
       /\ litOps' = [litOps EXCEPT ![p] = IF gone THEN LitIdle ELSE [@ EXCEPT !.at = "forget"]]
       /\ litDamaged' = litDamaged \ {LitSlot(p)}
       /\ UNCHANGED <<litReceipt, litStaging>>

UnlinkReceipt(p) ==
    /\ LitAt(p, "forget")
    /\ litReceipt' = [litReceipt EXCEPT ![LitSlot(p)] = Empty]
    /\ LitDone(p)
    /\ litOps' = [litOps EXCEPT ![p] = LitIdle]
    /\ UNCHANGED <<litFile, litStaging, litDamaged>>

-----------------------------------------------------------------------------
\* The process dies: its staging directory stays, its slot may be torn.
LitCrash(p) ==
    /\ ~LitAt(p, "idle")
    /\ litTorn' = IF litOps[p].at \in {"receipt", "forget"} \/ litOps[p].raced
                  THEN litTorn \cup {LitSlot(p)} ELSE litTorn
    /\ litOps' = [litOps EXCEPT ![p] = LitIdle]
    /\ UNCHANGED <<litFile, litReceipt, litStaging, litDamaged>>

ArtifactChanges(s) ==
    /\ litFile[s] \notin {Empty, Junk}
    /\ litFile' = [litFile EXCEPT ![s] = Junk]
    /\ litDamaged' = litDamaged \cup {s}
    /\ UNCHANGED <<litReceipt, litOps, litTorn, litStaging>>

LitInstall(p) ==
    \/ \E r \in Requests : InstallStart(p, r)
    \/ \E got \in Wants \cup {Junk}, probePassed \in BOOLEAN : Stage(p, got, probePassed)
    \/ PublishStaged(p)
    \/ WriteReceipt(p)
    \/ CleanStaging(p)

LitRollback(p) ==
    \/ \E r \in Requests : RollbackStart(p, r)
    \/ UnlinkArtifact(p)
    \/ UnlinkReceipt(p)

LitNext ==
    \/ \E p \in LitProcs : LitInstall(p) \/ LitRollback(p) \/ LitCrash(p)
    \/ \E s \in Slots : ArtifactChanges(s)

LitSpec == LitInit /\ [][LitNext]_litVars

-----------------------------------------------------------------------------
\* A process between its two changes of a slot.
Halfway(s) == \E p \in LitProcs : litOps[p].at \in {"receipt", "forget"} /\ LitSlot(p) = s

\* The artifact and the receipt of a slot are changed one after the other.
\* Yet verify tells exactly what is in the slot, and never reports a broken
\* artifact, whenever no operation is half way, none died half way and none
\* raced: installing again makes a torn slot whole.
VerifyTellsWhatIsThere ==
    \A w \in Wants :
        LET s == SlotOf(w)
        IN \/ s \in litTorn \cup litDamaged
           \/ Halfway(s)
           \/ (IF s = Package THEN VerifyPackage(w) ELSE VerifyModel(w)) =
                  CASE litFile[s] = w -> "verified"
                    [] litFile[s] = Empty -> "offline-cache-miss"
                    [] OTHER -> "offline-manifest-mismatch"

\* Staging directories are private and verified before the rename: whatever
\* overlaps or dies, a slot never holds an artifact no plan for it asks for,
\* which is what makes a crash between rename and receipt harmless.
OnlyVerifiedArtifacts ==
    \A s \in Slots :
        \/ litFile[s] = Empty \/ s \in litDamaged
        \/ litFile[s] \in Wants /\ SlotOf(litFile[s]) = s

\* A slot holds an artifact that was asked for, and verify says which.
SlotsAreSound == VerifyTellsWhatIsThere /\ OnlyVerifiedArtifacts
=============================================================================
