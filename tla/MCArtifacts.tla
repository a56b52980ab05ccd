----------------------------- MODULE MCArtifacts ----------------------------
(* What is on disk: the model store, the model cache, the LiteRT caches,   *)
(* the TurboQuant installer and the converter.  They share no files, so    *)
(* the model checker follows one of them at a time: focus names it.        *)
EXTENDS MCModelStore, ModelCache, LiteRtCache, BackendInstaller, Converter

VARIABLE focus

\* Both artifacts have one digest.
MCShaOf == [x \in Artifacts |-> CHOOSE s \in Shas : TRUE]

\* The second shard has one plain weight, the first the tensors of all the
\* other kinds.
Plain == [layer : {0}, part : {"weight"}]
MCTensorsOf == [s \in Shards |-> IF s = 1 THEN Tensors \ Plain ELSE Plain]

\* Nothing tells processes apart; the caches and the installer are given the
\* same two.
Interchangeable == Permutations(Installers)

MCInit ==
    /\ focus \in {"store", "cache", "litert", "installer", "converter"}
    /\ Init /\ CacheInit /\ LitInit /\ InstInit /\ ConvInit
    /\ focus # "store" => source = [f \in Files |-> <<blockA>>]
    /\ focus # "cache" => cacheOps = [p \in CacheProcs |-> NoOp(CHOOSE x \in Artifacts : TRUE)]

MCNext ==
    /\ UNCHANGED focus
    /\ \/ focus = "store" /\ Next /\ UNCHANGED <<cacheVars, litVars, instVars, convVars>>
       \/ focus = "cache" /\ CacheNext /\ UNCHANGED <<vars, litVars, instVars, convVars>>
       \/ focus = "litert" /\ LitNext /\ UNCHANGED <<vars, cacheVars, instVars, convVars>>
       \/ focus = "installer" /\ InstNext /\ UNCHANGED <<vars, cacheVars, litVars, convVars>>
       \/ focus = "converter" /\ ConvNext /\ UNCHANGED <<vars, cacheVars, litVars, instVars>>

ArtifactsTypeOK == TypeOK /\ CacheTypeOK /\ LitTypeOK /\ InstTypeOK /\ ConvTypeOK

MCSpec == MCInit /\ [][MCNext]_<<focus, vars, cacheVars, litVars, instVars, convVars>>
=============================================================================
