------------------------------- MODULE Tuning -------------------------------
(***************************************************************************)
(* Kernel dispatch (local_data_plane/kernel_dispatch.py): select_kernel    *)
(* takes a kernel from a cache, from a benchmark or from measurements, and *)
(* falls back to the scalar one; what it promotes is stored in a JSON file *)
(* that processes share.  store reads the file, adds its entry and         *)
(* replaces the file, so it can drop an entry stored in between.           *)
(***************************************************************************)
EXTENDS Naturals, Sequences, FiniteSets, FiniteSetsExt, SequencesExt

CONSTANTS Tuners,        \* processes that select kernels
          Features,      \* ISA features
          IsaOf,         \* features of each process's host; the rest of the key is one
          KernelOrder,   \* names of the candidates other than scalar, in order
          Requires,      \* isa_requirements of each
          Measures,      \* what may be known of a kernel: a set of Measure records
          Timings,       \* what a benchmark may say of all kernels: a set of functions
          MaxCandidates, \* max_candidates of run_bounded_autotune
          NoKernel, NoCacheFile

VARIABLES measured,      \* speedup, error and start-up time of each candidate
          tuningFile,    \* the cache file: kernels by key, or not a cache
          tuner,         \* what each process is doing
          plans          \* the kernel each process uses, and what was known of it

tuningVars == <<measured, tuningFile, tuner, plans>>

Kernels == {KernelOrder[i] : i \in DOMAIN KernelOrder}

\* faster: measured_speedup > 0; error: numeric_error, unknown, within or
\* beyond the tolerance; quick: startup_ms within the budget.
Measure == [faster : Nat, error : {"unknown", "within", "beyond"}, quick : BOOLEAN]

\* An observation of a benchmark; p50 is 0 when it raised or was not a positive
\* number.
Observation == [p50 : Nat, p95 : Nat, correct : BOOLEAN]

\* Candidates have names and requirements, and none of them is the scalar
\* kernel or stands for a missing one.
ASSUME TuningAssumption ==
    /\ KernelOrder \in Seq(Kernels) /\ {"scalar", NoKernel} \cap Kernels = {}
    /\ Measures \subseteq Measure /\ Timings \subseteq [Kernels \cup {"scalar"} -> Observation]

\* tuning_key: a digest of the host's features and of constants.
Key(p) == IsaOf[p]

CanRun(p, k) == Requires[k] \subseteq IsaOf[p] /\ measured[k].quick

\* supported_names, supported.
Supported(p) == {k \in Kernels : CanRun(p, k) /\ measured[k].faster > 0
                                 /\ measured[k].error = "within"}

\* PersistentTuningCache.load.
Load(key) == IF tuningFile # NoCacheFile /\ key \in DOMAIN tuningFile
             THEN tuningFile[key] ELSE NoKernel

\* run_bounded_autotune: the first fastest of the candidates that are
\* correct, faster than scalar and no worse at the tail; an unknown numeric
\* error does not stand in the way.
Autotune(p, timing) ==
    LET UpTo(i) == {j \in 1..i : CanRun(p, KernelOrder[j])}
        some == {KernelOrder[i] : i \in {j \in DOMAIN KernelOrder :
                     CanRun(p, KernelOrder[j]) /\ Cardinality(UpTo(j)) <= MaxCandidates}}
        base == timing["scalar"]
        promoted == {k \in some : /\ timing[k].p50 > 0 /\ timing[k].correct
                                  /\ measured[k].error # "beyond"
                                  /\ timing[k].p50 < base.p50
                                  /\ timing[k].p95 <= base.p95}
        best == {k \in promoted : \A j \in promoted : timing[k].p50 <= timing[j].p50}
    IN  IF base.p50 = 0 \/ ~ base.correct \/ promoted = {} THEN "scalar"
        ELSE KernelOrder[Min({i \in DOMAIN KernelOrder : KernelOrder[i] \in best})]

\* The last part of select_kernel: the largest measured speed-up.
Fastest(p) ==
    LET best == {k \in Supported(p) : \A j \in Supported(p) : measured[j].faster <= measured[k].faster}
    IN  IF best = {} THEN {"scalar"} ELSE best

-----------------------------------------------------------------------------
(* select_kernel *)

Known(k) == IF k = "scalar" THEN [error |-> "within", quick |-> TRUE] ELSE measured[k]
Use(p, k) == plans' = [plans EXCEPT ![p] = [kernel |-> k, known |-> Known(k)]]

\* Mutant: the fallback is stored like a choice.
PromoteAlways(p, k) ==
    /\ tuner' = [tuner EXCEPT ![p] = [at |-> "store", kernel |-> k, known |-> Known(k)]]
    /\ UNCHANGED plans

\* A choice is stored before select_kernel returns it.
Promote(p, k) ==
    IF k = "scalar" THEN Use(p, k) /\ UNCHANGED tuner
    ELSE /\ tuner' = [tuner EXCEPT ![p] = [at |-> "store", kernel |-> k, known |-> Known(k)]]
         /\ UNCHANGED plans

\* Mutant: a cached kernel is used because it is a known name.
FromCacheTrusting(p, mode, given) ==
    LET cached == IF mode = "force-retune" THEN NoKernel
                  ELSE IF given # NoKernel THEN given ELSE Load(Key(p))
    IN  IF cached \in Kernels THEN cached ELSE NoKernel

\* The cached kernel, when it is still supported: the caller's mapping comes
\* first, then the file.
FromCache(p, mode, given) ==
    LET cached == IF mode = "force-retune" THEN NoKernel
                  ELSE IF given # NoKernel THEN given ELSE Load(Key(p))
    IN  IF cached \in Supported(p) THEN cached ELSE NoKernel

SelectKernel(p, mode, given, timing) ==
    /\ tuner[p].at = "free"
    /\ UNCHANGED <<measured, tuningFile>>
    /\ LET cached == FromCache(p, mode, given)
       IN  IF mode = "off" THEN Use(p, "scalar") /\ UNCHANGED tuner
           ELSE IF cached # NoKernel THEN Use(p, cached) /\ UNCHANGED tuner
           ELSE IF mode = "cache-only" THEN Use(p, "scalar") /\ UNCHANGED tuner
           ELSE IF timing # NoKernel THEN Promote(p, Autotune(p, timing))
           ELSE \E k \in Fastest(p) : Promote(p, k)

\* PersistentTuningCache.store: read the document, an empty one when it is
\* missing or not a cache.
ReadDocument(p) ==
    /\ tuner[p].at = "store"
    /\ tuner' = [tuner EXCEPT ![p] = [at |-> "replace", kernel |-> tuner[p].kernel,
                                      known |-> tuner[p].known,
                                      entries |-> IF tuningFile = NoCacheFile THEN <<>>
                                                  ELSE tuningFile]]
    /\ UNCHANGED <<measured, tuningFile, plans>>

\* os.replace of a private temporary file, and the plan.
ReplaceDocument(p) ==
    /\ tuner[p].at = "replace"
    /\ LET old == tuner[p].entries
       IN  tuningFile' = [key \in DOMAIN old \cup {Key(p)} |->
                            IF key = Key(p) THEN tuner[p].kernel ELSE old[key]]
    /\ plans' = [plans EXCEPT ![p] = [kernel |-> tuner[p].kernel, known |-> tuner[p].known]]
    /\ tuner' = [tuner EXCEPT ![p] = [at |-> "free"]]
    /\ UNCHANGED measured

TunerDies(p) ==
    /\ tuner[p].at # "free"
    /\ tuner' = [tuner EXCEPT ![p] = [at |-> "free"]]
    /\ UNCHANGED <<measured, tuningFile, plans>>

\* A kernel of the same name and version is measured again.
MeasureAgain(k, m) ==
    /\ measured' = [measured EXCEPT ![k] = m]
    /\ UNCHANGED <<tuningFile, tuner, plans>>

\* The file is lost, or no longer a cache.
SpoilFile ==
    /\ tuningFile' = NoCacheFile
    /\ UNCHANGED <<measured, tuner, plans>>

TuningInit ==
    /\ measured \in [Kernels -> Measures]
    /\ tuningFile = NoCacheFile
    /\ tuner = [p \in Tuners |-> [at |-> "free"]]
    /\ plans = [p \in Tuners |-> [kernel |-> "scalar", known |-> Known("scalar")]]

TuningNext ==
    \/ \E p \in Tuners, mode \in {"off", "cache-only", "bounded", "force-retune"},
          given \in Kernels \cup {NoKernel}, timing \in Timings \cup {NoKernel} :
            SelectKernel(p, mode, given, timing)
    \/ \E p \in Tuners : ReadDocument(p) \/ ReplaceDocument(p) \/ TunerDies(p)
    \/ \E k \in Kernels, m \in Measures : MeasureAgain(k, m)
    \/ SpoilFile

TuningSpec == TuningInit /\ [][TuningNext]_tuningVars

-----------------------------------------------------------------------------
(* Properties *)

TuningTypeOK ==
    /\ measured \in [Kernels -> Measure]
    /\ tuningFile # NoCacheFile => \A key \in DOMAIN tuningFile : tuningFile[key] \in Kernels
    /\ \A p \in Tuners : tuner[p].at \in {"free", "store", "replace"}
                         /\ plans[p].kernel \in Kernels \cup {"scalar"}

\* A process never uses a kernel that its host cannot run, that was too slow
\* to start, or whose error was known to be beyond the tolerance when it was
\* selected, although the file may hold a choice that another process made
\* of an older measurement; and the file's choice for a key is one that the
\* key's hosts can run, whatever entries are lost.
SelectedKernelsAreSafe ==
    /\ \A p \in Tuners :
         /\ plans[p].known.quick /\ plans[p].known.error # "beyond"
         /\ plans[p].kernel # "scalar" => Requires[plans[p].kernel] \subseteq IsaOf[p]
    /\ tuningFile # NoCacheFile =>
         \A key \in DOMAIN tuningFile : Requires[tuningFile[key]] \subseteq key
=============================================================================
