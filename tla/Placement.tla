------------------------------ MODULE Placement -----------------------------
(***************************************************************************)
(* The planners of the data plane, which keep no state: where weights, KV  *)
(* and drafts live (residency.py, memory_placement.py), how large the KV   *)
(* cache is (kv_policy.py), how many workers run (worker_scheduler.py),    *)
(* how a product is tiled and who shares a batch (layout_packing.py), and  *)
(* whether a model is admitted at all (backend_contract.py).  A behaviour  *)
(* is one question and its answer.                                         *)
(***************************************************************************)
EXTENDS Integers, Sequences, FiniteSets, FiniteSetsExt, SequencesExt

CONSTANTS Bytes,          \* sizes and capacities, in some unit
          MinimumReserve, ReservePercent,   \* of MemoryAwarePlacementPlanner
          RowHint, ColHint,                 \* of select_tiling
          Unasked

\* Sizes are checked to be whole and not negative where they are read.
ASSUME PlacementAssumption ==
    Bytes \subseteq Nat /\ MinimumReserve \in Nat /\ ReservePercent \in Nat
    /\ RowHint \in Nat \ {0} /\ ColHint \in Nat \ {0}

VARIABLE asked            \* the question, its kind and its answer

Smaller(a, b) == IF a < b THEN a ELSE b
Larger(a, b) == IF a > b THEN a ELSE b

-----------------------------------------------------------------------------
(* plan_residency *)

Residency == [backend : {"cuda", "metal", "unified", "cpu"}, weights : Bytes, kv : Bytes,
              scratch : Bytes, draft : Bytes, device : Bytes, system : Bytes,
              separate : BOOLEAN, regressed : BOOLEAN]

Target(r) == r.weights + r.kv + r.scratch
Everything(r) == Target(r) + r.draft

\* Mutant: the accelerator's headroom is compared with the weights alone.
PlanResidencyWeights(r) ==
    LET On(d, draftOn) == [target |-> d, draft |-> draftOn, accepted |-> d # "none"]
    IN  IF r.device >= r.weights THEN On(r.backend, r.backend) ELSE On("none", "none")

\* On an accelerator: everything there, or the draft on the CPU, or all of
\* it on the CPU when at least the target fits.
PlanResidency(r) ==
    LET On(d, draftOn) == [target |-> d, draft |-> draftOn, accepted |-> d # "none"]
        hybrid == r.separate /\ r.draft > 0 /\ r.system >= Everything(r)
    IN  CASE r.backend = "unified" ->
               IF r.device >= Everything(r) THEN On("unified", "unified") ELSE On("none", "none")
          [] r.backend = "cpu" ->
               [On("cpu", "cpu") EXCEPT !.accepted = r.system >= Everything(r)]
          [] OTHER ->
               IF r.device >= Everything(r) THEN On(r.backend, r.backend)
               ELSE IF hybrid /\ ~ r.regressed THEN On(r.backend, "cpu")
               ELSE IF r.system >= Target(r) THEN On("cpu", "cpu")
               ELSE On("none", "none")

-----------------------------------------------------------------------------
(* MemoryAwarePlacementPlanner *)

\* _capacity and plan's choices: an available size of zero falls back to the
\* installed one.
Hardware == [backend : {"cuda", "unified", "cpu"}, available : Bytes, installed : Bytes,
             gpu : Bytes, unified : Bytes, separate : BOOLEAN,
             target : Bytes \ {0}, draft : Bytes]

\* _usable.
Usable(capacity) ==
    Larger(0, capacity - Larger(MinimumReserve, (capacity * ReservePercent) \div 100))

SystemOf(h) == IF h.available = 0 THEN h.installed ELSE h.available
CapacityOf(h) == CASE h.backend = "unified" -> IF h.unified = 0 THEN SystemOf(h) ELSE h.unified
                   [] h.backend = "cuda" -> h.gpu
                   [] OTHER -> SystemOf(h)

PlanPlacement(h) ==
    LET total == h.target + h.draft
        system == Usable(SystemOf(h))
        On(d, draftOn, mode) == [target |-> d, draft |-> IF h.draft > 0 THEN draftOn ELSE "none",
                                 mode |-> mode, accepted |-> mode # "rejected"]
    IN  IF Usable(CapacityOf(h)) >= total THEN On(h.backend, h.backend, "full-device")
        ELSE IF h.backend = "cuda" /\ h.separate /\ system >= total
             THEN [On("cuda", "cpu", "hybrid") EXCEPT !.draft = "cpu"]
        ELSE IF system >= h.target THEN On("cpu", "cpu", "cpu-fallback")
        ELSE On("none", "none", "rejected")

-----------------------------------------------------------------------------
(* KVCachePlanner *)

KvRequest == [requested : 1..3, minimum : 1..3, full : Bytes, quantized : Bytes,
              supported : BOOLEAN, paged : BOOLEAN, available : Bytes, reserved : Bytes,
              policy : {"auto", "full_precision", "quantized", "paged"}]

KvUsable(q) == Larger(0, q.available - q.reserved)

\* plan: the asked format, or the quantized one when full precision cannot
\* hold the minimum context.
PlanKv(q) ==
    LET canQuantize == q.supported /\ q.quantized > 0
        Context(bytes) == Smaller(q.requested, KvUsable(q) \div Larger(1, bytes))
        first == CASE q.policy = "quantized" /\ canQuantize -> "quantized"
                   [] q.policy = "paged" /\ q.paged -> "paged"
                   [] OTHER -> "full_precision"
        BytesOf(f) == IF f = "quantized" THEN q.quantized ELSE q.full
        format == IF first = "full_precision" /\ canQuantize /\ Context(q.full) < q.minimum
                  THEN "quantized" ELSE first
        context == Context(BytesOf(format))
    IN  [format |-> format, accepted |-> context >= q.minimum,
         context |-> IF context >= q.minimum THEN context ELSE 0,
         total |-> IF context >= q.minimum THEN context * BytesOf(format) ELSE 0]

\* fair_share.
FairShare(available, n) ==
    [i \in 1..n |-> available \div n + IF i <= available % n THEN 1 ELSE 0]

-----------------------------------------------------------------------------
(* Workers, tiles, batches, admission *)

Workers == [logical : 0..3, physical : 0..3,
            measured : UNION {kSubset(k, [threads : 1..4, speed : 1..2, stable : BOOLEAN]) : k \in 0..2}]

\* plan_workers: the fastest stable measurement, the fewest threads of it;
\* without one the physical cores.
PlanWorkers(w) ==
    LET cores == IF w.physical > 0 THEN w.physical ELSE w.logical
        stable == {m \in w.measured : m.stable}
        fastest == {m \in stable : \A n \in stable : n.speed <= m.speed}
        threads == IF stable = {} THEN Smaller(cores, w.logical)
                   ELSE Min({m.threads : m \in fastest})
    IN  IF w.logical < 1 THEN [threads |-> 1, oversubscribed |-> FALSE]
        ELSE LET n == Larger(1, Smaller(threads, w.logical))
             IN  [threads |-> n, oversubscribed |-> n > cores]

Tiling == [rows : 1..4, inner : 1..3, columns : 1..8, budget : 1..20,
           measured : {"none", "slow", "fast"}, regressed : BOOLEAN]

\* The loop of select_tiling: halve the longer side until the tiles fit the
\* cache.
Shrunk(t) ==
    LET Fit[x \in (1..RowHint) \X (1..ColHint)] ==
            LET r == x[1]
                c == x[2]
            IN  IF (r + c) * t.inner <= t.budget \/ (r = 1 /\ c = 1) THEN x
                ELSE IF c >= r /\ c > 1 THEN Fit[<<r, Larger(1, c \div 2)>>]
                ELSE Fit[<<Larger(1, r \div 2), c>>]
    IN  Fit[<<Smaller(t.rows, RowHint), Smaller(t.columns, ColHint)>>]

SelectTiling(t) ==
    LET x == Shrunk(t)
        scratch == (x[1] + x[2]) * t.inner
    IN  [rows |-> x[1], columns |-> x[2], scratch |-> scratch,
         enabled |-> t.measured = "fast" /\ ~ t.regressed /\ scratch <= t.budget]

\* Requests for a batch: [id, model, priority].
BatchRequest == [id : {1, 2, 3}, model : {"a", "b"}, priority : 0..1]
Batches == [requests : {q \in SeqOf(BatchRequest, 3) : IsInjective([i \in DOMAIN q |-> q[i].id])},
            size : 1..2, gain : BOOLEAN]

\* The order of requests, by priority and then by session, and a set sorted.
Before(x, y) == x.priority > y.priority \/ (x.priority = y.priority /\ x.id < y.id)
Sorted(q, R) == ToSet(q) = R /\ \A i, j \in DOMAIN q : i < j => Before(q[i], q[j])
InOrder(R) == CHOOSE q \in [1..Cardinality(R) -> R] : Sorted(q, R)

\* form_isolated_batch; sessions that ask twice are refused.
FormIsolatedBatch(b) ==
    LET ordered == InOrder(ToSet(b.requests))
        models == {b.requests[i].model : i \in DOMAIN b.requests}
        First(n, enabled) == [ids |-> [i \in 1..Smaller(n, Len(ordered)) |-> ordered[i].id],
                              enabled |-> enabled]
    IN  IF b.requests = <<>> THEN First(0, FALSE)
        ELSE IF Cardinality(models) > 1 THEN [ids |-> <<b.requests[1].id>>, enabled |-> FALSE]
        ELSE IF ~ b.gain THEN First(1, FALSE)
        ELSE First(b.size, Smaller(b.size, Len(ordered)) > 1)

Estimate == [model : Bytes, dense : Bytes, memory : Bytes, disk : Bytes, limit : Bytes,
             interactive : BOOLEAN, allowed : BOOLEAN]

\* admission_estimate, with the runtime and the cache in dense: the reasons
\* to deny.
AdmissionEstimate(e) ==
    (IF e.interactive /\ ~ e.allowed THEN {"interactive"} ELSE {})
    \cup (IF e.dense > e.limit THEN {"limit"} ELSE {})
    \cup (IF e.dense > e.memory THEN {"memory"} ELSE {})
    \cup (IF e.model > e.disk THEN {"disk"} ELSE {})

-----------------------------------------------------------------------------
(* Questions *)

Answer(kind, question, answer) ==
    asked' = [kind |-> kind, question |-> question, answer |-> answer]

PlacementInit == asked = Unasked

PlacementNext ==
    /\ asked = Unasked
    /\ \/ \E r \in Residency : Answer("residency", r, PlanResidency(r))
       \/ \E h \in Hardware : Answer("placement", h, PlanPlacement(h))
       \/ \E q \in KvRequest : q.minimum <= q.requested /\ Answer("kv", q, PlanKv(q))
       \/ \E n \in 1..4, a \in 0..9 : Answer("share", <<a, n>>, FairShare(a, n))
       \/ \E w \in Workers : Answer("workers", w, PlanWorkers(w))
       \/ \E t \in Tiling : Answer("tiling", t, SelectTiling(t))
       \/ \E b \in Batches : Answer("batch", b, FormIsolatedBatch(b))
       \/ \E e \in Estimate : Answer("admission", e, AdmissionEstimate(e))

PlacementSpec == PlacementInit /\ [][PlacementNext]_asked

-----------------------------------------------------------------------------
(* Properties *)

PlacementTypeOK ==
    asked # Unasked => asked.kind \in {"residency", "placement", "kv", "share", "workers",
                                       "tiling", "batch", "admission"}

Asked(kind) == asked # Unasked /\ asked.kind = kind
Q == asked.question
A == asked.answer

\* An accepted placement fits the memory of the device it names, but for two
\* cases that the code lets through: a hybrid plan is measured against the
\* system's memory only, and a fallback to the CPU leaves out the draft.
ResidencyFits ==
    Asked("residency") /\ A.accepted =>
        LET memory == IF A.target = "cpu" THEN Q.system ELSE Q.device
            hybrid == A.draft # A.target
            fallback == A.target = "cpu" /\ Q.backend # "cpu"
        IN  /\ ~ hybrid => memory >= Target(Q)
            /\ ~ hybrid /\ ~ fallback => memory >= Everything(Q)
            /\ hybrid => Q.system >= Everything(Q) /\ Q.separate /\ Q.draft > 0

\* The same of the planner that keeps a reserve: what it accepts leaves at
\* least the minimum reserve of the memory that it measured, which for a
\* hybrid is the system's and for the CPU leaves out the draft.
PlacementFits ==
    Asked("placement") /\ A.accepted =>
        CASE A.mode = "full-device" -> CapacityOf(Q) >= Q.target + Q.draft + MinimumReserve
          [] A.mode = "hybrid" -> SystemOf(Q) >= Q.target + Q.draft + MinimumReserve
          [] OTHER -> SystemOf(Q) >= Q.target + MinimumReserve

\* A KV plan holds at least the minimum and at most the requested context
\* within the unreserved bytes, and without an explicit policy a request is
\* refused only when no format could hold the minimum.
KvFits ==
    Asked("kv") =>
        /\ A.accepted => /\ A.context \in Q.minimum..Q.requested
                         /\ A.total <= KvUsable(Q)
        /\ ~ A.accepted /\ Q.policy \in {"auto", "full_precision"} /\ Q.full > 0 =>
             /\ Q.minimum * Q.full > KvUsable(Q)
             /\ Q.supported /\ Q.quantized > 0 => Q.minimum * Q.quantized > KvUsable(Q)

ShareSum(shares) == FoldSeq(+, 0, shares)

\* Shares give away all of the bytes, and differ by one at most.
SharesAddUp ==
    Asked("share") => /\ ShareSum(A) = Q[1]
                      /\ \A i, j \in DOMAIN A : A[i] - A[j] \in -1..1

\* Tiles fit the cache unless nothing smaller than one by one is left.
TilesFit ==
    Asked("tiling") => /\ A.scratch <= Q.budget \/ (A.rows = 1 /\ A.columns = 1)
                       /\ A.enabled => A.scratch <= Q.budget
                       /\ A.rows \in 1..Q.rows /\ A.columns \in 1..Q.columns

\* No more workers than logical processors, and more than the cores only
\* because a stable measurement had as many.
WorkersFit ==
    Asked("workers") => /\ A.threads \in 1..Larger(1, Q.logical)
                        /\ A.oversubscribed => \E m \in Q.measured : m.stable /\ m.threads >= A.threads

\* A batch is of one model, and no session of a higher priority waits.
Isolated(b, ids) ==
    LET Places(id) == {j \in DOMAIN b.requests : b.requests[j].id = id}
        ModelOf(id) == {b.requests[i].model : i \in Places(id)}
        PriorityOf(id) == {b.requests[i].priority : i \in Places(id)}
    IN  /\ Len(ids) \in 2..b.size
        /\ \A i, j \in DOMAIN ids : ModelOf(ids[i]) = ModelOf(ids[j])
        /\ \A j \in DOMAIN b.requests, i \in DOMAIN ids :
             (\A k \in DOMAIN ids : ids[k] # b.requests[j].id)
                 => b.requests[j].priority <= Max(PriorityOf(ids[i]))
BatchIsIsolated == Asked("batch") /\ A.enabled => Isolated(Q, A.ids)

\* What the planners accept can be done with the memory, the processors and
\* the cache that they were told of.
PlansFit ==
    /\ ResidencyFits /\ PlacementFits /\ KvFits /\ SharesAddUp
    /\ WorkersFit /\ TilesFit /\ BatchIsIsolated
=============================================================================
