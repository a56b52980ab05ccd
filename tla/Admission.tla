------------------------------ MODULE Admission -----------------------------
(***************************************************************************)
(* Who may use a model: the leases of engine/c/backend_contract.py and the *)
(* session budget of local_data_plane/session_scheduler.py.                *)
(*                                                                         *)
(* acquire hands out Lease objects; the registry keeps the newest one of   *)
(* each model and profile, and every holder keeps its own.  The objects    *)
(* are numbered by their fences.                                           *)
(***************************************************************************)
EXTENDS Naturals, Sequences, FiniteSets, FiniteSetsExt

CONSTANTS Holders,        \* lease ids
          LeaseKeys,      \* pairs of a model and a profile
          MaxFence,       \* leases acquired in a behaviour
          SessionIds,     \* sessions that may ask for admission
          KvSizes,        \* KV bytes they may ask for
          MemoryBudget, KvBudget, MaxSessions

\* Bytes and limits.
ASSUME AdmissionAssumption ==
    KvSizes \subseteq Nat /\ MemoryBudget \in Nat /\ KvBudget \in Nat /\ MaxSessions \in Nat

VARIABLES leases,         \* every Lease object: leases[f] has fence f
          registry,       \* LeaseRegistry._leases, as fences (0 for none)
          revived,        \* leases restarted by their holders after they were replaced
          admitted        \* MultiSessionScheduler._sessions: KV bytes by session id

admissionVars == <<leases, registry, revived, admitted>>

States == {"cold", "loading", "warming", "ready", "degraded", "draining", "stopped", "blocked"}

\* TRANSITIONS.
Transitions == [cold |-> {"loading", "blocked", "stopped"},
                loading |-> {"warming", "degraded", "draining", "blocked"},
                warming |-> {"ready", "degraded", "draining", "blocked"},
                ready |-> {"degraded", "draining", "blocked"},
                degraded |-> {"ready", "draining", "blocked"},
                draining |-> {"stopped", "blocked"},
                stopped |-> {"loading"},
                blocked |-> {"cold", "stopped"}]

Over == {"stopped", "blocked"}
Live(f) == leases[f].state \notin Over

AdmissionInit ==
    /\ leases = <<>>
    /\ registry = [k \in LeaseKeys |-> 0]
    /\ revived = {}
    /\ admitted = <<>>

-----------------------------------------------------------------------------
(* Leases *)

\* Mutant: a lease that drains counts as free.
AcquireDraining(h, k) ==
    /\ Len(leases) < MaxFence
    /\ registry[k] # 0 => leases[registry[k]].state \in Over \cup {"draining"}
    /\ leases' = Append(leases, [holder |-> h, key |-> k, state |-> "cold"])
    /\ registry' = [registry EXCEPT ![k] = Len(leases) + 1]
    /\ UNCHANGED <<revived, admitted>>

\* LeaseRegistry.acquire, where it makes a lease: the holder of a live one
\* gets the same object again, and anybody else is refused.
Acquire(h, k) ==
    /\ Len(leases) < MaxFence
    /\ registry[k] # 0 => ~ Live(registry[k])
    /\ leases' = Append(leases, [holder |-> h, key |-> k, state |-> "cold"])
    /\ registry' = [registry EXCEPT ![k] = Len(leases) + 1]
    /\ UNCHANGED <<revived, admitted>>

\* Lease.transition, by whoever has the object.
Transition(f, target) ==
    /\ target \in Transitions[leases[f].state]
    /\ leases' = [leases EXCEPT ![f].state = target]
    /\ revived' = IF ~ Live(f) /\ target \notin Over /\ registry[leases[f].key] # f
                  THEN revived \cup {f} ELSE revived
    /\ UNCHANGED <<registry, admitted>>

\* LeaseRegistry.release: from any state.
Release(f) ==
    /\ leases' = [leases EXCEPT ![f].state = "stopped"]
    /\ UNCHANGED <<registry, revived, admitted>>

-----------------------------------------------------------------------------
(* Sessions *)

KvUsed == MapThenSumSet(LAMBDA s : admitted[s], DOMAIN admitted)

\* MultiSessionScheduler.admit, where it accepts: a session that is known is
\* reused as it is, and one too many or one too large is told to wait.
AdmitSession(s, kv) ==
    /\ s \notin DOMAIN admitted
    /\ Cardinality(DOMAIN admitted) < MaxSessions
    /\ KvUsed + kv <= KvBudget /\ KvUsed + kv <= MemoryBudget
    /\ admitted' = [x \in DOMAIN admitted \cup {s} |-> IF x = s THEN kv ELSE admitted[x]]
    /\ UNCHANGED <<leases, registry, revived>>

\* MultiSessionScheduler.cancel.
CancelSession(s) ==
    /\ s \in DOMAIN admitted
    /\ admitted' = [x \in DOMAIN admitted \ {s} |-> admitted[x]]
    /\ UNCHANGED <<leases, registry, revived>>

AdmissionNext ==
    \/ \E h \in Holders, k \in LeaseKeys : Acquire(h, k)
    \/ \E f \in DOMAIN leases, target \in States : Transition(f, target)
    \/ \E f \in DOMAIN leases : Release(f)
    \/ \E s \in SessionIds, kv \in KvSizes : AdmitSession(s, kv)
    \/ \E s \in SessionIds : CancelSession(s)

AdmissionSpec == AdmissionInit /\ [][AdmissionNext]_admissionVars

-----------------------------------------------------------------------------
(* Properties *)

AdmissionTypeOK ==
    /\ leases \in Seq([holder : Holders, key : LeaseKeys, state : States])
    /\ registry \in [LeaseKeys -> 0..Len(leases)]
    /\ revived \subseteq DOMAIN leases
    /\ DOMAIN admitted \subseteq SessionIds
    /\ \A s \in DOMAIN admitted : admitted[s] \in KvSizes

\* Two live leases on one model and profile occur only when a holder has
\* restarted a lease that the registry had given up: transition does not ask
\* the registry, so single flight rests on the holders, and the fence tells
\* the two apart.
OnlyRevivedLeasesOverlap ==
    \A f, g \in DOMAIN leases :
        f < g /\ leases[f].key = leases[g].key /\ Live(f) /\ Live(g)
            => {f, g} \cap revived # {} /\ registry[leases[f].key] # f

\* Whatever sequence of admissions and cancellations, the KV bytes of the
\* admitted sessions stay within both budgets and their number within its.
SessionsFitBudgets ==
    /\ KvUsed <= KvBudget /\ KvUsed <= MemoryBudget
    /\ Cardinality(DOMAIN admitted) <= MaxSessions

\* The two limits on the use of models together: single flight, but for the
\* leases that holders revive, and budgets that no sequence exceeds.
AdmissionIsSound == OnlyRevivedLeasesOverlap /\ SessionsFitBudgets
=============================================================================
