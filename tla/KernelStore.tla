----------------------------- MODULE KernelStore -----------------------------
(***************************************************************************)
(* The Campaign row of gwo_v8/execution_kernel.py: one SQLite row per      *)
(* Campaign with a version, written by compare-and-swap.                   *)
(*                                                                         *)
(* Several ExecutionKernel objects (one per operating-system process) open *)
(* the same store.  Inside one process advance is serialised by            *)
(* _campaign_lock, but inspect and watchdog_snapshot read the row without  *)
(* that lock, and every read stores the version it saw in the kernel's     *)
(* shared _campaign_row_versions cache, from which a later save takes the  *)
(* version it expects.  A read is two steps: the SELECT, and the           *)
(* assignment to the cache.                                                *)
(*                                                                         *)
(* The state document is abstracted to the set of progress facts it holds. *)
(***************************************************************************)
EXTENDS Integers, FiniteSets

CONSTANTS
    Kernel,       \* ExecutionKernel objects that share the store
    Advancing,    \* those whose process advances the Campaign
    Inspecting,   \* those that serve inspect/watchdog_snapshot on another thread
    Step,         \* progress facts
    MaxVersion    \* bound on state_version (model bound, not in the code)

ASSUME InspectingAssumption == Advancing \subseteq Kernel /\ Inspecting \subseteq Kernel
ASSUME MaxVersionAssumption == MaxVersion \in Nat

VARIABLES
    row,          \* [version, state]; version 0 means there is no row
    cache,        \* _campaign_row_versions[key] of each kernel, or Unread
    pc,           \* where the thread that holds _campaign_lock stands
    mem,          \* the in-memory Campaign state of that thread
    seen,         \* the version its last SELECT or UPDATE returned
    found,        \* the state its conflict readback returned
    peek,         \* the version an unlocked read has selected, or Unread
    base,         \* ghost: the row version mem was built from
    refreshed,    \* ghost: the cached version is that of an unlocked read
    acknowledged, \* ghost: the facts some save reported durable
    overrun       \* ghost: those a save over a refreshed version has dropped

vars == <<row, cache, pc, mem, seen, found, peek, base, refreshed, acknowledged,
          overrun>>

Unread == -1

Version == 0 .. MaxVersion

PcValue == {"idle", "selected", "working", "stored", "conflict", "compare"}

TypeOK ==
    /\ row \in [version : Version, state : SUBSET Step]
    /\ cache \in [Kernel -> Version \cup {Unread}]
    /\ pc \in [Kernel -> PcValue]
    /\ mem \in [Kernel -> SUBSET Step]
    /\ seen \in [Kernel -> Version]
    /\ found \in [Kernel -> SUBSET Step]
    /\ peek \in [Kernel -> Version \cup {Unread}]
    /\ base \in [Kernel -> Version]
    /\ refreshed \in [Kernel -> BOOLEAN]
    /\ acknowledged \in SUBSET Step
    /\ overrun \in SUBSET Step

Init ==
    /\ row = [version |-> 0, state |-> {}]
    /\ cache = [k \in Kernel |-> Unread]
    /\ pc = [k \in Kernel |-> "idle"]
    /\ mem = [k \in Kernel |-> {}]
    /\ seen = [k \in Kernel |-> 0]
    /\ found = [k \in Kernel |-> {}]
    /\ peek = [k \in Kernel |-> Unread]
    /\ base = [k \in Kernel |-> 0]
    /\ refreshed = [k \in Kernel |-> FALSE]
    /\ acknowledged = {}
    /\ overrun = {}

------------------------------------------------------------------------------
(* The thread that holds _campaign_lock.                                   *)

\* _load -> _read_state: the SELECT.  advance loads when it starts and again
\* after every effect.
Select(k) ==
    /\ k \in Advancing
    /\ pc[k] \in {"idle", "working"}
    /\ pc' = [pc EXCEPT ![k] = "selected"]
    /\ mem' = [mem EXCEPT ![k] = row.state]
    /\ seen' = [seen EXCEPT ![k] = row.version]
    /\ base' = [base EXCEPT ![k] = row.version]
    /\ UNCHANGED <<row, cache, found, peek, refreshed, acknowledged, overrun>>

\* _read_state: the version of the row goes to the shared cache.
Remember(k) ==
    /\ pc[k] = "selected"
    /\ pc' = [pc EXCEPT ![k] = "working"]
    /\ cache' = [cache EXCEPT ![k] = seen[k]]
    /\ refreshed' = [refreshed EXCEPT ![k] = FALSE]
    /\ UNCHANGED <<row, mem, seen, found, peek, base, acknowledged, overrun>>

\* advance changes its in-memory document.
Progress(k, fact) ==
    /\ pc[k] = "working"
    /\ fact \notin mem[k]
    /\ mem' = [mem EXCEPT ![k] = @ \cup {fact}]
    /\ UNCHANGED <<row, cache, pc, seen, found, peek, base, refreshed,
                   acknowledged, overrun>>

\* Mutant: an unconditional write.
SaveUnconditional(k) == TRUE

\* The INSERT (expected 0) or the UPDATE ... WHERE state_version = expected
\* changes exactly one row.
SaveAccepted(k) == cache[k] = row.version

\* _save_state -> _save: the write succeeds.
Save(k) ==
    /\ pc[k] = "working"
    /\ SaveAccepted(k)
    /\ row.version < MaxVersion
    /\ row' = [version |-> row.version + 1, state |-> mem[k]]
    /\ seen' = [seen EXCEPT ![k] = row.version + 1]
    /\ base' = [base EXCEPT ![k] = row.version + 1]
    /\ acknowledged' = acknowledged \cup mem[k]
    /\ overrun' = (IF refreshed[k] /\ base[k] # row.version
                   THEN overrun \cup row.state ELSE overrun) \ mem[k]
    /\ pc' = [pc EXCEPT ![k] = "stored"]
    /\ UNCHANGED <<cache, mem, found, peek, refreshed>>

\* _save: the new version goes to the shared cache.
RememberSaved(k) ==
    /\ pc[k] = "stored"
    /\ pc' = [pc EXCEPT ![k] = "working"]
    /\ cache' = [cache EXCEPT ![k] = seen[k]]
    /\ refreshed' = [refreshed EXCEPT ![k] = FALSE]
    /\ UNCHANGED <<row, mem, seen, found, peek, base, acknowledged, overrun>>

\* _save: the write matches no row, so the row is read back.
SaveRefused(k) ==
    /\ pc[k] = "working"
    /\ ~ SaveAccepted(k)
    /\ pc' = [pc EXCEPT ![k] = "conflict"]
    /\ UNCHANGED <<row, cache, mem, seen, found, peek, base, refreshed,
                   acknowledged, overrun>>

ConflictSelect(k) ==
    /\ pc[k] = "conflict"
    /\ pc' = [pc EXCEPT ![k] = "compare"]
    /\ found' = [found EXCEPT ![k] = row.state]
    /\ seen' = [seen EXCEPT ![k] = row.version]
    /\ UNCHANGED <<row, cache, mem, peek, base, refreshed, acknowledged, overrun>>

\* Mutant: the conflict is retried over the refreshed version.
ConflictRetries(k) ==
    /\ pc[k] = "compare"
    /\ cache' = [cache EXCEPT ![k] = seen[k]]
    /\ refreshed' = [refreshed EXCEPT ![k] = FALSE]
    /\ pc' = [pc EXCEPT ![k] = "working"]
    /\ UNCHANGED <<row, mem, seen, found, peek, base, acknowledged, overrun>>

\* _save: the exact state is already durable, or EXECUTION_STORE_CAS_CONFLICT
\* ends the advance.  Either way _read_state has refreshed the cache.
ConflictCompare(k) ==
    /\ pc[k] = "compare"
    /\ cache' = [cache EXCEPT ![k] = seen[k]]
    /\ refreshed' = [refreshed EXCEPT ![k] = FALSE]
    /\ \/ /\ found[k] = mem[k]
          /\ pc' = [pc EXCEPT ![k] = "working"]
          /\ base' = [base EXCEPT ![k] = seen[k]]
          /\ acknowledged' = acknowledged \cup mem[k]
          /\ UNCHANGED mem
       \/ /\ found[k] # mem[k]
          /\ pc' = [pc EXCEPT ![k] = "idle"]
          /\ mem' = [mem EXCEPT ![k] = {}]
          /\ UNCHANGED <<base, acknowledged>>
    /\ UNCHANGED <<row, seen, found, peek, overrun>>

\* advance returns and releases the lock.
Return(k) ==
    /\ pc[k] = "working"
    /\ pc' = [pc EXCEPT ![k] = "idle"]
    /\ mem' = [mem EXCEPT ![k] = {}]
    /\ UNCHANGED <<row, cache, seen, found, peek, base, refreshed, acknowledged,
                   overrun>>

------------------------------------------------------------------------------
(* inspect and watchdog_snapshot: _read_state without the lock.            *)

PeekSelect(k) ==
    /\ k \in Inspecting
    /\ peek[k] = Unread
    /\ peek' = [peek EXCEPT ![k] = row.version]
    /\ UNCHANGED <<row, cache, pc, mem, seen, found, base, refreshed,
                   acknowledged, overrun>>

PeekRemember(k) ==
    /\ peek[k] # Unread
    /\ cache' = [cache EXCEPT ![k] = peek[k]]
    /\ refreshed' = [refreshed EXCEPT ![k] = TRUE]
    /\ peek' = [peek EXCEPT ![k] = Unread]
    /\ UNCHANGED <<row, pc, mem, seen, found, base, acknowledged, overrun>>

\* The process dies and is started again: only the row survives.
Restart(k) ==
    /\ \/ pc[k] # "idle"
       \/ cache[k] # Unread
    /\ pc' = [pc EXCEPT ![k] = "idle"]
    /\ cache' = [cache EXCEPT ![k] = Unread]
    /\ refreshed' = [refreshed EXCEPT ![k] = FALSE]
    /\ mem' = [mem EXCEPT ![k] = {}]
    /\ peek' = [peek EXCEPT ![k] = Unread]
    /\ UNCHANGED <<row, seen, found, base, acknowledged, overrun>>

Next ==
    \E k \in Kernel :
        \/ Select(k)
        \/ Remember(k)
        \/ \E fact \in Step : Progress(k, fact)
        \/ Save(k)
        \/ RememberSaved(k)
        \/ SaveRefused(k)
        \/ ConflictSelect(k)
        \/ ConflictCompare(k)
        \/ Return(k)
        \/ PeekSelect(k)
        \/ PeekRemember(k)
        \/ Restart(k)

Spec == Init /\ [][Next]_vars

------------------------------------------------------------------------------
(* Properties.                                                             *)

\* A fact that some save of _save reported durable stays in the Campaign row:
\* no later save by another process drops it, with one exception.  A process
\* that serves inspect or watchdog_snapshot while it advances may drop facts
\* when an unlocked read has refreshed the version its old document is then
\* saved over; those facts, and no others, are in overrun.
AcknowledgedDurable == acknowledged \ overrun \subseteq row.state

\* A save whose in-memory document was built from an older version of the row
\* fails closed (EXECUTION_STORE_CAS_CONFLICT) in every process, also in one
\* that is inspected while it advances, unless the version it expects came
\* from an unlocked read: conflicts, their readbacks, restarts and the saves
\* of the thread itself never move the expectation past its document.
StaleWriterFailsClosed ==
    [][\A k \in Kernel :
          (pc[k] = "working" /\ pc'[k] = "stored") =>
             base[k] = row.version \/ refreshed[k]]_vars

==============================================================================
