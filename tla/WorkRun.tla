------------------------------- MODULE WorkRun -------------------------------
(***************************************************************************)
(* The Work Run record of gwo_v8/execution_kernel.py and the decisions     *)
(* ExecutionKernel takes on the durable Campaign state alone: which Work   *)
(* Run is due next, which action it needs, and what a readback makes of    *)
(* it.  Digests, timestamps, reasons and evidence are abstracted: a        *)
(* Candidate is the number of its distinct SHA within the Work Run, a      *)
(* Runtime Binding is 0 (none), 1 (initial) or 2 (replacement), and the    *)
(* stale deadline is "none", "armed" (in the future) or "due".             *)
(***************************************************************************)
EXTENDS Integers, FiniteSets

CONSTANTS
    Ticket,       \* Ticket keys of the active PlanSpec, as naturals: their order
    DependsOn,    \* DependsOn[t]: the native blockers of t
    Resources,    \* Resources[t]: the Exclusive Resources t declares
    Capacity,     \* Worker Slots of the Campaign
    Wake,         \* wake references the Watchdog and Runtime events deliver
    MaxReport,    \* Plan Invalidation reports per Ticket (model bound)
    MaxResume,    \* bound on resume_ordinal (model bound)
    MaxCandidate  \* distinct Candidate SHAs a Worker can produce (model bound)

ASSUME TicketAssumption == Ticket \subseteq Nat /\ IsFiniteSet(Ticket)
ASSUME PlanAssumption ==
    /\ DependsOn \in [Ticket -> SUBSET Ticket]
    /\ DOMAIN Resources = Ticket
ASSUME BoundAssumption ==
    /\ Capacity \in Nat \ {0}
    /\ MaxReport \in Nat /\ MaxResume \in Nat /\ MaxCandidate \in Nat

NoWake == "no-wake"
ASSUME WakeAssumption == NoWake \notin Wake

\* The Candidate-submission bound of one Work Run.
CandidateLimit == 3

SlotPhases == {"running", "candidate_checks", "formal_review", "repair"}
TerminalPhases == {"completed"}
QuiescentPhases == {"quiescent"}
Phases ==
    SlotPhases \cup TerminalPhases \cup QuiescentPhases \cup
    {"pending", "accepted_awaiting_delivery", "parked", "decision", "wait",
     "blocked", "runtime_unavailable"}

\* Phases in which _apply_plan_invalidation may stop a Work Run.
StoppablePhases ==
    SlotPhases \cup QuiescentPhases \cup
    {"accepted_awaiting_delivery", "parked", "runtime_unavailable"}

StaleStates == {"TERMINAL", "IDLE", "PERMISSION_WAITING", "CANDIDATE_RECEIVED",
                "PROVIDER_UNAVAILABLE", "AMBIGUOUS_RUNNING"}
Dispositions == {"CONTINUE", "GUIDE_SAME_WORKER", "RECOVER_SAME_BINDING",
                 "DECISION"}

Binding == 0 .. 2
Candidate == 0 .. MaxCandidate
Report == Ticket \X (1 .. MaxReport)
NoReport == <<>>
StaleReceipt == [phase : StaleStates \cup Dispositions \cup {"delivered"},
                 candidate : Candidate]
NoReceipt == [phase |-> "none", candidate |-> 0]

\* Stable action identities.  n is the part of the identity that can change
\* within one Work Run: the resume ordinal, the accepted Candidate, or the
\* Runtime Binding.
ActionKinds == {"execution", "resume", "delivery", "stale_readback",
                "stale_diagnosis", "stale_follow_up"}
FencedKinds == {"stale_diagnosis", "stale_follow_up"}
SemanticKinds == {"execution", "resume"}
ResumeOrdinal == 0 .. (MaxResume + 2 * MaxReport)
Ordinal == ResumeOrdinal \cup Binding \cup Candidate
Action == [kind : ActionKinds, ticket : Ticket, n : Ordinal]
NoAction == [kind |-> "none"]
ActionOf(k, t, i) == [kind |-> k, ticket |-> t, n |-> i]

EffectStates == {"absent", "intent", "attempted", "read_back"}

Run == [phase      : Phases,
        slot       : BOOLEAN,                          \* slot_held
        claim      : {"unclaimed", "held", "released"},\* claim_state
        last       : Action \cup {NoAction},           \* last_action_id
        bound      : BOOLEAN,                          \* semantic_action_id set
        binding    : Binding,                          \* runtime_binding_id
        ordinal    : ResumeOrdinal,                    \* resume_ordinal
        resume     : BOOLEAN,                          \* resume_after_invalidation
        lastWake   : Wake \cup {NoWake},               \* last_wake_ref
        stale      : {"none", "armed", "due"},         \* stale_due_at
        disposed   : BOOLEAN,                          \* stale_disposition set
        diagnosed  : SUBSET Binding,                   \* diagnosed_binding_ids
        followUp   : {"none", "pending", "done"},      \* stale_follow_up_*
        seen       : 0 .. MaxCandidate,                \* candidate_commit_oids
        candidate  : Candidate,                        \* candidate_receipt
        accepted   : Candidate,                        \* accepted_candidate_*
        request    : BOOLEAN,                          \* batch_delivery_request_digest
        proof      : BOOLEAN,                          \* result_integrity
        report     : Report \cup {NoReport}]           \* plan_invalidation

\* A pending Work Run, as _load_or_initialize and _new_run_state create it.
NewRun ==
    [phase |-> "pending", slot |-> FALSE, claim |-> "unclaimed",
     last |-> NoAction, bound |-> FALSE, binding |-> 0, ordinal |-> 0,
     resume |-> FALSE, lastWake |-> NoWake, stale |-> "none",
     disposed |-> FALSE, diagnosed |-> {}, followUp |-> "none", seen |-> 0,
     candidate |-> 0, accepted |-> 0, request |-> FALSE, proof |-> FALSE,
     report |-> NoReport]

------------------------------------------------------------------------------
(* The Campaign state s: s.runs, s.effects (a function on the actions with *)
(* a durable intent), s.reports and s.resolved (Plan Invalidation records  *)
(* and their resolutions), s.classified and s.wakes.                       *)

NewCampaign ==
    [runs |-> [t \in Ticket |-> NewRun], effects |-> <<>>, reports |-> {},
     resolved |-> {}, classified |-> [kind |-> "none", evidence |-> {}],
     wakes |-> {}]

\* The durable state of an action: its intent, its fence, its readback.
Effect(s, a) == IF a \in DOMAIN s.effects THEN s.effects[a].state ELSE "absent"

\* The receipt of a readback is kept for the stale actions, which compare it.
SetEffect(s, a, value, receipt) ==
    [s EXCEPT !.effects =
        [b \in DOMAIN s.effects \cup {a} |->
            IF b = a THEN [state |-> value, receipt |-> receipt]
                     ELSE s.effects[b]]]

Held(s) == {t \in Ticket : s.runs[t].slot}

PendingReports(s) == s.reports \ s.resolved

HasPendingReport(s, t) == \E r \in PendingReports(s) : r[1] = t

------------------------------------------------------------------------------
(* _next_due_run: the six scans, in order, each over sorted(work).         *)

\* Mutants of the admission conditions.
DependenciesIgnored(s, t) == TRUE
DependenciesMet(s, t) ==
    \A u \in DependsOn[t] : s.runs[u].phase \in TerminalPhases

ResourcesAlwaysFree(s, t) == TRUE
ResourcesFree(s, t) ==
    \A u \in Ticket \ {t} :
        s.runs[u].phase \notin {"pending"} \cup TerminalPhases \cup QuiescentPhases
            => Resources[u] \cap Resources[t] = {}

SlotOverrun(s) == Cardinality(Held(s)) <= Capacity
SlotFree(s) == Cardinality(Held(s)) < Capacity

FollowUpPending(run) == run.followUp = "pending"

StaleSelected(run) ==
    /\ run.phase \in SlotPhases
    /\ run.stale = "due"
    /\ ~ (run.binding \in run.diagnosed /\ run.disposed)

\* An already active Work Run that has not been read back for this wake.
WakeSelected(run, wake) ==
    /\ run.phase \in SlotPhases \/ run.slot
    /\ run.lastWake # wake

ParkedSelected(s, t, wake) ==
    /\ s.runs[t].phase = "parked"
    /\ s.runs[t].lastWake # wake
    /\ SlotFree(s)

DeliveryAction(run, t) == ActionOf("delivery", t, run.accepted)

DeliverySelected(s, t, wake) ==
    LET run == s.runs[t]
    IN  /\ run.phase = "accepted_awaiting_delivery"
        /\ run.accepted # 0 /\ run.candidate # 0
        /\ ~ (/\ wake = NoWake
              /\ run.last = DeliveryAction(run, t)
              /\ Effect(s, run.last) = "read_back")

AdmissionSelected(s, t) ==
    /\ s.runs[t].phase = "pending"
    /\ ~ HasPendingReport(s, t)
    /\ DependenciesMet(s, t)
    /\ ResourcesFree(s, t)
    /\ SlotFree(s)

\* What each scan selects; wake is NoWake unless this advance brought a new one.
Scans(s, wake) ==
    << {t \in Ticket : FollowUpPending(s.runs[t])},
       {t \in Ticket : StaleSelected(s.runs[t])},
       {t \in Ticket : wake # NoWake /\ WakeSelected(s.runs[t], wake)},
       {t \in Ticket : wake # NoWake /\ ParkedSelected(s, t, wake)},
       {t \in Ticket : DeliverySelected(s, t, wake)},
       {t \in Ticket : AdmissionSelected(s, t)} >>

NothingDue(s, wake) == \A i \in 1 .. 6 : Scans(s, wake)[i] = {}

\* t is the Work Run that _next_due_run returns.
IsNextDue(s, wake, t) ==
    \E i \in 1 .. 6 :
        /\ \A j \in 1 .. i - 1 : Scans(s, wake)[j] = {}
        /\ t \in Scans(s, wake)[i]
        /\ \A u \in Scans(s, wake)[i] : t <= u

------------------------------------------------------------------------------
(* What _perform_due_effect does for a selected Work Run.                  *)

\* Mutant: one Candidate too many.
BudgetOffByOne(run) == run.seen > CandidateLimit + 1
BudgetExhausted(run) == run.seen > CandidateLimit

\* _mark_candidate_budget_exhausted
Exhausted(run) ==
    [run EXCEPT !.phase = "decision", !.slot = FALSE, !.claim = "released"]

\* The stale path is taken only while no disposition is recorded.
StalePerformed(run) ==
    /\ run.phase \in SlotPhases
    /\ run.stale = "due"
    /\ ~ run.disposed

Resuming(run) == run.phase = "parked" \/ run.resume

\* _effect_action_id for the ordinary action of a Work Run.
OrdinaryAction(run, t) ==
    IF run.phase = "accepted_awaiting_delivery" THEN DeliveryAction(run, t)
    ELSE IF Resuming(run) THEN ActionOf("resume", t, run.ordinal)
    ELSE ActionOf("execution", t, 0)

\* _record_trusted_progress gives the run a new stale deadline.
Progressed(run) == [run EXCEPT !.stale = "armed"]

\* _trusted_lifecycle_projection
Projection(run) ==
    <<run.phase, run.slot, run.claim, run.accepted, run.request, run.proof,
      run.binding>>

\* _record_candidate_history and the receipt fields, for a receipt of
\* Candidate c: a SHA above run.seen is new.
WithCandidate(run, c) ==
    [run EXCEPT !.candidate = c, !.seen = IF c > @ THEN c ELSE @]

------------------------------------------------------------------------------
(* Runtime and delivery observations, as WorkRunObservation admits them.   *)

\* The stale fields that a replacement binding resets.
Rebound(run, b) ==
    [run EXCEPT !.binding = b, !.disposed = FALSE, !.followUp = "none"]

BindingChanged(run, obs) ==
    run.binding # 0 /\ obs.binding # 0 /\ obs.binding # run.binding

\* _perform_due_effect accepts another binding only for the first replacement,
\* with terminal-binding Evidence for the run's previous action.
ReplacementAllowed(run, act, previous, obs) ==
    /\ act.kind = "resume"
    /\ run.phase = "parked"
    /\ run.binding = 1
    /\ obs.evidence
    /\ previous # NoAction

WithBinding(run, obs) ==
    IF BindingChanged(run, obs) THEN Rebound(run, obs.binding)
    ELSE IF obs.binding # 0 THEN [run EXCEPT !.binding = obs.binding]
    ELSE run

ObservedSlot(obs) ==
    \/ obs.phase \in SlotPhases
    \/ obs.phase = "wait" /\ obs.established /\ obs.binding # 0
    \/ obs.phase = "runtime_unavailable" /\ obs.established

\* Mutant: the wake is not consumed.
ObservedKeepsWake(run, obs, wake, resuming) ==
    [run EXCEPT !.phase = obs.phase, !.slot = ObservedSlot(obs),
                !.ordinal = IF resuming THEN @ + 1 ELSE @]

\* The phase, Slot and claim a run takes from its observation.
Observed(run, obs, wake, resuming) ==
    LET slot == ObservedSlot(obs)
        next == IF BudgetExhausted(run)
                THEN Exhausted(run)
                ELSE [run EXCEPT !.phase = obs.phase, !.slot = slot,
                                 !.claim = IF slot THEN "held" ELSE "released"]
    IN  [next EXCEPT !.lastWake = wake,
                     !.resume = FALSE,
                     !.ordinal = IF resuming THEN @ + 1 ELSE @,
                     !.proof = @ \/ next.phase = "completed"]

------------------------------------------------------------------------------
(* Stale bindings.                                                         *)

\* _apply_mechanical_stale_readback
Mechanical(run, readback) ==
    LET phase == CASE readback = "TERMINAL" -> "completed"
                   [] readback \in {"IDLE", "PERMISSION_WAITING"} -> "wait"
                   [] readback = "CANDIDATE_RECEIVED" -> "candidate_checks"
                   [] readback = "PROVIDER_UNAVAILABLE" -> "runtime_unavailable"
        slot == \/ phase \in SlotPhases
                \/ readback \in {"PERMISSION_WAITING", "PROVIDER_UNAVAILABLE"}
    IN  [run EXCEPT !.phase = phase, !.slot = slot,
                    !.claim = IF slot THEN "held" ELSE "released",
                    !.disposed = TRUE, !.stale = "none"]

\* _apply_stale_diagnosis
Diagnosed(run, disposition) ==
    LET stop == disposition = "DECISION"
    IN  [run EXCEPT !.phase = IF stop THEN "decision" ELSE "running",
                    !.slot = ~ stop,
                    !.claim = IF stop THEN "released" ELSE "held",
                    !.disposed = TRUE, !.stale = "none",
                    !.followUp = IF disposition \in {"GUIDE_SAME_WORKER",
                                                     "RECOVER_SAME_BINDING"}
                                 THEN "pending" ELSE "none"]

\* Mutant: the follow-up is not marked as completed.
FollowedUpOpen(run) == [run EXCEPT !.stale = "none"]

\* The last save of _perform_stale_follow_up.
FollowedUp(run) == [run EXCEPT !.followUp = "done", !.stale = "none"]

------------------------------------------------------------------------------
(* Plan Invalidation.                                                      *)

\* The quiescent state _reconcile_plan_invalidations saves first: the Slot is
\* still held.
\* Mutant: the Slot is released together with the phase.
QuiescedReleases(run, r) ==
    [run EXCEPT !.phase = "quiescent", !.report = r, !.last = NoAction,
                !.slot = FALSE, !.claim = "released"]
Quiesced(run, r) ==
    [run EXCEPT !.phase = "quiescent", !.report = r, !.last = NoAction,
                !.claim = IF run.slot THEN "held" ELSE "released"]

Released(run) == [run EXCEPT !.slot = FALSE, !.claim = "released"]

\* _apply_invalidation_classification: a stopped run waits for admission again.
Resumed(run, records) ==
    [run EXCEPT !.phase = "pending", !.slot = FALSE, !.claim = "unclaimed",
                !.last = NoAction, !.resume = TRUE,
                !.ordinal = @ + Cardinality(records)]
==============================================================================
