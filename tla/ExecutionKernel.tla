--------------------------- MODULE ExecutionKernel ---------------------------
(***************************************************************************)
(* ExecutionKernel.advance of gwo_v8/execution_kernel.py for one Campaign  *)
(* and one Plan Revision: Worker Slots, wakes, readback-first effects,     *)
(* Candidate receipts, delivery, stale bindings and Plan Invalidation.     *)
(*                                                                         *)
(* One advance runs at a time (_campaign_lock; see KernelStore for the     *)
(* store).  A step ends at a durable save or at a call of the effect       *)
(* owner, so that the process can die between any two of them: what is     *)
(* not in `state' is then lost, and `performed', what the effect owner has *)
(* really done, is not.  The effect owner and PlanControl's classifier are *)
(* external: they answer anything their contract allows.                   *)
(*                                                                         *)
(* Not here: human gates, successor revisions, replan budgets.             *)
(***************************************************************************)
EXTENDS WorkRun

CONSTANTS
    RuntimePhases,    \* phases a semantic readback reports
    DeliveryPhases,   \* phases a delivery readback reports
    ReadStates,       \* StaleStates a stale readback reports
    Diagnoses,        \* Dispositions a stale diagnosis returns
    Classifications,  \* "resume" and "stay", when PlanControl classifies
    MayCrash          \* whether a process dies during an advance

ASSUME ScenarioAssumption ==
    /\ RuntimePhases \subseteq Phases \ {"pending", "completed"}
    /\ DeliveryPhases \subseteq {"completed", "wait", "decision", "blocked"}
    /\ ReadStates \subseteq StaleStates
    /\ Diagnoses \subseteq Dispositions
    /\ Classifications \subseteq {"resume", "stay"}
    /\ MayCrash \in BOOLEAN

VARIABLES
    state,      \* the durable Campaign row
    pc,         \* where the advance stands
    call,       \* its wake_ref, whether the wake is new, its plan_invalidation
    job,        \* the locals of _perform_due_effect
    todo,       \* the records _reconcile_plan_invalidations still visits
    after,      \* where it returns to
    performed,  \* the actions the effect owner has executed
    repeated    \* ghost: those it has executed more than once

vars == <<state, pc, call, job, todo, after, performed, repeated>>

NoCall == [wake |-> NoWake, fresh |-> FALSE, report |-> NoReport]
NoJob == [act |-> NoAction]

Init ==
    /\ state = NewCampaign
    /\ pc = "idle"
    /\ call = NoCall
    /\ job = NoJob
    /\ todo = {}
    /\ after = "idle"
    /\ performed = {}
    /\ repeated = {}

world == <<performed, repeated>>

Stop ==
    /\ pc' = "idle"
    /\ call' = NoCall
    /\ job' = NoJob
    /\ todo' = {}
    /\ after' = "idle"

\* An ExecutionKernelError ends the advance; nothing is saved.
Raise == Stop /\ UNCHANGED <<state, performed, repeated>>

Goto(label) == pc' = label /\ UNCHANGED <<call, todo, after>>

SetRun(s, t, run) == [s EXCEPT !.runs[t] = run]

------------------------------------------------------------------------------
(* Reconciliation, reports, classification, wake.                          *)

\* Mutant: no reconciliation before the rest of the advance.
AdvanceUnreconciled(wake, report) ==
    /\ pc = "idle"
    /\ pc' = "report"
    /\ call' = [wake |-> wake, fresh |-> FALSE, report |-> report]
    /\ UNCHANGED <<state, job, todo, after, performed, repeated>>

Advance(wake, report) ==
    /\ pc = "idle"
    /\ pc' = "reconcile"
    /\ call' = [wake |-> wake, fresh |-> FALSE, report |-> report]
    /\ todo' = state.reports
    /\ after' = "report"
    /\ UNCHANGED <<state, job, performed, repeated>>

Visit(r) == pc = "reconcile" /\ r \in todo /\ r \notin state.resolved

IsQuiesced(r) ==
    state.runs[r[1]].phase = "quiescent" /\ state.runs[r[1]].report = r

ReconcileQuiesce(r) ==
    /\ Visit(r)
    /\ ~ IsQuiesced(r)
    /\ state.runs[r[1]].phase \in StoppablePhases
    /\ state' = SetRun(state, r[1], Quiesced(state.runs[r[1]], r))
    /\ UNCHANGED <<pc, call, job, todo, after, performed, repeated>>

ReconcileRelease(r) ==
    /\ Visit(r)
    /\ IsQuiesced(r)
    /\ state.runs[r[1]].slot
    /\ state' = SetRun(state, r[1], Released(state.runs[r[1]]))
    /\ todo' = todo \ {r}
    /\ UNCHANGED <<pc, call, job, after, performed, repeated>>

ReconcileSkip(r) ==
    /\ pc = "reconcile"
    /\ r \in todo
    /\ r \in state.resolved \/ (IsQuiesced(r) /\ ~ state.runs[r[1]].slot)
    /\ todo' = todo \ {r}
    /\ UNCHANGED <<state, pc, call, job, after, performed, repeated>>

ReconcileEnd ==
    /\ pc = "reconcile"
    /\ todo = {}
    /\ pc' = after
    /\ after' = "idle"
    /\ UNCHANGED <<state, call, job, todo, performed, repeated>>

\* _apply_plan_invalidation: the record is durable before anything changes.
RecordReport(r, run, return) ==
    /\ pc' = "reconcile"
    /\ after' = return
    /\ IF r \in state.reports
       THEN UNCHANGED state
       ELSE state' = [SetRun(state, r[1], run) EXCEPT !.reports = @ \cup {r}]
    /\ todo' = state.reports \cup {r}
    /\ UNCHANGED <<call, job, performed, repeated>>

\* Mutant: any bound Work Run is stopped, whatever its phase.
ReportBound(r, run) == run.bound

ReportAdmissible(r, run) ==
    /\ run.bound
    /\ r \in state.reports \/ run.phase \in StoppablePhases

TakeReport ==
    /\ pc = "report"
    /\ LET r == call.report
       IN  IF r = NoReport
           THEN Goto("classify") /\ UNCHANGED <<state, job, performed, repeated>>
           ELSE IF ReportAdmissible(r, state.runs[r[1]])
                THEN RecordReport(r, state.runs[r[1]], "classify")
                ELSE Raise

\* _classify_plan_invalidations_if_needed: PlanControl has an answer.
Classify(kind) ==
    /\ pc = "classify"
    /\ PendingReports(state) # {}
    /\ state.classified.kind = "none"
    /\ state' = [state EXCEPT !.classified =
                    [kind |-> kind, evidence |-> PendingReports(state)]]
    /\ UNCHANGED <<pc, call, job, todo, after, performed, repeated>>

ClassificationConflict ==
    /\ pc = "classify"
    /\ PendingReports(state) # {}
    /\ state.classified.kind # "none"
    /\ state.classified.evidence # PendingReports(state)
    /\ Raise

\* _apply_invalidation_classification
ApplyResume ==
    /\ pc = "classify"
    /\ PendingReports(state) # {}
    /\ state.classified = [kind |-> "resume", evidence |-> PendingReports(state)]
    /\ state' = [state EXCEPT
                    !.resolved = state.reports,
                    !.runs = [t \in Ticket |->
                        IF HasPendingReport(state, t)
                        THEN Resumed(@[t], {r \in PendingReports(state) : r[1] = t})
                        ELSE @[t]]]
    /\ Goto("wake")
    /\ UNCHANGED <<job, performed, repeated>>

NotResumed ==
    /\ pc = "classify"
    /\ \/ PendingReports(state) = {}
       \/ state.classified.kind = "none"
       \/ state.classified = [kind |-> "stay", evidence |-> PendingReports(state)]
    /\ Goto("wake")
    /\ UNCHANGED <<state, job, performed, repeated>>

RegisterWake ==
    /\ pc = "wake"
    /\ LET fresh == call.wake # NoWake /\ call.wake \notin state.wakes
       IN  /\ call' = [call EXCEPT !.fresh = fresh]
           /\ state' = IF fresh THEN [state EXCEPT !.wakes = @ \cup {call.wake}]
                                ELSE state
    /\ pc' = "scan"
    /\ UNCHANGED <<job, todo, after, performed, repeated>>

------------------------------------------------------------------------------
(* The scan and the start of _perform_due_effect.                          *)

ScanWake == IF call.fresh THEN call.wake ELSE NoWake

\* How the loop of advance goes on after _perform_due_effect for t.
Loop(s, t, progressed) ==
    IF \/ progressed
       \/ call.wake # NoWake /\ s.runs[t].lastWake = call.wake
    THEN Goto("scan") /\ job' = NoJob
    ELSE Stop

Return ==
    /\ pc = "scan"
    /\ NothingDue(state, ScanWake)
    /\ Raise

Start(t, act, label) ==
    /\ job' = [ticket |-> t, act |-> act, prior |-> Effect(state, act),
               previous |-> state.runs[t].last,
               before |-> Projection(state.runs[t]),
               resuming |-> Resuming(state.runs[t]),
               rearmed |-> FALSE, obs |-> [phase |-> "none"]]
    /\ Goto(label)
    /\ UNCHANGED <<state, performed, repeated>>

Due(t) == pc = "scan" /\ IsNextDue(state, ScanWake, t)

StartExhausted(t) ==
    /\ Due(t)
    /\ BudgetExhausted(state.runs[t])
    /\ state' = SetRun(state, t, Exhausted(state.runs[t]))
    /\ Loop(state', t, FALSE)
    /\ UNCHANGED world

StartFollowUp(t) ==
    /\ Due(t)
    /\ ~ BudgetExhausted(state.runs[t])
    /\ FollowUpPending(state.runs[t])
    /\ Start(t, ActionOf("stale_follow_up", t, state.runs[t].binding), "intent")

StartStale(t) ==
    /\ Due(t)
    /\ ~ BudgetExhausted(state.runs[t])
    /\ ~ FollowUpPending(state.runs[t])
    /\ StalePerformed(state.runs[t])
    /\ Start(t, ActionOf("stale_readback", t, state.runs[t].binding), "intent")

StartOrdinary(t) ==
    /\ Due(t)
    /\ ~ BudgetExhausted(state.runs[t])
    /\ ~ FollowUpPending(state.runs[t])
    /\ ~ StalePerformed(state.runs[t])
    /\ Start(t, OrdinaryAction(state.runs[t], t), "bind")

\* The Batch request identity is durable before the delivery intent.
BindRequest ==
    /\ pc = "bind"
    /\ state' = IF job.act.kind = "delivery"
                THEN [state EXCEPT !.runs[job.ticket].request = TRUE]
                ELSE state
    /\ Goto("intent")
    /\ UNCHANGED <<job, performed, repeated>>

Intended(s, a) == IF Effect(s, a) = "absent" THEN SetEffect(s, a, "intent", NoReceipt) ELSE s

IsOrdinary == job.act.kind \in SemanticKinds \cup {"delivery"}

\* The intent is durable before the external boundary.
Intent ==
    /\ pc = "intent"
    /\ state' =
         LET t == job.ticket
             s == Intended(state, job.act)
         IN  CASE IsOrdinary ->
                    SetRun(s, t, [s.runs[t] EXCEPT !.last = job.act, !.bound = TRUE,
                                                   !.slot = TRUE, !.claim = "held"])
               [] job.act.kind = "stale_diagnosis" ->
                    SetRun(s, t, [s.runs[t] EXCEPT
                        !.diagnosed = @ \cup {job.act.n},
                        !.last = ActionOf("stale_readback", t, job.act.n)])
               [] OTHER -> s
    /\ Goto("readback")
    /\ UNCHANGED <<job, performed, repeated>>

------------------------------------------------------------------------------
(* The effect owner.                                                       *)

SeenSoFar(run) == 1 .. (IF run.seen < MaxCandidate THEN run.seen + 1 ELSE run.seen)

\* Phases that carry a CandidateReceipt.
CandidatePhases == (SlotPhases \ {"running"}) \cup
                   {"accepted_awaiting_delivery", "decision"}

\* What RuntimeGateway and CandidateGate report for a semantic action.
RuntimeObservations(run, act) ==
    LET bindings ==
          IF act.kind = "resume" /\ run.binding # 0
          THEN {run.binding, 2} ELSE {IF run.binding = 0 THEN 1 ELSE run.binding}
        lifecycle ==
          {[phase |-> p, binding |-> b, established |-> TRUE, evidence |-> e,
            candidate |-> c, accepted |-> 0, report |-> NoReport] :
              p \in RuntimePhases \ {"accepted_awaiting_delivery", "quiescent"},
              b \in bindings, e \in BOOLEAN,
              c \in {0} \cup SeenSoFar(run)}
        accepted ==
          {[phase |-> "accepted_awaiting_delivery", binding |-> b,
            established |-> TRUE, evidence |-> e, candidate |-> c,
            accepted |-> c, report |-> NoReport] :
              b \in bindings, e \in BOOLEAN, c \in SeenSoFar(run)}
        refused ==
          {[phase |-> "runtime_unavailable", binding |-> 0,
            established |-> FALSE, evidence |-> FALSE, candidate |-> 0,
            accepted |-> 0, report |-> NoReport]}
        invalid ==
          {[phase |-> "quiescent", binding |-> b, established |-> TRUE,
            evidence |-> e, candidate |-> 0, accepted |-> 0, report |-> r] :
              b \in bindings, e \in BOOLEAN,
              r \in {r \in Report : r[1] = act.ticket}}
        all == lifecycle \cup invalid
               \cup (IF "accepted_awaiting_delivery" \in RuntimePhases
                     THEN accepted ELSE {})
               \cup (IF "runtime_unavailable" \in RuntimePhases /\ run.binding = 0
                     THEN refused ELSE {})
    IN  {o \in all :
           /\ o.candidate # 0 => o.phase \in CandidatePhases
           /\ o.evidence => o.binding # run.binding
           /\ o.phase = "parked" => run.ordinal < MaxResume
           /\ o.report # NoReport => run.ordinal < MaxResume}

DeliveryObservations(run) ==
    {[phase |-> p, binding |-> run.binding, established |-> TRUE,
      evidence |-> FALSE,
      candidate |-> IF p = "completed" THEN run.accepted ELSE 0,
      accepted |-> IF p = "completed" THEN run.accepted ELSE 0,
      report |-> NoReport] : p \in DeliveryPhases}

StaleObservations(run) ==
    {[phase |-> s, candidate |-> c] : s \in ReadStates, c \in {0} \cup SeenSoFar(run)}

Observations ==
    LET run == state.runs[job.ticket]
    IN  CASE job.act.kind \in SemanticKinds -> RuntimeObservations(run, job.act)
          [] job.act.kind = "delivery" -> DeliveryObservations(run)
          [] job.act.kind = "stale_readback" ->
               {o \in StaleObservations(run) :
                  (o.candidate # 0) <=> (o.phase = "CANDIDATE_RECEIVED")}
          [] job.act.kind = "stale_diagnosis" -> {[phase |-> d, candidate |-> 0] : d \in Diagnoses}
          [] OTHER -> {[phase |-> "delivered", candidate |-> 0]}

Answered(obs) == job' = [job EXCEPT !.obs = obs] /\ Goto("apply")

\* readback(action) returns an observation of an action the owner knows.
ReadbackFound(obs) ==
    /\ pc = "readback"
    /\ job.act \in performed \/ job.act.kind = "stale_readback"
    /\ obs \in Observations
    /\ Answered(obs)
    /\ UNCHANGED <<state, performed, repeated>>

\* Mutant: the fence is not consulted.
MayExecuteUnfenced == job.prior # "read_back"

\* readback(action) returns None and the action may be executed.
MayExecute ==
    /\ job.prior # "read_back"
    /\ ~ (job.act.kind \in FencedKinds /\ job.prior = "attempted")

ReadbackNone ==
    /\ pc = "readback"
    /\ IF MayExecute
       THEN /\ state' = IF job.act.kind \in FencedKinds
                        THEN SetEffect(state, job.act, "attempted", NoReceipt)
                        ELSE state
            /\ Goto("execute")
            /\ UNCHANGED job
       ELSE /\ state' = IF IsOrdinary
                        THEN [state EXCEPT !.runs[job.ticket].lastWake = call.wake]
                        ELSE state
            /\ Loop(state', job.ticket, FALSE)
    /\ UNCHANGED world

Perform ==
    /\ performed' = performed \cup {job.act}
    /\ repeated' = repeated \cup ({job.act} \cap performed)

ExecuteAnswered(obs) ==
    /\ pc = "execute"
    /\ obs \in Observations
    /\ Perform
    /\ Answered(obs)
    /\ UNCHANGED state

\* The owner acted but the answer is lost: the process dies or execute raises.
ExecuteLost ==
    /\ pc = "execute"
    /\ MayCrash
    /\ Perform
    /\ Stop
    /\ UNCHANGED state

\* A stale effect that has no observation yet.
ExecuteNone ==
    /\ pc = "execute"
    /\ ~ IsOrdinary
    /\ Perform
    /\ Loop(state, job.ticket, FALSE)
    /\ UNCHANGED state

------------------------------------------------------------------------------
(* _perform_due_effect applies a semantic or delivery observation.         *)

Applying == pc = "apply" /\ IsOrdinary

RejectBinding ==
    /\ Applying
    /\ BindingChanged(state.runs[job.ticket], job.obs)
    /\ ~ ReplacementAllowed(state.runs[job.ticket], job.act, job.previous, job.obs)
    /\ Raise

BindingAccepted ==
    \/ ~ BindingChanged(state.runs[job.ticket], job.obs)
    \/ ReplacementAllowed(state.runs[job.ticket], job.act, job.previous, job.obs)

ApplyReport ==
    /\ Applying
    /\ BindingAccepted
    /\ job.obs.report # NoReport
    /\ LET run == WithBinding(state.runs[job.ticket], job.obs)
           active == [run EXCEPT !.phase = IF @ = "pending" THEN "running" ELSE @]
       IN  IF ReportAdmissible(job.obs.report, active)
           THEN RecordReport(job.obs.report, active, "stopped")
           ELSE Raise

\* After the reconciliation of a report that came with a readback.
SettleReport ==
    /\ pc = "stopped"
    /\ state' = LET s == SetEffect(state, job.act, "read_back", NoReceipt)
                IN  [s EXCEPT !.runs[job.ticket] =
                        [Progressed(@) EXCEPT !.lastWake = call.wake]]
    /\ Loop(state', job.ticket, TRUE)
    /\ UNCHANGED world

\* The Candidate receipt is durable before the phase changes.
ApplyCandidate ==
    /\ Applying
    /\ BindingAccepted
    /\ job.obs.report = NoReport
    /\ LET run == WithBinding(state.runs[job.ticket], job.obs)
           changed == job.obs.candidate \notin {0, run.candidate}
           saved == WithCandidate(run, job.obs.candidate)
       IN  /\ job' = [job EXCEPT !.rearmed = changed]
           /\ state' = IF job.obs.candidate = 0 THEN state
                       ELSE SetRun(state, job.ticket,
                                   IF changed THEN Progressed(saved) ELSE saved)
    /\ Goto("settle")
    /\ UNCHANGED world

Settling == pc = "settle" /\ IsOrdinary

RejectAccepted ==
    /\ Settling
    /\ state.runs[job.ticket].accepted # 0
    /\ job.obs.accepted \notin {0, state.runs[job.ticket].accepted}
    /\ Raise

Settle ==
    /\ Settling
    /\ \/ state.runs[job.ticket].accepted = 0
       \/ job.obs.accepted \in {0, state.runs[job.ticket].accepted}
    /\ LET run == WithBinding(state.runs[job.ticket], job.obs)
           accepted == [run EXCEPT !.accepted =
                           IF job.obs.accepted # 0 THEN job.obs.accepted ELSE @]
           next == Observed(accepted, job.obs, call.wake, job.resuming)
           rearm == /\ ~ job.rearmed
                    /\ \/ job.prior # "read_back"
                       \/ Projection(next) # job.before
       IN  state' = SetRun(SetEffect(state, job.act, "read_back", NoReceipt),
                           job.ticket, IF rearm THEN Progressed(next) ELSE next)
    /\ Loop(state', job.ticket, TRUE)
    /\ UNCHANGED world

------------------------------------------------------------------------------
(* _perform_stale_effect and _perform_stale_follow_up.                     *)

\* _persist_candidate_receipt for CANDIDATE_RECEIVED.
StaleCandidate ==
    /\ pc = "apply"
    /\ job.act.kind = "stale_readback"
    /\ LET run == state.runs[job.ticket]
           changed == job.obs.candidate # run.candidate
           saved == WithCandidate(run, job.obs.candidate)
       IN  state' = IF job.obs.candidate = 0 THEN state
                    ELSE SetRun(state, job.ticket,
                                IF changed THEN Progressed(saved) ELSE saved)
    /\ Goto("record")
    /\ UNCHANGED <<job, performed, repeated>>

\* _persist_effect_readback: the receipt of a stale action never changes.
Recording == pc = "record" \/ (pc = "apply" /\ job.act.kind \in FencedKinds)

ReceiptKept ==
    Effect(state, job.act) = "read_back" =>
        state.effects[job.act].receipt = job.obs

RejectReceipt == Recording /\ ~ ReceiptKept /\ Raise

RecordStale ==
    /\ Recording
    /\ ReceiptKept
    /\ state' = SetEffect(state, job.act, "read_back", job.obs)
    /\ Goto("settle")
    /\ UNCHANGED <<job, performed, repeated>>

SettleMechanical ==
    /\ pc = "settle"
    /\ job.act.kind = "stale_readback"
    /\ job.obs.phase # "AMBIGUOUS_RUNNING"
    /\ LET run == [state.runs[job.ticket] EXCEPT !.last = job.act]
       IN  state' = SetRun(state, job.ticket,
                IF BudgetExhausted(run)
                THEN [Exhausted(run) EXCEPT !.stale = "none", !.disposed = TRUE]
                ELSE Mechanical(run, job.obs.phase))
    /\ Loop(state', job.ticket, TRUE)
    /\ UNCHANGED world

\* A running binding that mechanical readback cannot classify.
StartDiagnosis ==
    /\ pc = "settle"
    /\ job.act.kind = "stale_readback"
    /\ job.obs.phase = "AMBIGUOUS_RUNNING"
    /\ Start(job.ticket, ActionOf("stale_diagnosis", job.ticket, job.act.n), "intent")

SettleDiagnosis ==
    /\ pc = "settle"
    /\ job.act.kind = "stale_diagnosis"
    /\ state' = SetRun(state, job.ticket,
            Diagnosed([state.runs[job.ticket] EXCEPT !.last = job.act], job.obs.phase))
    /\ Loop(state', job.ticket, TRUE)
    /\ UNCHANGED world

SettleFollowUp ==
    /\ pc = "settle"
    /\ job.act.kind = "stale_follow_up"
    /\ state' = SetRun(state, job.ticket,
            FollowedUp([state.runs[job.ticket] EXCEPT !.last = job.act]))
    /\ Loop(state', job.ticket, TRUE)
    /\ UNCHANGED world

------------------------------------------------------------------------------
(* The environment.                                                        *)

\* A stale deadline passes.
DeadlinePasses(t) ==
    /\ state.runs[t].stale = "armed"
    /\ ReadStates # {}
    /\ state' = [state EXCEPT !.runs[t].stale = "due"]
    /\ UNCHANGED <<pc, call, job, todo, after, performed, repeated>>

Crash == pc # "idle" /\ MayCrash /\ Raise

AdvanceSteps ==
    \/ \E r \in Report :
          ReconcileQuiesce(r) \/ ReconcileRelease(r) \/ ReconcileSkip(r)
    \/ ReconcileEnd
    \/ TakeReport
    \/ \E kind \in Classifications : Classify(kind)
    \/ ClassificationConflict
    \/ ApplyResume
    \/ NotResumed
    \/ RegisterWake
    \/ Return
    \/ \E t \in Ticket :
          StartExhausted(t) \/ StartFollowUp(t) \/ StartStale(t) \/ StartOrdinary(t)
    \/ BindRequest
    \/ Intent
    \/ ReadbackNone
    \/ /\ pc \in {"readback", "execute"}
       /\ \E obs \in Observations : ReadbackFound(obs) \/ ExecuteAnswered(obs)
    \/ ExecuteNone
    \/ RejectBinding
    \/ ApplyReport
    \/ SettleReport
    \/ ApplyCandidate
    \/ RejectAccepted
    \/ Settle
    \/ StaleCandidate
    \/ RejectReceipt
    \/ RecordStale
    \/ SettleMechanical
    \/ StartDiagnosis
    \/ SettleDiagnosis
    \/ SettleFollowUp

Next ==
    \/ \E wake \in Wake \cup {NoWake}, report \in Report \cup {NoReport} :
          Advance(wake, report)
    \/ AdvanceSteps
    \/ ExecuteLost
    \/ Crash
    \/ \E t \in Ticket : DeadlinePasses(t)

Spec == Init /\ [][Next]_vars

\* The code's own scheduling: advance runs to its end and every external call
\* returns.  Nothing makes a caller call again.
FairSpec == Spec /\ WF_vars(AdvanceSteps)

------------------------------------------------------------------------------
(* Properties.                                                             *)

Labels == {"idle", "reconcile", "report", "classify", "wake", "scan", "bind",
           "intent", "readback", "execute", "apply", "stopped", "record", "settle"}

\* The durable row, the position of the advance and the effects performed are
\* values of their types; a resume ordinal is spent once per resumption.
TypeOK ==
    /\ state.runs \in [Ticket -> Run]
    /\ DOMAIN state.effects \subseteq Action
    /\ \A a \in DOMAIN state.effects :
          /\ state.effects[a].state \in EffectStates \ {"absent"}
          /\ state.effects[a].receipt \in StaleReceipt \cup {NoReceipt}
    /\ state.reports \subseteq Report
    /\ state.resolved \subseteq state.reports
    /\ state.classified.kind \in Classifications \cup {"none"}
    /\ state.classified.evidence \subseteq Report
    /\ state.wakes \subseteq Wake
    /\ pc \in Labels
    /\ todo \subseteq state.reports
    /\ after \in {"idle", "report", "classify", "stopped"}
    /\ job = NoJob \/ (job.act \in Action /\ job.ticket = job.act.ticket)
    /\ performed \subseteq Action
    /\ repeated \subseteq performed

\* Exclusive Resources (_next_due_run): a Work Run starts beside another one
\* that declares a common resource only if it held its Slot before it was
\* selected, because an earlier advance stopped between its admission and the
\* first observation.
Claiming(t) ==
    state.runs[t].phase \notin {"pending"} \cup TerminalPhases \cup QuiescentPhases

HeldBefore(t) == IF pc = "scan" THEN state.runs[t].slot ELSE job.before[2]

ExclusiveAdmission ==
    [][\A t, u \in Ticket :
          /\ t # u
          /\ Resources[t] \cap Resources[u] # {}
          /\ ~ Claiming(t) /\ Claiming(t)' /\ Claiming(u)
          => HeldBefore(t)]_vars

\* Native dependencies: whatever wakes, resumes and crashes happen, a semantic
\* effect of a Ticket has been performed only if all its blockers are, and
\* stay, completed.
DependencyOrder ==
    \A a \in performed :
        a.kind \in SemanticKinds =>
            \A u \in DependsOn[a.ticket] : state.runs[u].phase = "completed"

\* Worker Slots: the durable row never holds more than the configured Slots,
\* those of deliveries apart, which take theirs without asking.
Delivering(t) ==
    \E a \in DOMAIN state.effects : a.kind = "delivery" /\ a.ticket = t

SlotBound == Cardinality({t \in Held(state) : ~ Delivering(t)}) <= Capacity

\* Candidate budget: no effect of a Work Run is performed once its durable
\* history holds a fourth distinct Candidate, not even after a crash between
\* the receipt and the decision.
BudgetStopsEffects ==
    pc = "execute" => state.runs[job.ticket].seen <= CandidateLimit

\* Plan Invalidation: no effect but a stale follow-up is performed for a Work
\* Run with an unresolved report, whatever was selected before the report
\* became durable.
InvalidationFences ==
    pc = "execute" /\ job.act.kind # "stale_follow_up" =>
        ~ HasPendingReport(state, job.ticket)

\* The Slot of an invalidated Work Run is released only once its quiescent
\* state is durable.
QuiescentBeforeRelease ==
    [][\A t \in Ticket :
          /\ HasPendingReport(state, t)
          /\ state.runs[t].slot /\ ~ state'.runs[t].slot
          => state.runs[t].phase = "quiescent"]_vars

\* Reconciliation never meets a record whose Work Run it cannot stop, which
\* would make every later advance raise EXECUTION_STORE_INVALID.
AlwaysReconcilable ==
    \A r \in PendingReports(state) : state.runs[r[1]].phase \in StoppablePhases

\* The effect owner sees a ledger: intent before effect, no repetition after a
\* durable readback, and one performance at most of a fenced action.
Ledger == INSTANCE EffectLedger WITH
    ledger <- [a \in DOMAIN state.effects |-> state.effects[a].state]

LedgerSpec == Ledger!Spec

\* advance returns to its caller, or comes back for ever to work that one of
\* the scans of _next_due_run selects although nothing is left to do in it: a
\* stale binding that already has a mechanical disposition and gets an ordinary
\* readback, whose answer keeps it stale; a follow-up, a stale effect or a
\* repeated delivery that the effect owner leaves unanswered and whose Work Run
\* has consumed the wake of this advance.  No other loop is possible.
SelectedAgain(t) ==
    \/ StaleSelected(state.runs[t]) /\ state.runs[t].disposed
    \/ /\ call.wake # NoWake /\ state.runs[t].lastWake = call.wake
       /\ \/ FollowUpPending(state.runs[t])
          \/ StaleSelected(state.runs[t])
          \/ DeliverySelected(state, t, ScanWake)

AdvanceReturns ==
    \/ []<>(pc = "idle")
    \/ []<>(pc = "scan" /\ \E t \in Ticket : SelectedAgain(t))

==============================================================================
