-------------------------- MODULE SuccessorRevision --------------------------
(***************************************************************************)
(* Replanning in gwo_v8/execution_kernel.py: how ExecutionKernel.advance   *)
(* moves a Campaign from one Plan Revision to the next.                    *)
(*                                                                         *)
(* A Work Run reports a Plan Invalidation.  The kernel records it, stops   *)
(* the Work Run and asks PlanControl to classify the pending Evidence.  A  *)
(* classification resumes the work, names a successor revision, or asks    *)
(* for a human Decision.  Every move is an intent in the kernel's Campaign *)
(* row, an activation in PlanControl, and a migration of the row: advance  *)
(* may raise or die between any two of them, and the next advance picks up *)
(* from the row.  Two budgets bound the moves: the successor revisions of  *)
(* the Campaign and the Evidence against one obligation.                   *)
(*                                                                         *)
(* One action is one durable write of either store, with the reads that    *)
(* lead to it; between writes advance holds nothing but the row, the       *)
(* report and the choice it was called with.  One process drives the       *)
(* Campaign, as KernelStore's compare-and-swap makes a second one fail.    *)
(* Of PlanControl's transactions, which PlanControl.tla has, the model     *)
(* keeps the two that a later advance can tell apart: the activation of a  *)
(* revision, and the exact Ticket claims of it.  A Ticket has one          *)
(* obligation.  Successors that an operator starts, Campaigns from before  *)
(* the budgets, and the writer's cutover are left out.                     *)
(***************************************************************************)
EXTENDS FiniteSets, Integers, Sequences

CONSTANTS
    Ticket,
    Evidence,
    Dispositions,       \* what PlanControl may classify Evidence as
    SuccessorLimit,     \* successor_revision_limit of the Policy Witness
    InvalidationLimit,  \* invalidation_limit of the Policy Witness
    MaxCrash            \* bound on the times the process dies

ASSUME DispositionAssumption == Dispositions \subseteq {"resume", "successor", "human"}
ASSUME LimitAssumption == SuccessorLimit \in Nat \ {0} /\ InvalidationLimit \in Nat \ {0}
ASSUME CrashAssumption == MaxCrash \in Nat

VARIABLES
    active,       \* PlanControl: the active revision
    claimed,      \* the revision that the Tickets are claimed for exactly
    activations,  \* the action in the Activation Receipt of each revision
    attempts,     \* the one Planning attempt on each revision
    consulted,    \* invalidation_classifications, by action
    answers,      \* the choice and the source readback saved with a Decision
    gateAttempts, \* state of the human gate attempt, by predecessor
    source,       \* what the tracker says of the change a Decision asks for
    row,          \* the kernel's Campaign row
    pc, call,     \* where advance stands, and what it was called with
    crashes       \* spent bound

plan == <<active, claimed, activations, attempts, consulted, answers, gateAttempts>>
vars == <<plan, source, row, pc, call, crashes>>

\* One more than the budget allows: the budget is a property, not a bound.
Revision == 1 .. SuccessorLimit + 2

Record == Ticket \X Evidence

Phase == {"pending", "active", "quiescent", "completed"}

\* A replan: action is over the Evidence set, a human one over the Decision.
NoAction == [kind |-> "none"]
ActionValue ==
    [kind : {"replan", "human"}, revision : Revision, evidence : SUBSET Evidence]

\* kept: the Tickets whose Work Subject the successor leaves as it was.
NoAttempt == [action |-> NoAction, kept |-> {}]
AttemptValue == [action : ActionValue, kept : SUBSET Ticket]

NoAnswer == [choice |-> "none"]
AnswerValue ==
    [choice : {"approve", "reject"}, source : {"pending", "approved", "rejected"}]

NoClass == [disposition |-> "none", evidence |-> {}]
ClassValue == [disposition : Dispositions, evidence : SUBSET Evidence]

\* human_gate: the phase of its summary and the revision of its Decision.
NoGate == [phase |-> "none", revision |-> 0]
GateValue ==
    [phase : {"choice", "readback", "planned", "active", "rejected", "exhausted"},
     revision : Revision]

\* successor_transition, and human_successor_transition with its state.
NoTransition == [previous |-> 0]
TransitionValue == [previous : Revision, evidence : SUBSET Evidence]
HumanValue ==
    [previous : Revision, evidence : SUBSET Evidence, state : {"due", "activated"}]

\* A Work Subject is named by the revision that gave it to its Ticket.
Subjects == [Ticket -> Revision]

ArchiveValue == [records : SUBSET Record, subjects : Subjects]

RowValue ==
    [revision : Revision,
     runs : [Ticket -> Phase],
     subjects : Subjects,
     records : SUBSET Record,
     resolved : SUBSET Record,
     class : ClassValue \cup {NoClass},
     gate : GateValue \cup {NoGate},
     transition : TransitionValue \cup {NoTransition},
     human : HumanValue \cup {NoTransition},
     used : Nat,
     spent : SUBSET (Ticket \X Revision \X Evidence),
     lineage : Seq(ArchiveValue)]

NoReport == [revision |-> 0]
ReportValue == [revision : Revision, ticket : Ticket, evidence : Evidence]

Control ==
    {"idle", "load", "reconcile", "report", "fence", "classify", "settle", "apply",
     "human", "decide", "attempt", "intent", "plan", "publish", "cross", "attest",
     "finish", "adopt", "close", "due", "activate", "finalize", "migrate", "work"}

TypeOK ==
    /\ active \in Revision
    /\ claimed \in Revision
    /\ activations \in [Revision -> ActionValue \cup {NoAction}]
    /\ attempts \in [Revision -> AttemptValue \cup {NoAttempt}]
    /\ consulted \subseteq ActionValue \X Dispositions
    /\ answers \in [Revision -> AnswerValue \cup {NoAnswer}]
    /\ gateAttempts \in [Revision -> {"none", "planned", "active"}]
    /\ source \in [Revision -> {"pending", "approved", "rejected"}]
    /\ row \in RowValue
    /\ pc \in Control
    /\ call \in [report : ReportValue \cup {NoReport},
                 choice : {"none", "approve", "reject"}]
    /\ crashes \in 0 .. MaxCrash

Idle == [report |-> NoReport, choice |-> "none"]

Init ==
    /\ active = 1
    /\ claimed = 1
    /\ activations = [r \in Revision |-> NoAction]
    /\ attempts = [r \in Revision |-> NoAttempt]
    /\ consulted = {}
    /\ answers = [r \in Revision |-> NoAnswer]
    /\ gateAttempts = [r \in Revision |-> "none"]
    /\ source = [r \in Revision |-> "pending"]
    /\ row = [revision |-> 1,
              runs |-> [t \in Ticket |-> "pending"],
              subjects |-> [t \in Ticket |-> 1],
              records |-> {},
              resolved |-> {},
              class |-> NoClass,
              gate |-> NoGate,
              transition |-> NoTransition,
              human |-> NoTransition,
              used |-> 0,
              spent |-> {},
              lineage |-> <<>>]
    /\ pc = "idle"
    /\ call = Idle
    /\ crashes = 0

------------------------------------------------------------------------------
(* Helpers.                                                                *)

Goto(to) == pc' = to /\ UNCHANGED call

\* advance returns or raises.
End == pc' = "idle" /\ call' = Idle

\* A step of the kernel that writes its row.
Saves(new, to) == row' = new /\ Goto(to) /\ UNCHANGED <<plan, source, crashes>>

\* A step that reads only.
Reads(to) == Goto(to) /\ UNCHANGED <<plan, source, row, crashes>>

Unresolved == row.records \ row.resolved

Invalidated == {x[1] : x \in Unresolved}

\* _pending_invalidation_observations
Pending == {x[2] : x \in Unresolved}

Replan(es) == [kind |-> "replan", revision |-> row.revision, evidence |-> es]

Human(r, es) == [kind |-> "human", revision |-> r, evidence |-> es]

\* _obligation_key
Obligation(t) == <<t, row.subjects[t]>>

\* Mutant: the last successor is not counted.
OverBudget == row.used > SuccessorLimit

\* _successor_revision_budget_exhausted
BudgetSpent == row.used >= SuccessorLimit

\* _persist_budget_exhaustion: the Decision replaces the gate that was there.
Exhausted(g) ==
    IF g.phase = "exhausted" THEN g ELSE [phase |-> "exhausted", revision |-> row.revision]

\* _human_successor_activation_crossed
Crossed ==
    /\ row.human # NoTransition
    /\ row.human.state = "due"
    /\ row.human.previous = row.revision
    /\ active # row.revision
    /\ activations[active] = Human(row.revision, row.human.evidence)

\* Mutant: the intent is compared with the active revision.
MatchesActive ==
    /\ row.human = NoTransition
    /\ row.transition # NoTransition
    /\ row.transition.previous = active

\* _validate_successor_state_match: a human transition, whatever its revision,
\* comes before an ordinary one.
Matches ==
    /\ row.human = NoTransition
    /\ row.transition # NoTransition
    /\ row.transition.previous = row.revision
    /\ active # row.revision
    /\ activations[active] = Replan(row.transition.evidence)
    /\ row.class = [disposition |-> "successor", evidence |-> row.transition.evidence]

\* _validate_human_successor_state_match
HumanMatches ==
    /\ row.human # NoTransition
    /\ row.human.state = "activated"
    /\ row.human.previous = row.revision
    /\ active # row.revision
    /\ activations[active] = Human(row.revision, row.human.evidence)
    /\ row.gate.phase \in {"planned", "active"}
    /\ row.gate.revision = row.human.previous

Archive == [records |-> row.records, subjects |-> row.subjects]

\* Mutant: a successor starts with a budget of its own.
Renewed(gate, transition, human) ==
    [revision |-> active,
     runs |-> [t \in Ticket |-> "pending"],
     subjects |-> [t \in Ticket |-> active],
     records |-> {},
     resolved |-> {},
     class |-> NoClass,
     gate |-> gate,
     transition |-> transition,
     human |-> human,
     used |-> row.used + 1,
     spent |-> {},
     lineage |-> Append(row.lineage, Archive)]

\* _reconcile_successor_revision: Tickets of unchanged subject keep an accepted
\* Result, the Evidence moves to the lineage, the budgets go on.
Migrated(gate, transition, human) ==
    [revision |-> active,
     runs |-> [t \in Ticket |->
         IF row.runs[t] = "completed" /\ t \in attempts[row.revision].kept
         THEN "completed" ELSE "pending"],
     subjects |-> [t \in Ticket |->
         IF t \in attempts[row.revision].kept THEN row.subjects[t] ELSE active],
     records |-> {},
     resolved |-> {},
     class |-> NoClass,
     gate |-> gate,
     transition |-> transition,
     human |-> human,
     used |-> row.used + 1,
     spent |-> row.spent,
     lineage |-> Append(row.lineage, Archive)]

MayMigrate == Matches /\ ~ BudgetSpent

\* The human gate of an earlier revision is dropped.
Successor == Migrated(NoGate, row.transition, NoTransition)

HumanSuccessor ==
    Migrated([row.gate EXCEPT !.phase = "active"], NoTransition, row.human)

------------------------------------------------------------------------------
(* advance: load, reconcile, report.                                       *)

Advance(report, choice) ==
    /\ pc = "idle"
    /\ pc' = "load"
    /\ call' = [report |-> report, choice |-> choice]
    /\ UNCHANGED <<plan, source, row, crashes>>

\* read_active: an active revision without exact claims is refused, to every caller.
ReadsActive == claimed = active

\* A row behind its human successor after the activation was acknowledged is
\* refused: the ordinary transition it is migrated by is not there.
MayLoad == ReadsActive /\ (row.revision = active \/ Crossed \/ MayMigrate)

Load ==
    /\ pc = "load"
    /\ ReadsActive
    /\ row.revision = active \/ Crossed
    /\ Reads("reconcile")

LoadSuccessor ==
    /\ pc = "load"
    /\ ReadsActive
    /\ row.revision # active
    /\ ~ Crossed
    /\ MayMigrate
    /\ Saves(Successor, "reconcile")

\* Every record must be bound to the active revision, and a pending one to a
\* Work Run it can stop.
MayReconcile ==
    /\ row.records # {} => row.revision = active
    /\ \A t \in Invalidated : row.runs[t] \in {"active", "quiescent"}

Reconcile ==
    /\ pc \in {"reconcile", "fence"}
    /\ MayReconcile
    /\ Saves([row EXCEPT !.runs =
                  [t \in Ticket |-> IF t \in Invalidated THEN "quiescent" ELSE @[t]]],
             IF pc = "reconcile" /\ call.report # NoReport THEN "report" ELSE "classify")

\* An exact replay of an archived report changes nothing.
ReplayReport ==
    LET r == call.report IN
    /\ pc = "report"
    /\ r.revision < row.revision
    /\ <<r.ticket, r.evidence>> \in row.lineage[r.revision].records
    /\ End
    /\ UNCHANGED <<plan, source, row, crashes>>

Reported == <<call.report.ticket, call.report.evidence>>

MayReport ==
    IF call.report.revision = row.revision
    THEN Reported \in row.records \/ row.runs[call.report.ticket] \in {"active", "quiescent"}
    ELSE Reported \in row.lineage[call.report.revision].records

ReportAgain ==
    /\ pc = "report"
    /\ call.report.revision = row.revision
    /\ Reported \in row.records
    /\ Reads("fence")

Against(o, spent) == {x[3] : x \in {y \in spent : <<y[1], y[2]>> = o}}

\* The gate after Evidence e was counted against obligation o.
GateAfter(o, e) ==
    IF /\ e \notin Against(o, row.spent)
       /\ Cardinality(Against(o, row.spent) \cup {e}) > InvalidationLimit
    THEN Exhausted(row.gate)
    ELSE row.gate

\* _apply_plan_invalidation, _record_replan_budget_evidence: one save.
ReportNew ==
    LET t == call.report.ticket
        e == call.report.evidence
        o == Obligation(t) IN
    /\ pc = "report"
    /\ call.report.revision = row.revision
    /\ Reported \notin row.records
    /\ MayReport
    /\ Saves([row EXCEPT !.records = @ \cup {<<t, e>>},
                         !.spent = @ \cup {<<t, o[2], e>>},
                         !.gate = GateAfter(o, e)],
             "fence")

------------------------------------------------------------------------------
(* Classification.                                                         *)

\* An exhausted budget and an empty report ledger leave nothing to classify.
NothingToClassify == row.gate.phase = "exhausted" \/ Pending = {}

MayClassify ==
    \/ NothingToClassify \/ BudgetSpent
    \/ row.class = NoClass \/ row.class.evidence = Pending

SkipClassify ==
    /\ pc = "classify"
    /\ NothingToClassify
    /\ Reads("human")

\* The successor budget is spent: a Decision before any classification.
ExhaustSuccessors ==
    /\ pc = "classify"
    /\ ~ NothingToClassify
    /\ BudgetSpent
    /\ Saves([row EXCEPT !.gate = Exhausted(@)], "human")

Reclassify ==
    /\ pc = "classify"
    /\ ~ NothingToClassify /\ ~ BudgetSpent
    /\ row.class # NoClass
    /\ MayClassify
    /\ Reads("apply")

\* PlanControl replays a classification, or commits a new one: a successor
\* takes the one Planning attempt on the revision.
MayConsult ==
    \E d \in Dispositions :
        \/ <<Replan(Pending), d>> \in consulted
        \/ d = "successor" => attempts[row.revision] = NoAttempt

Consult(d, kept) ==
    LET a == Replan(Pending)
        known == \E x \in consulted : x[1] = a IN
    /\ pc = "classify"
    /\ ~ NothingToClassify /\ ~ BudgetSpent
    /\ row.class = NoClass
    /\ IF known
       THEN <<a, d>> \in consulted /\ UNCHANGED <<consulted, attempts>>
       ELSE /\ consulted' = consulted \cup {<<a, d>>}
            /\ IF d = "successor"
               THEN /\ attempts[row.revision] = NoAttempt
                    /\ attempts' = [attempts EXCEPT
                           ![row.revision] = [action |-> a, kept |-> kept]]
               ELSE UNCHANGED attempts
    /\ Goto("settle")
    /\ UNCHANGED <<active, claimed, activations, answers, gateAttempts, source, row,
                   crashes>>

Settle ==
    /\ pc = "settle"
    /\ \E d \in Dispositions :
           /\ <<Replan(Pending), d>> \in consulted
           /\ Saves([row EXCEPT !.class = [disposition |-> d, evidence |-> Pending]],
                    "apply")

\* _ensure_human_gate: a gate of another revision is not replaced.
MayApply ==
    row.class.disposition = "human" =>
        row.gate = NoGate \/ row.gate.revision = row.revision

Apply ==
    /\ pc = "apply"
    /\ MayApply
    /\ CASE row.class.disposition = "successor" -> Reads("human")
         [] row.class.disposition = "human" ->
                Saves([row EXCEPT !.gate =
                           IF @ = NoGate
                           THEN [phase |-> "choice", revision |-> row.revision]
                           ELSE @], "human")
         [] OTHER ->
                Saves([row EXCEPT !.resolved = row.records,
                                  !.runs = [t \in Ticket |->
                                      IF t \in Invalidated THEN "pending" ELSE @[t]]],
                      "human")

------------------------------------------------------------------------------
(* The human gate.  Its Decision is of the row's revision.                 *)

\* _human_successor_requires_resume
NeedsResume ==
    /\ row.human # NoTransition
    /\ row.human.state = "due" \/ row.revision # active

\* The source readback must still be in the gate, and the attempt durable.
MayResume ==
    /\ row.gate.phase \in {"planned", "active"}
    /\ gateAttempts[row.human.previous] # "none"

Resume ==
    /\ pc = "human"
    /\ NeedsResume
    /\ MayResume
    /\ Reads(IF active # row.human.previous THEN "finish" ELSE "plan")

Chooses == ~ NeedsResume /\ call.choice # "none"

Closed == {"active", "rejected", "exhausted"}

NoChoice ==
    /\ pc = "human"
    /\ ~ NeedsResume
    /\ call.choice = "none" \/ row.gate.phase \in Closed
    /\ Reads("due")

Given == [choice |-> call.choice, source |-> source[row.revision]]

MayAnswer ==
    /\ row.gate # NoGate
    /\ answers[row.revision] # NoAnswer => answers[row.revision].choice = call.choice

\* read_human_decision_source: the source is read once and saved with the choice.
Answer ==
    /\ pc = "human"
    /\ Chooses
    /\ row.gate.phase \notin Closed
    /\ MayAnswer
    /\ IF answers[row.revision] = NoAnswer
       THEN answers' = [answers EXCEPT ![row.revision] = Given]
       ELSE UNCHANGED answers
    /\ Goto("decide")
    /\ UNCHANGED <<active, claimed, activations, attempts, consulted, gateAttempts, source,
                   row, crashes>>

\* Mutant: the source alone decides.
ApprovesSource(a) == a.source = "approved"

Approves(a) == a = [choice |-> "approve", source |-> "approved"]

\* A rejected choice is not overridden by an approved source.
Rejects(a) ==
    \/ a.source = "rejected"
    \/ a = [choice |-> "reject", source |-> "approved"]

Decide ==
    LET a == answers[row.revision] IN
    /\ pc = "decide"
    /\ \/ Approves(a) /\ Reads("attempt")
       \/ Rejects(a) /\ Saves([row EXCEPT !.gate.phase = "rejected"], "due")
       \/ a.source = "pending" /\ Saves([row EXCEPT !.gate.phase = "readback"], "due")

\* save_human_gate_attempt: an active attempt is left alone.
SavesAttempt(r, to) ==
    gateAttempts' = [gateAttempts EXCEPT ![r] = IF @ = "active" THEN @ ELSE to]

SaveGateAttempt ==
    /\ pc = "attempt"
    /\ SavesAttempt(row.revision, "planned")
    /\ Goto("intent")
    /\ UNCHANGED <<active, claimed, activations, attempts, consulted, answers, source, row,
                   crashes>>

SaveHumanIntent ==
    /\ pc = "intent"
    /\ Saves([row EXCEPT !.gate.phase = "planned",
                         !.human = [previous |-> row.revision,
                                    evidence |-> row.class.evidence,
                                    state |-> "due"]],
             "plan")

------------------------------------------------------------------------------
(* PlanControl.advance_human_decision, and what the kernel makes of it.    *)

HumanAction == Human(row.human.previous, row.human.evidence)

\* An approved readback is replayed against the source before Planning.
MayPlan ==
    /\ source[active] = "approved"
    /\ attempts[active].action \in {NoAction, HumanAction}

PlanHuman(kept) ==
    /\ pc = "plan"
    /\ MayPlan
    /\ attempts' = [attempts EXCEPT ![active] =
           IF @ = NoAttempt THEN [action |-> HumanAction, kept |-> kept] ELSE @]
    /\ Goto("publish")
    /\ UNCHANGED <<active, claimed, activations, consulted, answers, gateAttempts, source,
                   row, crashes>>

\* _validate_human_source_cas
MayPublish == source[active] = "approved"

PublishHuman ==
    /\ pc = "publish"
    /\ MayPublish
    /\ Reads("cross")

\* _publish_activate_readback: the claims are reserved and the revision published
\* before this write, both idempotently; the claims are exact only after the next.
Activates(a) ==
    /\ active' = active + 1
    /\ activations' = [activations EXCEPT ![active + 1] = a]

CrossHuman ==
    /\ pc = "cross"
    /\ Activates(HumanAction)
    /\ Goto("finalize")
    /\ UNCHANGED <<claimed, attempts, consulted, answers, gateAttempts, source, row, crashes>>

\* finalize_claims, for either kind of activation.
FinalizeClaims ==
    /\ pc = "finalize"
    /\ claimed' = active
    /\ Goto(IF activations[active].kind = "human" THEN "attest" ELSE "migrate")
    /\ UNCHANGED <<active, activations, attempts, consulted, answers, gateAttempts, source,
                   row, crashes>>

AttestHuman ==
    /\ pc = "attest"
    /\ SavesAttempt(row.human.previous, "active")
    /\ Goto("finish")
    /\ UNCHANGED <<active, claimed, activations, attempts, consulted, answers, source, row,
                   crashes>>

\* _finish_human_successor: three writes.
FinishHuman ==
    /\ pc = "finish"
    /\ Saves([row EXCEPT !.human.state = "activated", !.gate.phase = "active"], "adopt")

MayAdopt == HumanMatches /\ ~ BudgetSpent

AdoptHuman ==
    /\ pc = "adopt"
    /\ MayAdopt
    /\ Saves(HumanSuccessor, "close")

CloseGateAttempt ==
    /\ pc = "close"
    /\ SavesAttempt(row.human.previous, "active")
    /\ Goto("due")
    /\ UNCHANGED <<active, claimed, activations, attempts, consulted, answers, source, row,
                   crashes>>

------------------------------------------------------------------------------
(* An approved successor, and the scan.                                    *)

HasSuccessor == row.class.disposition = "successor"

\* Mutant: the activation comes before the intent.
ActivateFirst ==
    /\ pc = "due"
    /\ HasSuccessor
    /\ Reads("activate")

SaveIntent ==
    /\ pc = "due"
    /\ HasSuccessor
    /\ Saves([row EXCEPT !.transition =
                  [previous |-> row.revision, evidence |-> row.class.evidence]],
             "activate")

MayActivate == attempts[active].action = Replan(row.class.evidence)

Activate ==
    /\ pc = "activate"
    /\ MayActivate
    /\ Activates(Replan(row.class.evidence))
    /\ Goto("finalize")
    /\ UNCHANGED <<claimed, attempts, consulted, answers, gateAttempts, source, row, crashes>>

Migrate ==
    /\ pc = "migrate"
    /\ MayMigrate
    /\ Saves(Successor, "work")

NoSuccessor ==
    /\ pc = "due"
    /\ ~ HasSuccessor
    /\ Reads("work")

\* A Work Run is admitted and bound, or its Result is accepted.
Work(t) ==
    /\ pc = "work"
    /\ row.runs[t] \in {"pending", "active"}
    /\ Saves([row EXCEPT !.runs[t] = IF @ = "pending" THEN "active" ELSE "completed"],
             "work")

Return ==
    /\ pc = "work"
    /\ End
    /\ UNCHANGED <<plan, source, row, crashes>>

------------------------------------------------------------------------------
(* Refusals, crashes, the tracker, and the specification.                  *)

May ==
    CASE pc = "load" -> MayLoad
      [] pc \in {"reconcile", "fence"} -> MayReconcile
      [] pc = "report" -> MayReport
      [] pc = "classify" ->
             MayClassify /\ (NothingToClassify \/ BudgetSpent \/ row.class # NoClass
                              \/ MayConsult)
      [] pc = "apply" -> MayApply
      [] pc = "human" ->
             IF NeedsResume THEN MayResume
             ELSE Chooses /\ row.gate.phase \notin Closed => MayAnswer
      [] pc = "plan" -> MayPlan
      [] pc = "publish" -> MayPublish
      [] pc = "adopt" -> MayAdopt
      [] pc = "activate" -> MayActivate
      [] pc = "migrate" -> MayMigrate
      [] OTHER -> TRUE

\* ExecutionKernelError or PlanControlError.
Raise ==
    /\ pc # "idle"
    /\ ~ May
    /\ End
    /\ UNCHANGED <<plan, source, row, crashes>>

\* The process dies, or a port fails; both stores stay.
Crash ==
    /\ pc # "idle"
    /\ crashes < MaxCrash
    /\ crashes' = crashes + 1
    /\ End
    /\ UNCHANGED <<plan, source, row>>

\* An operator starts the Campaign again on its Tickets: PlanControl finishes the
\* activation on record.  Nothing obliges the operator to.
RollForward ==
    /\ claimed # active
    /\ claimed' = active
    /\ UNCHANGED <<active, activations, attempts, consulted, answers, gateAttempts, source,
                   row, pc, call, crashes>>

\* The tracker publishes the change a Decision asks for, rejects it, or
\* withdraws it.
Publish ==
    LET r == row.revision IN
    /\ row.gate # NoGate /\ row.gate.revision = r
    /\ \/ source[r] = "pending" /\ source' = [source EXCEPT ![r] = "approved"]
       \/ source[r] # "rejected" /\ source' = [source EXCEPT ![r] = "rejected"]
    /\ UNCHANGED <<plan, row, pc, call, crashes>>

Step ==
    \/ Load \/ LoadSuccessor \/ Reconcile
    \/ ReplayReport \/ ReportAgain \/ ReportNew
    \/ SkipClassify \/ ExhaustSuccessors \/ Reclassify \/ Settle \/ Apply
    \/ \E d \in Dispositions, kept \in SUBSET Ticket : Consult(d, kept)
    \/ Resume \/ NoChoice \/ Answer \/ Decide \/ SaveGateAttempt \/ SaveHumanIntent
    \/ \E kept \in SUBSET Ticket : PlanHuman(kept)
    \/ PublishHuman \/ CrossHuman \/ AttestHuman \/ FinishHuman \/ AdoptHuman
    \/ CloseGateAttempt
    \/ SaveIntent \/ Activate \/ FinalizeClaims \/ Migrate \/ NoSuccessor
    \/ \E t \in Ticket : Work(t)
    \/ Return \/ Raise

\* Reports name a revision the Campaign has reached.
Reports ==
    {NoReport} \cup [revision : 1 .. row.revision, ticket : Ticket, evidence : Evidence]

Next ==
    \/ \E r \in Reports, c \in {"none", "approve", "reject"} : Advance(r, c)
    \/ Step \/ Crash \/ RollForward \/ Publish

Spec == Init /\ [][Next]_vars

\* A call that runs goes on, and the Watchdog calls advance again and again.
Fairness == WF_vars(Step) /\ WF_vars(Advance(NoReport, "none"))

FairSpec == Spec /\ Fairness

------------------------------------------------------------------------------
(* Properties.                                                             *)

\* What the reports of one revision counted against its obligations.
Counted(a) == {<<x[1], a.subjects[x[1]], x[2]>> : x \in a.records}

\* The invalidation budget counts exactly the Evidence on record: no migration,
\* replay or crash between report and readback forgets or repeats a digest of an
\* obligation (_record_replan_budget_evidence, _reconcile_successor_revision).
BudgetBacked ==
    row.spent =
        Counted(Archive) \cup UNION {Counted(row.lineage[i]) : i \in 1 .. Len(row.lineage)}

\* A Campaign never has more successors than its Policy Witness allows, by an
\* ordinary or a human activation, and the counter in the row, the lineage and
\* the revision agree across every crash (used is checked before Evidence is
\* classified, and added to only by the migration).
SuccessorsWithinBudget ==
    /\ active =< SuccessorLimit + 1
    /\ row.used = row.revision - 1
    /\ Len(row.lineage) = row.used

\* PlanControl is at most one revision ahead of the row, and only after the row
\* holds the intent that explains the Activation Receipt: a restart can tell its
\* own successor from any other (advance saves the intent first).
IntentFirst ==
    active # row.revision =>
        /\ active = row.revision + 1
        /\ activations[active] \in
               {Replan(row.transition.evidence) : x \in {row.transition} \ {NoTransition}}
               \cup {Human(row.revision, row.human.evidence) :
                        x \in {row.human} \ {NoTransition}}

Approved(r) == answers[r] = [choice |-> "approve", source |-> "approved"]

\* A revision is activated on human authority only after a durable approve
\* choice over an approved source readback of that predecessor; any other answer
\* keeps the predecessor active; and the attempt that a restart asks for is
\* durable before the intent in the row.
HumanApproved ==
    /\ \A r \in Revision : activations[r].kind = "human" => Approved(r - 1)
    /\ \A r \in Revision : answers[r] # NoAnswer /\ ~ Approved(r) => active = r
    /\ row.human # NoTransition =>
           /\ Approved(row.human.previous)
           /\ gateAttempts[row.human.previous] # "none"

\* A row that an ordinary successor has left behind catches up, however often
\* advance died around the migration (_load_initialize_or_reconcile_successor),
\* once the Tickets are claimed for the successor.  A death between the activation
\* and finalize_claims is outside: every advance after it raises
\* ACTIVE_PLAN_CROSS_BINDING_INVALID until an operator starts the Campaign again.
CatchesUp ==
    active # row.revision /\ claimed = active /\ row.human = NoTransition
        ~> active = row.revision

\* So does a row whose human successor was activated, with its claims, before
\* advance could write that down: "Leave the predecessor row intact so advance()
\* can finish the transition from this intent" (execution_kernel.py:5242-5248).
CrossingFinishes ==
    Crossed /\ claimed = active ~> active = row.revision

=============================================================================
