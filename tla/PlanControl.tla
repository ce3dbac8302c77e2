----------------------------- MODULE PlanControl -----------------------------
(***************************************************************************)
(* PlanControl of gwo_v8/plan_control.py over the repository that          *)
(* plan_control_github.py keeps on one control ref.                        *)
(*                                                                         *)
(* A Campaign is a chain of Plan Revisions.  Revision n + 1 comes from the *)
(* one Planning attempt on revision n, which an operator's start or the    *)
(* classification of Plan Invalidations creates.  A call is a sequence of  *)
(* repository transactions: reserve the Tickets for Planning, plan, save   *)
(* the compiled attempt, turn the reservation into a pending activation,   *)
(* publish, activate by compare-and-swap, finalize the Ticket claims.      *)
(* Calls of several processes interleave between transactions, and a call  *)
(* may end after any of them.  Each transaction re-reads the ref and the   *)
(* Writer authority that the cutover keeps there.                          *)
(*                                                                         *)
(* One action is one transaction, with the reads of immutable records that *)
(* lead to it.  A revision is named by its number: each Campaign has one   *)
(* attempt per predecessor and one revision per attempt.  Human Decisions, *)
(* artifacts, budgets and the ledger of Planning dispatches are left out.  *)
(***************************************************************************)
EXTENDS FiniteSets, Integers

CONSTANTS
    Host,         \* calls in progress, each in a process of its own
    Campaign,
    Ticket,
    Ready,        \* the sets of Tickets operators start a Campaign with
    Oversize,     \* the sets whose snapshot exceeds the Planning input bound
    Evidence,     \* Evidence digests a Campaign's Work Runs may report
    Limit,        \* bound on the revisions of each Campaign
    MaxAbandon    \* bound on calls that die or lose their answer midway

ASSUME ReadyAssumption == Ready \in [Campaign -> SUBSET ((SUBSET Ticket) \ {{}})]
ASSUME OversizeAssumption == Oversize \subseteq SUBSET Ticket
ASSUME BoundAssumption == Limit \in [Campaign -> Nat \ {0}] /\ MaxAbandon \in Nat

VARIABLES
    authority,        \* status of the Writer authority on the control ref
    attempts,         \* by Campaign and predecessor
    splits,           \* predecessors whose snapshot was too large, by Campaign
    planning,         \* planning_reservations
    pending,          \* pending_reservations: Activation Receipts
    claims,           \* the Campaign and revision that hold a Ticket
    revisions,        \* published revisions, by Campaign
    activations,      \* the current Activation Receipt, by Campaign
    classifications,  \* invalidation_classifications
    outputs,          \* completed Planning outputs, kept by RuntimeGateway
    evidence,         \* the kernel's pending Evidence, by Campaign and revision
    settled,          \* the Evidence of the classification the kernel saved
    pc, call,         \* where a call stands, and its locals
    renewed,          \* Campaigns with a committed activation made pending again
    abandoned         \* spent bound

tables == <<attempts, splits, planning, pending, claims, revisions, activations,
            classifications>>
kernel == <<evidence, settled>>
vars == <<authority, tables, outputs, kernel, pc, call, renewed, abandoned>>

Revision == UNION {1 .. Limit[c] : c \in Campaign}
Predecessor == UNION {0 .. Limit[c] - 1 : c \in Campaign}
Planned == Predecessor \ {0}

NoAttempt == [protocol |-> "none"]
AttemptValue ==
    [protocol : {"plan"}, tickets : SUBSET Ticket, evidence : {{}},
     compiled : {"none", "plan", "decision"}, revision : BOOLEAN]
    \cup
    [protocol : {"replan"}, tickets : SUBSET Ticket, evidence : SUBSET Evidence,
     compiled : {"plan"}, revision : BOOLEAN]

\* A stable action id: the attempt's own, or replan: over the Evidence set.
ActionValue == [campaign : Campaign, previous : Predecessor, evidence : SUBSET Evidence]

\* PlanningReservation, by its key and its Tickets.
ReservationValue == [action : ActionValue, tickets : SUBSET Ticket]

NoReceipt == [revision |-> 0]
ReceiptValue ==
    [campaign : Campaign, revision : Revision, tickets : SUBSET Ticket,
     action : ActionValue]

NoClaim == [revision |-> 0]
ClaimValue == [campaign : Campaign, revision : Revision]

Outcome == {"plan", "decision", "successor", "other"}

NoCall == [campaign |-> "none"]
CallValue ==
    [campaign : Campaign, tickets : SUBSET Ticket, explicit : BOOLEAN,
     previous : Predecessor \cup Revision, active : ReceiptValue \cup {NoReceipt},
     evidence : SUBSET Evidence, retained : BOOLEAN]

Starting == {"roll", "attempt", "intent", "progress", "compile", "release", "revision"}
Classifying == {"classify", "recover", "consult", "commit", "record", "relinquish",
                "settle"}
Activating == {"successor", "publish", "reserve", "first", "activate", "finalize"}

TypeOK ==
    /\ authority \in {"cut_over", "draining"}
    /\ attempts \in [Campaign -> [Predecessor -> AttemptValue \cup {NoAttempt}]]
    /\ splits \in [Campaign -> SUBSET Predecessor]
    /\ planning \subseteq ReservationValue
    /\ pending \subseteq ReceiptValue
    /\ claims \in [Ticket -> ClaimValue \cup {NoClaim}]
    /\ revisions \in [Campaign -> SUBSET Revision]
    /\ activations \in [Campaign -> ReceiptValue \cup {NoReceipt}]
    /\ classifications \subseteq ActionValue \X Outcome
    /\ outputs \subseteq ActionValue \X Outcome
    /\ evidence \in [Campaign -> [Planned -> SUBSET Evidence]]
    /\ settled \in [Campaign -> [Planned -> SUBSET Evidence]]
    /\ pc \in [Host -> {"idle"} \cup Starting \cup Classifying \cup Activating]
    /\ call \in [Host -> CallValue \cup {NoCall}]
    /\ \A h \in Host : pc[h] # "idle" => call[h] \in CallValue
    /\ renewed \subseteq Campaign
    /\ abandoned \in 0 .. MaxAbandon

Init ==
    /\ authority = "cut_over"
    /\ attempts = [c \in Campaign |-> [n \in Predecessor |-> NoAttempt]]
    /\ splits = [c \in Campaign |-> {}]
    /\ planning = {}
    /\ pending = {}
    /\ claims = [t \in Ticket |-> NoClaim]
    /\ revisions = [c \in Campaign |-> {}]
    /\ activations = [c \in Campaign |-> NoReceipt]
    /\ classifications = {}
    /\ outputs = {}
    /\ evidence = [c \in Campaign |-> [n \in Planned |-> {}]]
    /\ settled = [c \in Campaign |-> [n \in Planned |-> {}]]
    /\ pc = [h \in Host |-> "idle"]
    /\ call = [h \in Host |-> NoCall]
    /\ renewed = {}
    /\ abandoned = 0

------------------------------------------------------------------------------
(* Helpers.                                                                *)

Action(c, n, es) == [campaign |-> c, previous |-> n, evidence |-> es]

\* _planning_reservation_from_compilation, _replanning_reservation.
Reservation(c, n, a) ==
    [action |-> Action(c, n, a.evidence), tickets |-> a.tickets]

\* The receipt that activates the revision of attempt a of c on n.
Receipt(c, n, a) ==
    [campaign |-> c, revision |-> n + 1, tickets |-> a.tickets,
     action |-> Action(c, n, a.evidence)]

HasReservation(a) == \E r \in planning : r.action = a

\* read_campaign_claim_proofs
ClaimedBy(c) == {t \in Ticket : claims[t].revision # 0 /\ claims[t].campaign = c}

ExactClaims(r) ==
    /\ ClaimedBy(r.campaign) = r.tickets
    /\ \A t \in r.tickets : claims[t].revision = r.revision

\* What a Campaign keeps from the others.
HeldBy(c) ==
    ClaimedBy(c)
    \cup (UNION {r.tickets : r \in {p \in pending : p.campaign = c}})
    \cup (UNION {r.tickets : r \in {p \in planning : p.action.campaign = c}})

\* Mutant: the overlap is looked for in the claim ledger alone.
FreeOfClaims(c, S) == \A d \in Campaign \ {c} : S \cap ClaimedBy(d) = {}

\* TICKET_CLAIM_CONFLICT
Free(c, S) == \A d \in Campaign \ {c} : S \cap HeldBy(d) = {}

\* _assert_writer_operation: new work needs a cut-over writer, recovery does not.
MayBegin == authority = "cut_over"

\* _validate_active_receipt_once with require_claims = False.
Recoverable(r) == ExactClaims(r) \/ r \in pending

On(h) == call[h].campaign
Previous(h) == call[h].previous
AttemptOf(h) == attempts[On(h)][Previous(h)]
ActionOf(h) == Action(On(h), Previous(h), AttemptOf(h).evidence)
ReceiptOf(h) == Receipt(On(h), Previous(h), AttemptOf(h))

Goto(h, to) == pc' = [pc EXCEPT ![h] = to] /\ UNCHANGED call

\* The call returns or raises.
End(h) ==
    /\ pc' = [pc EXCEPT ![h] = "idle"]
    /\ call' = [call EXCEPT ![h] = NoCall]

------------------------------------------------------------------------------
(* start and start_successor.                                              *)

CallOn(c, S, ex, n, es) ==
    [campaign |-> c, tickets |-> S, explicit |-> ex, previous |-> n,
     active |-> activations[c], evidence |-> es, retained |-> FALSE]

\* A successor request names the active revision, or the one its replay came from.
NamesLineage(c, n) ==
    \/ activations[c].revision = n
    \/ attempts[c][n] # NoAttempt /\ attempts[c][n].revision
       /\ activations[c] = Receipt(c, n, attempts[c][n])

Begin(h, local, to) ==
    /\ pc[h] = "idle"
    /\ pc' = [pc EXCEPT ![h] = to]
    /\ call' = [call EXCEPT ![h] = local]
    /\ UNCHANGED <<authority, tables, outputs, kernel, renewed, abandoned>>

\* Without a named predecessor the active revision is replayed, or succeeded
\* when the selected Tickets differ.
Start(h, c, S) ==
    LET active == activations[c] IN
    /\ active.revision = Limit[c] => active.tickets = S
    /\ Begin(h, CallOn(c, S, FALSE, active.revision, {}),
             IF active = NoReceipt THEN "attempt" ELSE "roll")

StartSuccessor(h, c, S, n) ==
    /\ activations[c] # NoReceipt
    /\ n < Limit[c]
    /\ NamesLineage(c, n)
    /\ Begin(h, CallOn(c, S, TRUE, n, {}),
             IF attempts[c][n].protocol = "replan" THEN "successor" ELSE "roll")

\* Mutant: finalizing is taken for a first activation.
FinalizeIsNew(r) ==
    /\ activations[r.campaign] = r
    /\ Recoverable(r)
    /\ MayBegin

\* finalize_claims on receipt r: only the winning receipt replaces the claims.
MayFinalize(r) ==
    /\ activations[r.campaign] = r
    /\ Recoverable(r)

Finalized(r) ==
    IF r \notin pending
    THEN UNCHANGED <<claims, pending>>
    ELSE /\ claims' = [t \in Ticket |->
                IF t \in r.tickets
                THEN [campaign |-> r.campaign, revision |-> r.revision]
                ELSE IF t \in ClaimedBy(r.campaign) THEN NoClaim ELSE claims[t]]
         /\ pending' = {p \in pending : p.campaign # r.campaign}

\* Every claim to be replaced is free or of the predecessor.
Guarded(r) ==
    \A t \in r.tickets :
        claims[t] # NoClaim =>
            /\ claims[t].campaign = r.campaign
            /\ claims[t].revision \in {r.action.previous, r.revision}

MayRollForward(h) ==
    LET r == call[h].active IN
    /\ MayFinalize(r)
    /\ r \in pending => Guarded(r)

RollForward(h) ==
    LET r == call[h].active IN
    /\ pc[h] = "roll"
    /\ MayRollForward(h)
    /\ Finalized(r)
    /\ IF ~ call[h].explicit /\ r.tickets = call[h].tickets
       THEN End(h)
       ELSE Goto(h, "attempt")
    /\ UNCHANGED <<authority, attempts, splits, planning, revisions, activations,
                   classifications, outputs, kernel, renewed, abandoned>>

AfterAttempt(a) ==
    CASE a.compiled = "none" -> "intent"
      [] a.compiled = "decision" -> "release"
      [] a.compiled = "plan" /\ ~ a.revision -> "revision"
      [] OTHER -> "publish"

\* The split Decision of this predecessor is raised again, and so is the
\* conflict with an attempt on other Tickets.
MayAttempt(h) ==
    /\ Previous(h) \notin splits[On(h)]
    /\ IF AttemptOf(h) = NoAttempt THEN MayBegin ELSE AttemptOf(h).tickets = call[h].tickets

NewAttempt(h) ==
    [protocol |-> "plan", tickets |-> call[h].tickets, evidence |-> {},
     compiled |-> "none", revision |-> FALSE]

ReadOrSaveAttempt(h) ==
    /\ pc[h] = "attempt"
    /\ MayAttempt(h)
    /\ AttemptOf(h) = NoAttempt => call[h].tickets \notin Oversize
    /\ IF AttemptOf(h) = NoAttempt
       THEN /\ attempts' = [attempts EXCEPT ![On(h)][Previous(h)] = NewAttempt(h)]
            /\ Goto(h, "intent")
       ELSE /\ Goto(h, AfterAttempt(AttemptOf(h)))
            /\ UNCHANGED attempts
    /\ UNCHANGED <<authority, splits, planning, pending, claims, revisions, activations,
                   classifications, outputs, kernel, renewed, abandoned>>

\* save_split_decision: the snapshot exceeds the Planning input bound.
Split(h) ==
    /\ pc[h] = "attempt"
    /\ MayAttempt(h)
    /\ AttemptOf(h) = NoAttempt
    /\ call[h].tickets \in Oversize
    /\ splits' = [splits EXCEPT ![On(h)] = @ \cup {Previous(h)}]
    /\ End(h)
    /\ UNCHANGED <<authority, attempts, planning, pending, claims, revisions, activations,
                   classifications, outputs, kernel, renewed, abandoned>>

\* reserve_planning, unless the exact reservation of this action is already there.
MayReservePlanning(h) ==
    \/ Reservation(On(h), Previous(h), AttemptOf(h)) \in planning
    \/ ~ HasReservation(ActionOf(h)) /\ MayBegin /\ Free(On(h), AttemptOf(h).tickets)

ReservePlanning(h) ==
    /\ pc[h] = "intent"
    /\ MayReservePlanning(h)
    /\ planning' = planning \cup {Reservation(On(h), Previous(h), AttemptOf(h))}
    /\ Goto(h, "progress")
    /\ UNCHANGED <<authority, attempts, splits, pending, claims, revisions, activations,
                   classifications, outputs, kernel, renewed, abandoned>>

HasOutput(a) == \E x \in outputs : x[1] = a

\* RuntimeGateway.progress: the output of an action is produced once.
Completes(a, o) ==
    /\ \A x \in outputs : x[1] = a => x[2] = o
    /\ outputs' = outputs \cup {<<a, o>>}

Plan(h, o) ==
    /\ pc[h] = "progress"
    /\ o \in {"plan", "decision"}
    /\ Completes(ActionOf(h), o)
    /\ Goto(h, "compile")
    /\ UNCHANGED <<authority, tables, kernel, renewed, abandoned>>

\* The semantic turn is still running.
PlanPending(h) ==
    /\ \/ pc[h] = "progress" /\ ~ HasOutput(ActionOf(h))
       \/ pc[h] = "consult" /\ ~ HasOutput(Action(On(h), Previous(h), call[h].evidence))
    /\ End(h)
    /\ UNCHANGED <<authority, tables, outputs, kernel, renewed, abandoned>>

OutputOf(a) == (CHOOSE x \in outputs : x[1] = a)[2]

\* save_attempt keeps what an attempt is already bound to.
MayCompile(h) ==
    /\ ~ AttemptOf(h).revision
    /\ AttemptOf(h).compiled \in {"none", OutputOf(ActionOf(h))}

SaveCompiled(h) ==
    /\ pc[h] = "compile"
    /\ MayCompile(h)
    /\ attempts' = [attempts EXCEPT ![On(h)][Previous(h)].compiled = OutputOf(ActionOf(h))]
    /\ Goto(h, IF OutputOf(ActionOf(h)) = "decision" THEN "release" ELSE "revision")
    /\ UNCHANGED <<authority, splits, planning, pending, claims, revisions, activations,
                   classifications, outputs, kernel, renewed, abandoned>>

\* release_planning: only a reservation that is there may go without a cut-over writer.
MayRelease(a) == HasReservation(a) \/ MayBegin

\* PlanControlDecision: the Tickets are free again.
ReleaseDecision(h) ==
    /\ pc[h] = "release"
    /\ MayRelease(ActionOf(h))
    /\ planning' = {r \in planning : r.action # ActionOf(h)}
    /\ End(h)
    /\ UNCHANGED <<authority, attempts, splits, pending, claims, revisions, activations,
                   classifications, outputs, kernel, renewed, abandoned>>

SaveRevision(h) ==
    /\ pc[h] = "revision"
    /\ attempts' = [attempts EXCEPT ![On(h)][Previous(h)].revision = TRUE]
    /\ Goto(h, "publish")
    /\ UNCHANGED <<authority, splits, planning, pending, claims, revisions, activations,
                   classifications, outputs, kernel, renewed, abandoned>>

------------------------------------------------------------------------------
(* activate_successor and _publish_activate_readback.                      *)

IsSuccessor(h) ==
    /\ AttemptOf(h).protocol = "replan"
    /\ <<ActionOf(h), "successor">> \in classifications

\* The predecessor is active and recoverable, or this very successor is.
MaySucceed(h) ==
    LET current == activations[On(h)] IN
    /\ IsSuccessor(h)
    /\ Recoverable(current)
    /\ current.revision # Previous(h) => AttemptOf(h).revision /\ current = ReceiptOf(h)

Succeed(h) ==
    /\ pc[h] = "successor"
    /\ MaySucceed(h)
    /\ Goto(h, IF activations[On(h)].revision # Previous(h) THEN "finalize"
               ELSE IF AttemptOf(h).revision THEN "publish" ELSE "revision")
    /\ UNCHANGED <<authority, tables, outputs, kernel, renewed, abandoned>>

\* PLANNING_RESERVATION_MISSING unless the activation is pending.
MayPublish(h) ==
    LET current == activations[On(h)] IN
    \/ current = ReceiptOf(h)
    \/ /\ current # NoReceipt /\ current.revision = Previous(h) => Recoverable(current)
       /\ ReceiptOf(h) \in pending \/ HasReservation(ActionOf(h))

Publish(h) ==
    /\ pc[h] = "publish"
    /\ MayPublish(h)
    /\ Goto(h, IF activations[On(h)] = ReceiptOf(h) THEN "finalize" ELSE "reserve")
    /\ UNCHANGED <<authority, tables, outputs, kernel, renewed, abandoned>>

\* reserve_claims: the Planning reservation becomes the pending activation.
MayReserve(h) ==
    \/ ReceiptOf(h) \in pending
    \/ /\ MayBegin \/ activations[On(h)] = ReceiptOf(h)
       /\ Reservation(On(h), Previous(h), AttemptOf(h)) \in planning
       /\ Free(On(h), AttemptOf(h).tickets)

ReserveClaims(h) ==
    /\ pc[h] = "reserve"
    /\ MayReserve(h)
    /\ IF ReceiptOf(h) \in pending
       THEN UNCHANGED <<pending, planning, renewed>>
       ELSE /\ pending' = pending \cup {ReceiptOf(h)}
            /\ planning' = planning \ {Reservation(On(h), Previous(h), AttemptOf(h))}
            /\ renewed' = renewed \cup {c \in {On(h)} : Previous(h) < activations[c].revision}
    /\ Goto(h, "first")
    /\ UNCHANGED <<authority, attempts, splits, claims, revisions, activations,
                   classifications, outputs, kernel, abandoned>>

MayPublishRevision(h) == MayBegin \/ Previous(h) + 1 \in revisions[On(h)]

PublishRevision(h) ==
    /\ pc[h] = "first"
    /\ MayPublishRevision(h)
    /\ revisions' = [revisions EXCEPT ![On(h)] = @ \cup {Previous(h) + 1}]
    /\ Goto(h, "activate")
    /\ UNCHANGED <<authority, attempts, splits, planning, pending, claims, activations,
                   classifications, outputs, kernel, renewed, abandoned>>

\* Mutant: a call that passed the publication may activate.
ActivateAnyway(h) == Previous(h) + 1 \in revisions[On(h)]

MayActivate(h) == MayBegin \/ activations[On(h)] = ReceiptOf(h)

\* Mutant: the pointer is written without comparing it.
SwapBlind(h) == ReceiptOf(h) # activations[On(h)]

Swap(h) == activations[On(h)].revision = Previous(h)

\* Mutant: the activation consumes its pending reservation.
ActivateConsumes(h) ==
    /\ pc[h] = "activate"
    /\ MayActivate(h)
    /\ Swap(h) \/ activations[On(h)] = ReceiptOf(h)
    /\ activations' = [activations EXCEPT ![On(h)] = ReceiptOf(h)]
    /\ pending' = pending \ {ReceiptOf(h)}
    /\ Goto(h, "finalize")
    /\ UNCHANGED <<authority, attempts, splits, planning, claims, revisions,
                   classifications, outputs, kernel, renewed, abandoned>>

Activate(h) ==
    /\ pc[h] = "activate"
    /\ MayActivate(h)
    /\ Swap(h) \/ activations[On(h)] = ReceiptOf(h)
    /\ activations' = [activations EXCEPT ![On(h)] = ReceiptOf(h)]
    /\ Goto(h, "finalize")
    /\ UNCHANGED <<authority, attempts, splits, planning, pending, claims, revisions,
                   classifications, outputs, kernel, renewed, abandoned>>

\* ACTIVATION_CAS_CONFLICT: the loser's pending reservation goes with it.
LoseActivation(h) ==
    /\ pc[h] = "activate"
    /\ MayActivate(h)
    /\ ~ Swap(h)
    /\ activations[On(h)] # ReceiptOf(h)
    /\ pending' = pending \ {ReceiptOf(h)}
    /\ End(h)
    /\ UNCHANGED <<authority, attempts, splits, planning, claims, revisions, activations,
                   classifications, outputs, kernel, renewed, abandoned>>

MayFinalizeClaims(h) ==
    /\ MayFinalize(ReceiptOf(h))
    /\ ReceiptOf(h) \in pending => Guarded(ReceiptOf(h))

FinalizeClaims(h) ==
    /\ pc[h] = "finalize"
    /\ MayFinalizeClaims(h)
    /\ Finalized(ReceiptOf(h))
    /\ End(h)
    /\ UNCHANGED <<authority, attempts, splits, planning, revisions, activations,
                   classifications, outputs, kernel, renewed, abandoned>>

------------------------------------------------------------------------------
(* ExecutionKernel.advance as far as it calls PlanControl, and             *)
(* classify_plan_invalidations.                                            *)

EvidenceAction(h) == Action(On(h), Previous(h), call[h].evidence)

EvidenceReservation(h) == [action |-> EvidenceAction(h), tickets |-> call[h].tickets]

\* read_active: the claims must already be exact.
Readable(c) == activations[c] # NoReceipt /\ ExactClaims(activations[c])

\* A Work Run of the active revision reports: the kernel keeps the Evidence
\* until a classification is saved, and refuses any after that.
Report(c, e) ==
    LET n == activations[c].revision IN
    /\ Readable(c)
    /\ n \in Planned /\ n < Limit[c]
    /\ settled[c][n] = {}
    /\ evidence' = [evidence EXCEPT ![c][n] = @ \cup {e}]
    /\ UNCHANGED <<authority, tables, outputs, settled, pc, call, renewed, abandoned>>

Advance(h, c) ==
    LET n == activations[c].revision
        a == Action(c, n, settled[c][n]) IN
    /\ Readable(c)
    /\ n \in Planned
    /\ evidence[c][n] # {}
    /\ \/ /\ settled[c][n] = {}
          /\ Begin(h, CallOn(c, activations[c].tickets, FALSE, n, evidence[c][n]), "classify")
       \/ /\ settled[c][n] # {}
          /\ <<a, "successor">> \in classifications
          /\ Begin(h, CallOn(c, activations[c].tickets, FALSE, n, settled[c][n]), "successor")

Classified(h) == \E x \in classifications : x[1] = EvidenceAction(h)

\* A successor's classification needs its attempt and its reservation.
MayReplay(h) ==
    <<EvidenceAction(h), "successor">> \in classifications =>
        AttemptOf(h).protocol = "replan" /\ HasReservation(EvidenceAction(h))

ReplayClassification(h) ==
    /\ pc[h] = "classify"
    /\ Classified(h)
    /\ MayReplay(h)
    /\ Goto(h, "settle")
    /\ UNCHANGED <<authority, tables, outputs, kernel, renewed, abandoned>>

MayConsult(h) ==
    \/ EvidenceReservation(h) \in planning
    \/ ~ HasReservation(EvidenceAction(h)) /\ MayBegin /\ Free(On(h), call[h].tickets)

ReserveReplanning(h) ==
    /\ pc[h] = "classify"
    /\ ~ Classified(h)
    /\ MayConsult(h)
    /\ planning' = planning \cup {EvidenceReservation(h)}
    /\ pc' = [pc EXCEPT ![h] = "recover"]
    /\ call' = [call EXCEPT ![h].retained = EvidenceReservation(h) \in planning]
    /\ UNCHANGED <<authority, attempts, splits, pending, claims, revisions, activations,
                   classifications, outputs, kernel, renewed, abandoned>>

\* The attempt of this very action is committed: its classification is saved again.
IsCommitted(h) == AttemptOf(h).protocol = "replan"

MayRecover(h) ==
    /\ call[h].retained
    /\ AttemptOf(h).evidence = call[h].evidence
    /\ EvidenceReservation(h) \in planning
    /\ MayBegin \/ <<EvidenceAction(h), "successor">> \in classifications

RecoverClassification(h) ==
    /\ pc[h] = "recover"
    /\ IsCommitted(h)
    /\ MayRecover(h)
    /\ classifications' = classifications \cup {<<EvidenceAction(h), "successor">>}
    /\ Goto(h, "settle")
    /\ UNCHANGED <<authority, attempts, splits, planning, pending, claims, revisions,
                   activations, outputs, kernel, renewed, abandoned>>

NotCommitted(h) ==
    /\ pc[h] = "recover"
    /\ ~ IsCommitted(h)
    /\ Goto(h, "consult")
    /\ UNCHANGED <<authority, tables, outputs, kernel, renewed, abandoned>>

Consult(h, o) ==
    /\ pc[h] = "consult"
    /\ o \in {"successor", "other"}
    /\ Completes(EvidenceAction(h), o)
    /\ Goto(h, IF o = "successor" THEN "commit" ELSE "record")
    /\ UNCHANGED <<authority, tables, kernel, renewed, abandoned>>

Successor(h) ==
    [protocol |-> "replan", tickets |-> call[h].tickets, evidence |-> call[h].evidence,
     compiled |-> "plan", revision |-> FALSE]

\* save_attempt: nothing is there, or the same attempt without a revision.
MayCommit(h) ==
    \/ AttemptOf(h) = NoAttempt /\ MayBegin
    \/ AttemptOf(h) = Successor(h)

CommitSuccessor(h) ==
    /\ pc[h] = "commit"
    /\ MayCommit(h)
    /\ attempts' = [attempts EXCEPT ![On(h)][Previous(h)] = Successor(h)]
    /\ IF EvidenceReservation(h) \in planning THEN Goto(h, "record") ELSE End(h)
    /\ UNCHANGED <<authority, splits, planning, pending, claims, revisions, activations,
                   classifications, outputs, kernel, renewed, abandoned>>

MayRecord(h) == MayBegin \/ Classified(h)

\* Mutant: every disposition gives the Planning reservation back.
RecordThenRelinquish(h) ==
    /\ pc[h] = "record"
    /\ MayRecord(h)
    /\ classifications' = classifications \cup {<<EvidenceAction(h), OutputOf(EvidenceAction(h))>>}
    /\ Goto(h, "relinquish")
    /\ UNCHANGED <<authority, attempts, splits, planning, pending, claims, revisions,
                   activations, outputs, kernel, renewed, abandoned>>

RecordClassification(h) ==
    LET o == OutputOf(EvidenceAction(h)) IN
    /\ pc[h] = "record"
    /\ MayRecord(h)
    /\ classifications' = classifications \cup {<<EvidenceAction(h), o>>}
    /\ Goto(h, IF o = "successor" THEN "settle" ELSE "relinquish")
    /\ UNCHANGED <<authority, attempts, splits, planning, pending, claims, revisions,
                   activations, outputs, kernel, renewed, abandoned>>

Relinquish(h) ==
    /\ pc[h] = "relinquish"
    /\ MayRelease(EvidenceAction(h))
    /\ planning' = {r \in planning : r.action # EvidenceAction(h)}
    /\ Goto(h, "settle")
    /\ UNCHANGED <<authority, attempts, splits, pending, claims, revisions, activations,
                   classifications, outputs, kernel, renewed, abandoned>>

\* The kernel's own store has moved on, or takes the classification.
MaySettle(h) ==
    /\ settled[On(h)][Previous(h)] = {}
    /\ evidence[On(h)][Previous(h)] = call[h].evidence

Settle(h) ==
    /\ pc[h] = "settle"
    /\ MaySettle(h)
    /\ settled' = [settled EXCEPT ![On(h)][Previous(h)] = call[h].evidence]
    /\ End(h)
    /\ UNCHANGED <<authority, tables, outputs, evidence, renewed, abandoned>>

------------------------------------------------------------------------------
(* Calls that fail, the cutover, and the specification.                    *)

May(h) ==
    CASE pc[h] = "roll" -> MayRollForward(h)
      [] pc[h] = "attempt" -> MayAttempt(h)
      [] pc[h] = "intent" -> MayReservePlanning(h)
      [] pc[h] = "compile" -> MayCompile(h)
      [] pc[h] = "release" -> MayRelease(ActionOf(h))
      [] pc[h] = "successor" -> MaySucceed(h)
      [] pc[h] = "publish" -> MayPublish(h)
      [] pc[h] = "reserve" -> MayReserve(h)
      [] pc[h] = "first" -> MayPublishRevision(h)
      [] pc[h] = "activate" -> MayActivate(h)
      [] pc[h] = "finalize" -> MayFinalizeClaims(h)
      [] pc[h] = "classify" -> IF Classified(h) THEN MayReplay(h) ELSE MayConsult(h)
      [] pc[h] = "recover" -> IsCommitted(h) => MayRecover(h)
      [] pc[h] = "commit" -> MayCommit(h)
      [] pc[h] = "record" -> MayRecord(h)
      [] pc[h] = "relinquish" -> MayRelease(EvidenceAction(h))
      [] pc[h] = "settle" -> MaySettle(h)
      [] OTHER -> TRUE

\* PlanControlError: the transaction changes nothing and the call raises.
Refuse(h) ==
    /\ pc[h] # "idle"
    /\ ~ May(h)
    /\ End(h)
    /\ UNCHANGED <<authority, tables, outputs, kernel, renewed, abandoned>>

\* The process dies, or a port fails, or the answer of a committed
\* transaction is lost: what is committed stays.
Abandon(h) ==
    /\ pc[h] # "idle"
    /\ abandoned < MaxAbandon
    /\ abandoned' = abandoned + 1
    /\ End(h)
    /\ UNCHANGED <<authority, tables, outputs, kernel, renewed>>

\* The cutover to a successor writer starts.
Drain ==
    /\ authority = "cut_over"
    /\ authority' = "draining"
    /\ UNCHANGED <<tables, outputs, kernel, pc, call, renewed, abandoned>>

Step(h) ==
    \/ RollForward(h) \/ ReadOrSaveAttempt(h) \/ Split(h) \/ ReservePlanning(h)
    \/ \E o \in Outcome : Plan(h, o) \/ Consult(h, o)
    \/ PlanPending(h) \/ SaveCompiled(h) \/ ReleaseDecision(h) \/ SaveRevision(h)
    \/ Succeed(h) \/ Publish(h) \/ ReserveClaims(h) \/ PublishRevision(h)
    \/ Activate(h) \/ LoseActivation(h) \/ FinalizeClaims(h)
    \/ ReplayClassification(h) \/ ReserveReplanning(h) \/ RecoverClassification(h)
    \/ NotCommitted(h) \/ CommitSuccessor(h) \/ RecordClassification(h)
    \/ Relinquish(h) \/ Settle(h) \/ Refuse(h)

Next ==
    \/ \E h \in Host :
           \/ Step(h) \/ Abandon(h)
           \/ \E c \in Campaign :
                  \/ Advance(h, c)
                  \/ \E S \in Ready[c] :
                         \/ Start(h, c, S)
                         \/ \E n \in Planned : StartSuccessor(h, c, S, n)
    \/ \E c \in Campaign, e \in Evidence : Report(c, e)
    \/ Drain

Spec == Init /\ [][Next]_vars

\* A call that runs goes on, and an operator starts a Campaign again with the
\* Tickets of its active revision.  No wake does that: continue_start goes back to
\* start only while the Campaign has no activation.
Replay(h, c) == activations[c] # NoReceipt /\ Start(h, c, activations[c].tickets)

Fairness ==
    /\ \A h \in Host : WF_vars(Step(h))
    /\ \A c \in Campaign : SF_vars(\E h \in Host : Replay(h, c))

FairSpec == Spec /\ Fairness

------------------------------------------------------------------------------
(* Properties.                                                             *)

\* Two Campaigns never hold the same Ticket, whether by a claim, by a pending
\* activation or by a Planning reservation (reserve_planning, reserve_claims
\* and finalize_claims over calls that interleave).
TicketExclusive ==
    \A c, d \in Campaign : c # d => HeldBy(c) \cap HeldBy(d) = {}

\* However calls race and die, an activation that was committed can be rolled
\* forward: its claims are exact or its pending reservation is still there
\* (ADR-0035: after the receipt, recovery only rolls forward).  The code breaks
\* this in one way, which is exempted: a call that read an attempt before it was
\* compiled makes the consumed Planning reservation again, and reserve_claims
\* turns it into a pending activation of a revision that is already active.
ActiveRecoverable ==
    \A c \in Campaign \ renewed :
        activations[c] # NoReceipt => Recoverable(activations[c])

\* A compiled plan that is not activated keeps its Tickets, reserved for
\* Planning or pending activation: neither a crash nor a call that lost a race
\* costs a Campaign the Tickets of the Planning Pass it paid for, with the
\* exemption of ActiveRecoverable.
CompiledHoldsTickets ==
    \A c \in Campaign \ renewed, n \in Predecessor :
        LET a == attempts[c][n] IN
        a # NoAttempt /\ a.compiled = "plan" /\ activations[c].revision =< n =>
            Receipt(c, n, a) \in pending \/ HasReservation(Action(c, n, a.evidence))

\* The revisions of a Campaign form one chain: the active pointer moves only to
\* the published revision of the attempt on the revision it named before.
Lineage ==
    [][\A c \in Campaign :
          activations'[c] # activations[c] =>
              \E n \in Predecessor :
                  /\ activations[c].revision = n
                  /\ activations'[c] = Receipt(c, n, attempts[c][n])
                  /\ n + 1 \in revisions[c]]_activations

\* A draining writer begins nothing: no attempt, reservation, publication or
\* activation appears, not even from a call that began before the cutover.  Only
\* the active receipt itself may be reserved again, by a call that lost a race.
DrainBeginsNothing ==
    [][authority = "draining" =>
          /\ \A c \in Campaign :
                 /\ \A n \in Predecessor :
                        attempts[c][n] = NoAttempt => attempts'[c][n] = NoAttempt
                 /\ revisions'[c] = revisions[c]
                 /\ activations'[c] = activations[c]
          /\ planning' \subseteq planning
          /\ \A r \in pending' \ pending : activations[r.campaign] = r]_tables

\* Recovery rolls forward: the claims of a committed activation become exact once
\* an operator starts the Campaign again, under a draining writer too, with the
\* exemption of ActiveRecoverable.
RollsForward ==
    \A c \in Campaign :
        activations[c] # NoReceipt ~> Readable(c) \/ c \in renewed

==============================================================================
