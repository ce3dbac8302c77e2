----------------------- MODULE SuccessorRevision_proof -----------------------
(***************************************************************************)
(* Proofs about SuccessorRevision, for any Tickets, Evidence, limits and   *)
(* crashes.  The inductive invariant says how far PlanControl may be ahead *)
(* of the row, what the row must hold for it to have gone ahead, and what  *)
(* each position of advance has established.                               *)
(***************************************************************************)
EXTENDS SuccessorRevision, SequenceTheorems, TLAPS

\* The row holds the intent that the Activation Receipt names.
Intent ==
    \/ /\ row.transition # NoTransition
       /\ row.transition.previous = row.revision
       /\ activations[active] = Replan(row.transition.evidence)
    \/ /\ row.human # NoTransition
       /\ row.human.previous = row.revision
       /\ activations[active] = Human(row.revision, row.human.evidence)

\* The revision, the counter and the lineage agree, and PlanControl is at most
\* one activation ahead, which a classification has paid for.
Position ==
    /\ row.used = row.revision - 1
    /\ row.used =< SuccessorLimit
    /\ Len(row.lineage) = row.used
    /\ active = row.revision \/ active = row.revision + 1
    /\ active # row.revision => Intent /\ row.class # NoClass

\* A classification is within the budget, and rests on records.
Classification ==
    /\ row.class # NoClass => row.used < SuccessorLimit /\ row.records # {}
    /\ row.gate.phase \in {"choice", "readback", "planned"} => row.class.disposition = "human"

\* What a human transition rests on.
Gate ==
    row.human # NoTransition =>
        /\ row.human.previous =< row.revision
        /\ Approved(row.human.previous)
        /\ gateAttempts[row.human.previous] # "none"
        /\ row.human.state = "due" => row.human.previous = row.revision
        /\ row.human.previous = row.revision =>
               /\ row.class.disposition = "human"
               /\ row.human.state = "activated" => active # row.revision

\* An answer is to the Decision of a revision, and only an approval goes on.
Authority ==
    /\ \A r \in Revision : answers[r] # NoAnswer =>
           /\ r =< row.revision
           /\ r = row.revision => row.class.disposition = "human"
           /\ ~ Approved(r) => active = r
    /\ \A r \in Revision : activations[r].kind = "human" =>
           r - 1 \in Revision /\ Approved(r - 1)

\* Positions of advance at which the row is of the active revision, and behind.
Level == {"report", "fence", "classify", "settle", "apply", "human", "decide", "attempt",
          "intent", "plan", "publish", "cross", "close", "due", "activate", "work"}
Behind == {"finalize", "attest", "finish", "adopt", "migrate"}

\* A human activation goes on from the gate, an ordinary one from the classification.
HumanActive == activations[active].kind = "human"


\* What advance knows at p.
At(p) ==
    /\ p \in Level => active = row.revision
    /\ p \in Behind => active # row.revision
    /\ p = "settle" =>
           row.class = NoClass /\ row.used < SuccessorLimit /\ row.records # {}
    /\ p = "apply" => row.class # NoClass
    /\ p = "decide" => answers[row.revision] # NoAnswer
    /\ p \in {"decide", "attempt", "intent"} => row.class.disposition = "human"
    /\ p \in {"attempt", "intent"} => Approved(row.revision)
    /\ p = "intent" => gateAttempts[row.revision] # "none"
    /\ p \in {"plan", "publish", "cross", "attest", "finish", "adopt"}
          \/ (p = "finalize" /\ HumanActive) =>
           row.human # NoTransition /\ row.human.previous = row.revision
    /\ p \in {"decide", "attempt", "intent", "plan", "publish", "cross", "attest", "finish"}
          \/ (p = "finalize" /\ HumanActive) =>
           row.gate # NoGate
    /\ p = "close" => row.human # NoTransition
    /\ p \in {"activate", "migrate"} \/ (p = "finalize" /\ ~ HumanActive) =>
           row.class.disposition = "successor"
    /\ p = "activate" =>
           row.transition = [previous |-> row.revision, evidence |-> row.class.evidence]

IInv == TypeOK /\ Position /\ Classification /\ Gate /\ Authority /\ At(pc)

------------------------------------------------------------------------------
(* Types.                                                                  *)

\* The fields of the row.
LEMMA RowParts ==
    ASSUME TypeOK
    PROVE  /\ row.revision \in Revision
           /\ row.runs \in [Ticket -> Phase]
           /\ row.subjects \in [Ticket -> Revision]
           /\ row.records \in SUBSET Record
           /\ row.class = NoClass \/ row.class \in ClassValue
           /\ row.gate = NoGate \/ row.gate \in GateValue
           /\ row.transition = NoTransition \/ row.transition \in TransitionValue
           /\ row.human = NoTransition \/ row.human \in HumanValue
           /\ row.used \in Nat
           /\ row.lineage \in Seq(ArchiveValue)
  BY DEF TypeOK, RowValue, Subjects

LEMMA RunsSaved ==
    ASSUME NEW r \in RowValue, NEW v \in [Ticket -> Phase]
    PROVE  [r EXCEPT !.runs = v] \in RowValue
  BY DEF RowValue

LEMMA GateSaved ==
    ASSUME NEW r \in RowValue, NEW v \in GateValue \cup {NoGate}
    PROVE  [r EXCEPT !.gate = v] \in RowValue
  BY DEF RowValue

LEMMA ClassSaved ==
    ASSUME NEW r \in RowValue, NEW v \in ClassValue
    PROVE  [r EXCEPT !.class = v] \in RowValue
  BY DEF RowValue

LEMMA TransitionSaved ==
    ASSUME NEW r \in RowValue, NEW v \in TransitionValue
    PROVE  [r EXCEPT !.transition = v] \in RowValue
  BY DEF RowValue

LEMMA HumanSaved ==
    ASSUME NEW r \in RowValue, NEW v \in HumanValue, NEW g \in GateValue
    PROVE  [r EXCEPT !.human = v, !.gate = g] \in RowValue
  BY DEF RowValue

LEMMA ResolvedSaved ==
    ASSUME NEW r \in RowValue, NEW v \in [Ticket -> Phase], NEW s \in SUBSET Record
    PROVE  [r EXCEPT !.resolved = s, !.runs = v] \in RowValue
  BY DEF RowValue

\* Evidence values.
LEMMA PendingTyped == TypeOK => Pending \in SUBSET Evidence
  BY DEF TypeOK, RowValue, Record, Pending, Unresolved

\* A step of the kernel that saves a row.
LEMMA SavesTyped ==
    ASSUME TypeOK, NEW new \in RowValue, NEW to \in Control, Saves(new, to)
    PROVE  TypeOK'
  BY DEF TypeOK, Saves, Goto, plan

\* A migrated row.
LEMMA MigratedTyped ==
    ASSUME TypeOK, NEW g \in GateValue \cup {NoGate},
           NEW s \in TransitionValue \cup {NoTransition}, NEW h \in HumanValue \cup {NoTransition}
    PROVE  Migrated(g, s, h) \in RowValue
  <1>1. Append(row.lineage, Archive) \in Seq(ArchiveValue)
    BY RowParts DEF Archive, ArchiveValue, Subjects
  <1>2. active \in Revision /\ row.used + 1 \in Nat /\ row.spent \in SUBSET (Ticket \X Revision \X Evidence)
    BY RowParts DEF TypeOK, RowValue
  <1> QED BY <1>1, <1>2, RowParts DEF Migrated, RowValue, Phase, Subjects, Record

------------------------------------------------------------------------------
(* Steps that write neither store's record of the Campaign.                *)

LEMMA Frame ==
    ASSUME IInv, UNCHANGED <<plan, row>>, TypeOK', NEW p, pc' = p, At(p)
    PROVE  IInv'
  BY DEF IInv, Position, Intent, Replan, Human, Classification, Gate, Authority, Approved,
         At, HumanActive, plan

LEMMA ReadsKeep ==
    ASSUME IInv, NEW p \in Control, Reads(p), At(p)
    PROVE  IInv'
  <1>1. TypeOK'
    BY DEF IInv, Reads, Goto, TypeOK, plan
  <1> QED BY <1>1, Frame DEF Reads, Goto

\* advance starts, returns, raises or dies: nothing is known at "idle" and "load".
LEMMA EndsKeep ==
    ASSUME IInv, UNCHANGED <<plan, row>>, End, source' = source, crashes' \in 0 .. MaxCrash
    PROVE  IInv'
  <1>1. TypeOK'
    BY DEF IInv, End, Idle, TypeOK, Control, plan
  <1>2. At("idle")
    BY DEF At, Level, Behind
  <1> QED BY <1>1, <1>2, Frame DEF End

LEMMA AdvanceKeeps ==
    ASSUME IInv, NEW r \in Reports, NEW c \in {"none", "approve", "reject"}, Advance(r, c)
    PROVE  IInv'
  <1>1. r \in ReportValue \cup {NoReport}
    <2>1. 1 .. row.revision \subseteq Revision
      BY RowParts, LimitAssumption DEF IInv, Revision
    <2> QED BY <2>1 DEF Reports, ReportValue
  <1>2. TypeOK'
    BY <1>1 DEF IInv, Advance, TypeOK, Control, plan
  <1>3. At("load")
    BY DEF At, Level, Behind
  <1> QED BY <1>2, <1>3, Frame DEF Advance

LEMMA RaiseKeeps == IInv /\ Raise => IInv'
  BY EndsKeep DEF Raise, IInv, TypeOK

LEMMA CrashKeeps == IInv /\ Crash => IInv'
  BY CrashAssumption, EndsKeep DEF Crash, IInv, TypeOK

LEMMA ReturnKeeps == IInv /\ Return => IInv'
  BY EndsKeep DEF Return, IInv, TypeOK

LEMMA ReplayReportKeeps == IInv /\ ReplayReport => IInv'
  BY EndsKeep DEF ReplayReport, IInv, TypeOK

LEMMA PublishKeeps == IInv /\ Publish => IInv'
  <1> SUFFICES ASSUME IInv, Publish PROVE IInv'
    OBVIOUS
  <1>1. source' \in [Revision -> {"pending", "approved", "rejected"}]
    BY DEF Publish, IInv, TypeOK
  <1>2. TypeOK'
    BY <1>1 DEF Publish, IInv, TypeOK, plan
  <1> QED BY <1>2, Frame DEF Publish, IInv

LEMMA LoadKeeps == IInv /\ Load => IInv'
  <1>1. "reconcile" \in Control /\ At("reconcile")
    BY DEF Control, At, Level, Behind
  <1> QED BY <1>1, ReadsKeep DEF Load

\* A position that knows no more than that the row is of the active revision.
Plain == {"report", "fence", "classify", "human", "due", "work"}

LEMMA PlainAt ==
    ASSUME active = row.revision, NEW p \in Plain
    PROVE  p \in Control /\ At(p)
  BY DEF Plain, Control, At, Level, Behind

LEMMA LevelHere == IInv /\ pc \in Level => active = row.revision
  BY DEF IInv, At

LEMMA ReportAgainKeeps == IInv /\ ReportAgain => IInv'
  BY PlainAt, LevelHere, ReadsKeep DEF ReportAgain, Level, Plain

LEMMA SkipClassifyKeeps == IInv /\ SkipClassify => IInv'
  BY PlainAt, LevelHere, ReadsKeep DEF SkipClassify, Level, Plain

LEMMA NoChoiceKeeps == IInv /\ NoChoice => IInv'
  BY PlainAt, LevelHere, ReadsKeep DEF NoChoice, Level, Plain

LEMMA NoSuccessorKeeps == IInv /\ NoSuccessor => IInv'
  BY PlainAt, LevelHere, ReadsKeep DEF NoSuccessor, Level, Plain

LEMMA ReclassifyKeeps == IInv /\ Reclassify => IInv'
  <1> SUFFICES ASSUME IInv, Reclassify PROVE IInv'
    OBVIOUS
  <1>1. "apply" \in Control /\ At("apply")
    BY LevelHere DEF Reclassify, Control, At, Level, Behind
  <1> QED BY <1>1, ReadsKeep DEF Reclassify

\* A human transition that needs a resume is of the row's revision, and the
\* activation is still to come: "finish" is not reached from here.
LEMMA ResumeKeeps == IInv /\ Resume => IInv'
  <1> SUFFICES ASSUME IInv, Resume PROVE IInv'
    OBVIOUS
  <1>1. active = row.revision
    BY LevelHere DEF Resume, Level
  <1>2. row.human # NoTransition /\ row.human.previous = row.revision
    BY <1>1 DEF Resume, NeedsResume, IInv, Gate
  <1>3. "plan" \in Control /\ At("plan")
    BY <1>1, <1>2 DEF Resume, MayResume, NoGate, Control, At, Level, Behind
  <1> QED BY <1>1, <1>2, <1>3, ReadsKeep DEF Resume

LEMMA PublishHumanKeeps == IInv /\ PublishHuman => IInv'
  <1> SUFFICES ASSUME IInv, PublishHuman PROVE IInv'
    OBVIOUS
  <1>1. "cross" \in Control /\ At("cross")
    BY LevelHere DEF PublishHuman, IInv, Control, At, Level, Behind
  <1> QED BY <1>1, ReadsKeep DEF PublishHuman

------------------------------------------------------------------------------
(* Steps that save the row.                                                *)

\* What the invariant reads of the row.
Read == <<row.revision, row.records, row.class, row.gate, row.transition, row.human,
          row.used, row.lineage>>

\* The Work Runs are of no account to it.
LEMMA SameRead ==
    ASSUME IInv, TypeOK', UNCHANGED plan, UNCHANGED Read, NEW p, pc' = p, At(p)
    PROVE  IInv'
  BY DEF IInv, Position, Intent, Replan, Human, Classification, Gate, Authority, Approved,
         At, HumanActive, plan, Read

LEMMA RunsKeep ==
    ASSUME IInv, NEW v \in [Ticket -> Phase], NEW p \in Control, At(p),
           Saves([row EXCEPT !.runs = v], p)
    PROVE  IInv'
  <1>1. row \in RowValue
    BY DEF IInv, TypeOK
  <1>2. TypeOK'
    BY <1>1, RunsSaved, SavesTyped DEF IInv
  <1>3. UNCHANGED Read
    BY <1>1 DEF RowValue, Saves, Read
  <1> QED BY <1>2, <1>3, SameRead DEF Saves, Goto

LEMMA ReconcileKeeps == IInv /\ Reconcile => IInv'
  <1> SUFFICES ASSUME IInv, Reconcile PROVE IInv'
    OBVIOUS
  <1> DEFINE runs == [t \in Ticket |-> IF t \in Invalidated THEN "quiescent" ELSE row.runs[t]]
             to == IF pc = "reconcile" /\ call.report # NoReport THEN "report" ELSE "classify"
  <1>1. runs \in [Ticket -> Phase]
    BY RowParts DEF IInv, Phase
  <1>2. row.records = {} => active = row.revision
    BY DEF IInv, Position, Classification
  <1>3. active = row.revision
    BY <1>2 DEF Reconcile, MayReconcile
  <1>4. to \in Control /\ At(to)
    BY <1>3, PlainAt DEF Plain
  <1>5. Saves([row EXCEPT !.runs = runs], to)
    BY DEF Reconcile
  <1> HIDE DEF runs, to
  <1> QED BY <1>1, <1>4, <1>5, RunsKeep

LEMMA WorkKeeps ==
    ASSUME IInv, NEW t \in Ticket, Work(t)
    PROVE  IInv'
  <1> DEFINE runs == [row.runs EXCEPT ![t] = IF @ = "pending" THEN "active" ELSE "completed"]
  <1>1. runs \in [Ticket -> Phase]
    BY RowParts DEF IInv, Phase
  <1>2. "work" \in Control /\ At("work")
    BY LevelHere, PlainAt DEF Work, Level, Plain
  <1>3. row.runs \in [Ticket -> Phase] /\ row \in RowValue
    BY RowParts DEF IInv, TypeOK
  <1>4. Saves([row EXCEPT !.runs = runs], "work")
    BY <1>3 DEF Work, RowValue
  <1> HIDE DEF runs
  <1> QED BY <1>1, <1>2, <1>4, RunsKeep

\* The gate may go on to any phase that needs no classification, or that has one.
LEMMA GateKeep ==
    ASSUME IInv, NEW g \in GateValue, NEW p \in Control, At(p),
           Saves([row EXCEPT !.gate = g], p),
           g.phase \in {"choice", "readback", "planned"} => row.class.disposition = "human"
    PROVE  IInv'
  <1>1. row \in RowValue
    BY DEF IInv, TypeOK
  <1>2. TypeOK'
    BY <1>1, GateSaved, SavesTyped DEF IInv
  <1>3. /\ UNCHANGED <<row.revision, row.records, row.class, row.transition, row.human,
                       row.used, row.lineage>>
        /\ row'.gate = g
    BY <1>1 DEF RowValue, Saves
  <1>4. Position'
    BY <1>3 DEF IInv, Position, Intent, Replan, Human, Saves, plan
  <1>5. Classification'
    BY <1>3 DEF IInv, Classification
  <1>6. Gate'
    BY <1>3 DEF IInv, Gate, Approved, Saves, plan
  <1>7. Authority'
    BY <1>3 DEF IInv, Authority, Approved, Saves, plan
  <1>8. At(pc)'
    <2>1. g # NoGate
      BY DEF GateValue, NoGate
    <2> QED BY <1>3, <2>1 DEF At, HumanActive, Approved, Saves, Goto, plan
  <1> QED BY <1>2, <1>4, <1>5, <1>6, <1>7, <1>8 DEF IInv

LEMMA ExhaustedTyped ==
    ASSUME TypeOK
    PROVE  Exhausted(row.gate) \in GateValue /\ Exhausted(row.gate).phase = "exhausted"
  BY RowParts DEF Exhausted, GateValue, NoGate

LEMMA ExhaustSuccessorsKeeps == IInv /\ ExhaustSuccessors => IInv'
  <1> SUFFICES ASSUME IInv, ExhaustSuccessors PROVE IInv'
    OBVIOUS
  <1>1. "human" \in Control /\ At("human")
    BY LevelHere, PlainAt DEF ExhaustSuccessors, Level, Plain
  <1>2. Saves([row EXCEPT !.gate = Exhausted(row.gate)], "human")
    BY DEF ExhaustSuccessors
  <1>3. Exhausted(row.gate) \in GateValue /\ Exhausted(row.gate).phase = "exhausted"
    BY ExhaustedTyped DEF IInv
  <1> QED BY <1>1, <1>2, <1>3, GateKeep

LEMMA DecideKeeps == IInv /\ Decide => IInv'
  <1> SUFFICES ASSUME IInv, Decide PROVE IInv'
    OBVIOUS
  <1> DEFINE a == answers[row.revision]
  <1>1. active = row.revision /\ row.class.disposition = "human" /\ row.gate # NoGate
    BY LevelHere DEF Decide, Level, IInv, At
  <1>2. CASE Approves(a) /\ Reads("attempt")
    <2>1. "attempt" \in Control /\ At("attempt")
      BY <1>1, <1>2 DEF Approves, Approved, Control, At, Level, Behind
    <2> QED BY <1>2, <2>1, ReadsKeep
  <1>3. ASSUME NEW f \in {"rejected", "readback"}, Saves([row EXCEPT !.gate.phase = f], "due")
        PROVE  IInv'
    <2> DEFINE g == [row.gate EXCEPT !.phase = f]
    <2>1. g \in GateValue /\ g.phase = f
      BY <1>1, RowParts DEF GateValue, IInv
    <2>2. "due" \in Control /\ At("due")
      BY <1>1, PlainAt DEF Plain
    <2>3. Saves([row EXCEPT !.gate = g], "due")
      BY <1>3
    <2> HIDE DEF g
    <2> QED BY <1>1, <2>1, <2>2, <2>3, GateKeep
  <1> QED BY <1>2, <1>3 DEF Decide

LEMMA ReportNewKeeps == IInv /\ ReportNew => IInv'
  <1> SUFFICES ASSUME IInv, ReportNew PROVE IInv'
    OBVIOUS
  <1> DEFINE t == call.report.ticket
             e == call.report.evidence
             g == GateAfter(Obligation(t), e)
  <1>1. row \in RowValue /\ t \in Ticket /\ e \in Evidence /\ active = row.revision
    BY RowParts, LevelHere
       DEF IInv, TypeOK, ReportNew, Level, NoReport, ReportValue, Revision
  <1>2. g = row.gate \/ (g \in GateValue /\ g.phase = "exhausted")
    BY ExhaustedTyped DEF IInv, GateAfter
  <1>3. row.subjects[t] \in Revision
    BY <1>1, RowParts DEF IInv
  <1> HIDE DEF g
  <1>4. row' = [row EXCEPT !.records = @ \cup {<<t, e>>},
                           !.spent = @ \cup {<<t, row.subjects[t], e>>},
                           !.gate = g]
    BY DEF ReportNew, Saves, Obligation, g
  <1> HIDE DEF t, e
  <1>5. row' \in RowValue
    <2>1. row.gate \in GateValue \cup {NoGate} /\ g \in GateValue \cup {NoGate}
      BY <1>2, RowParts DEF IInv
    <2>2. /\ row.records \cup {<<t, e>>} \in SUBSET Record
          /\ row.spent \cup {<<t, row.subjects[t], e>>} \in SUBSET (Ticket \X Revision \X Evidence)
      BY <1>1, <1>3 DEF RowValue, Record
    <2> QED BY <1>1, <1>4, <2>1, <2>2 DEF RowValue
  <1>6. /\ UNCHANGED <<plan, source, crashes, call>>
        /\ pc' = "fence"
    BY DEF ReportNew, Saves, Goto
  <1>7. TypeOK'
    BY <1>5, <1>6 DEF IInv, TypeOK, plan, Control
  <1>8. /\ UNCHANGED <<row.revision, row.class, row.transition, row.human, row.used,
                       row.lineage>>
        /\ row'.records # {}
        /\ row'.gate = g
    BY <1>1, <1>4 DEF RowValue
  <1>9. Position'
    BY <1>6, <1>8 DEF IInv, Position, Intent, Replan, Human, plan
  <1>10. Classification'
    BY <1>2, <1>8 DEF IInv, Classification
  <1>11. Gate'
    BY <1>6, <1>8 DEF IInv, Gate, Approved, plan
  <1>12. Authority'
    BY <1>6, <1>8 DEF IInv, Authority, Approved, plan
  <1>13. At(pc)'
    BY <1>1, <1>6, <1>8 DEF At, Level, Behind, plan
  <1> QED BY <1>7, <1>9, <1>10, <1>11, <1>12, <1>13 DEF IInv

LEMMA SettleKeeps == IInv /\ Settle => IInv'
  <1> SUFFICES ASSUME IInv, Settle PROVE IInv'
    OBVIOUS
  <1>1. PICK d \in Dispositions :
            Saves([row EXCEPT !.class = [disposition |-> d, evidence |-> Pending]], "apply")
    BY DEF Settle
  <1> DEFINE k == [disposition |-> d, evidence |-> Pending]
  <1>2. k \in ClassValue /\ k # NoClass
    BY PendingTyped, DispositionAssumption DEF IInv, ClassValue, NoClass
  <1>3. Saves([row EXCEPT !.class = k], "apply")
    BY <1>1
  <1>4. /\ row \in RowValue /\ active = row.revision
        /\ row.used < SuccessorLimit /\ row.records # {}
    BY LevelHere DEF Settle, Level, IInv, TypeOK, At
  <1> HIDE DEF k
  <1>5. TypeOK'
    BY <1>2, <1>3, <1>4, ClassSaved, SavesTyped DEF IInv, Control
  <1>6. /\ UNCHANGED <<row.revision, row.records, row.gate, row.transition, row.human,
                       row.used, row.lineage>>
        /\ row'.class = k
        /\ UNCHANGED plan
        /\ pc' = "apply"
    BY <1>3, <1>4 DEF RowValue, Saves, Goto
  <1>7. row.class = NoClass
    BY DEF Settle, IInv, At
  <1>8. Position'
    BY <1>2, <1>4, <1>6 DEF IInv, Position, Intent, Replan, Human, plan
  <1>9. Classification'
    BY <1>4, <1>6, <1>7 DEF IInv, Classification, NoClass
  <1>10. Gate'
    BY <1>6, <1>7 DEF IInv, Gate, Approved, plan, NoClass
  <1>11. Authority'
    BY <1>6, <1>7 DEF IInv, Authority, Approved, plan, NoClass
  <1>12. At(pc)'
    BY <1>2, <1>4, <1>6 DEF At, Level, Behind, plan
  <1> QED BY <1>5, <1>8, <1>9, <1>10, <1>11, <1>12 DEF IInv

LEMMA ApplyKeeps == IInv /\ Apply => IInv'
  <1> SUFFICES ASSUME IInv, Apply PROVE IInv'
    OBVIOUS
  <1>1. active = row.revision /\ "human" \in Control /\ At("human")
    BY LevelHere, PlainAt DEF Apply, Level, Plain
  <1>2. CASE row.class.disposition = "successor"
    BY <1>1, <1>2, ReadsKeep DEF Apply
  <1>3. CASE row.class.disposition = "human"
    <2> DEFINE g == IF row.gate = NoGate
                    THEN [phase |-> "choice", revision |-> row.revision] ELSE row.gate
    <2>1. g \in GateValue
      BY RowParts DEF IInv, GateValue
    <2>2. Saves([row EXCEPT !.gate = g], "human")
      BY <1>3 DEF Apply
    <2> HIDE DEF g
    <2> QED BY <1>1, <1>3, <2>1, <2>2, GateKeep
  <1>4. CASE row.class.disposition \notin {"successor", "human"}
    <2> DEFINE runs == [t \in Ticket |-> IF t \in Invalidated THEN "pending" ELSE row.runs[t]]
    <2>1. runs \in [Ticket -> Phase] /\ row.records \in SUBSET Record /\ row \in RowValue
      BY RowParts DEF IInv, Phase, TypeOK
    <2>2. Saves([row EXCEPT !.resolved = row.records, !.runs = runs], "human")
      BY <1>4 DEF Apply
    <2> HIDE DEF runs
    <2>3. TypeOK'
      BY <1>1, <2>1, <2>2, ResolvedSaved, SavesTyped DEF IInv
    <2>4. UNCHANGED Read
      BY <2>1, <2>2 DEF RowValue, Saves, Read
    <2> QED BY <1>1, <2>2, <2>3, <2>4, SameRead DEF Saves, Goto
  <1> QED BY <1>2, <1>3, <1>4

LEMMA SaveHumanIntentKeeps == IInv /\ SaveHumanIntent => IInv'
  <1> SUFFICES ASSUME IInv, SaveHumanIntent PROVE IInv'
    OBVIOUS
  <1> DEFINE h == [previous |-> row.revision, evidence |-> row.class.evidence, state |-> "due"]
             g == [row.gate EXCEPT !.phase = "planned"]
  <1>1. /\ row \in RowValue /\ active = row.revision /\ row.gate # NoGate
        /\ row.class.disposition = "human"
        /\ Approved(row.revision) /\ gateAttempts[row.revision] # "none"
    BY LevelHere DEF SaveHumanIntent, Level, IInv, TypeOK, At
  <1>2. g \in GateValue /\ g.phase = "planned" /\ g # NoGate
    BY <1>1, RowParts DEF IInv, GateValue, NoGate
  <1>3. row.class \in ClassValue
    BY <1>1, RowParts DEF IInv, NoClass
  <1>4. h \in HumanValue /\ h # NoTransition /\ h.previous = row.revision /\ h.state = "due"
    BY <1>3, RowParts DEF IInv, HumanValue, ClassValue, NoTransition
  <1>5. Saves([row EXCEPT !.human = h, !.gate = g], "plan")
    BY <1>1 DEF SaveHumanIntent, RowValue
  <1> HIDE DEF g, h
  <1>6. TypeOK'
    BY <1>1, <1>2, <1>4, <1>5, HumanSaved, SavesTyped DEF IInv, Control
  <1>7. /\ UNCHANGED <<row.revision, row.records, row.class, row.transition, row.used,
                       row.lineage>>
        /\ row'.human = h /\ row'.gate = g
        /\ UNCHANGED plan
        /\ pc' = "plan"
    BY <1>1, <1>5 DEF RowValue, Saves, Goto
  <1>8. Position'
    BY <1>1, <1>7 DEF IInv, Position, plan
  <1>9. Classification'
    BY <1>1, <1>7 DEF IInv, Classification
  <1>10. Gate'
    BY <1>1, <1>4, <1>7, RowParts, LimitAssumption DEF IInv, Gate, Approved, plan, Revision
  <1>11. Authority'
    BY <1>7 DEF IInv, Authority, Approved, plan
  <1>12. At(pc)'
    BY <1>1, <1>2, <1>4, <1>7 DEF At, Level, Behind, plan
  <1> QED BY <1>6, <1>8, <1>9, <1>10, <1>11, <1>12 DEF IInv

LEMMA FinishHumanKeeps == IInv /\ FinishHuman => IInv'
  <1> SUFFICES ASSUME IInv, FinishHuman PROVE IInv'
    OBVIOUS
  <1> DEFINE h == [row.human EXCEPT !.state = "activated"]
             g == [row.gate EXCEPT !.phase = "active"]
  <1>1. /\ row \in RowValue /\ active # row.revision /\ row.gate # NoGate
        /\ row.human # NoTransition /\ row.human.previous = row.revision
    BY DEF FinishHuman, Behind, IInv, TypeOK, At
  <1>2. g \in GateValue /\ g.phase = "active"
    BY <1>1, RowParts DEF IInv, GateValue
  <1>3. /\ h \in HumanValue /\ h # NoTransition
        /\ h.previous = row.human.previous /\ h.evidence = row.human.evidence
        /\ h.state = "activated"
    BY <1>1, RowParts DEF IInv, HumanValue, NoTransition
  <1>4. Saves([row EXCEPT !.human = h, !.gate = g], "adopt")
    BY <1>1 DEF FinishHuman, RowValue
  <1> HIDE DEF g, h
  <1>5. TypeOK'
    BY <1>1, <1>2, <1>3, <1>4, HumanSaved, SavesTyped DEF IInv, Control
  <1>6. /\ UNCHANGED <<row.revision, row.records, row.class, row.transition, row.used,
                       row.lineage>>
        /\ row'.human = h /\ row'.gate = g
        /\ UNCHANGED plan
        /\ pc' = "adopt"
    BY <1>1, <1>4 DEF RowValue, Saves, Goto
  <1>7. Position'
    BY <1>1, <1>3, <1>6 DEF IInv, Position, Intent, Replan, Human, plan
  <1>8. Classification'
    BY <1>2, <1>6 DEF IInv, Classification
  <1>9. Gate'
    BY <1>1, <1>3, <1>6 DEF IInv, Gate, Approved, plan
  <1>10. Authority'
    BY <1>6 DEF IInv, Authority, Approved, plan
  <1>11. At(pc)'
    BY <1>1, <1>3, <1>6 DEF At, Level, Behind, plan
  <1> QED BY <1>5, <1>7, <1>8, <1>9, <1>10, <1>11 DEF IInv

LEMMA SaveIntentKeeps == IInv /\ SaveIntent => IInv'
  <1> SUFFICES ASSUME IInv, SaveIntent PROVE IInv'
    OBVIOUS
  <1> DEFINE s == [previous |-> row.revision, evidence |-> row.class.evidence]
  <1>1. /\ row \in RowValue /\ active = row.revision
        /\ row.class.disposition = "successor" /\ row.class \in ClassValue
    BY LevelHere, RowParts DEF SaveIntent, HasSuccessor, Level, IInv, TypeOK, NoClass
  <1>2. s \in TransitionValue
    BY <1>1, RowParts DEF IInv, TransitionValue, ClassValue
  <1>3. Saves([row EXCEPT !.transition = s], "activate")
    BY DEF SaveIntent
  <1>4. s = [previous |-> row.revision, evidence |-> row.class.evidence]
    OBVIOUS
  <1> HIDE DEF s
  <1>5. TypeOK'
    BY <1>1, <1>2, <1>3, TransitionSaved, SavesTyped DEF IInv, Control
  <1>6. /\ UNCHANGED <<row.revision, row.records, row.class, row.gate, row.human, row.used,
                       row.lineage>>
        /\ row'.transition = s
        /\ UNCHANGED plan
        /\ pc' = "activate"
    BY <1>1, <1>3 DEF RowValue, Saves, Goto
  <1>7. Position'
    BY <1>1, <1>6 DEF IInv, Position, plan
  <1>8. Classification'
    BY <1>6 DEF IInv, Classification
  <1>9. Gate'
    BY <1>6 DEF IInv, Gate, Approved, plan
  <1>10. Authority'
    BY <1>6 DEF IInv, Authority, Approved, plan
  <1>11. At(pc)'
    BY <1>1, <1>4, <1>6 DEF At, Level, Behind, plan
  <1> QED BY <1>5, <1>7, <1>8, <1>9, <1>10, <1>11 DEF IInv

------------------------------------------------------------------------------
(* Migrations.                                                             *)

\* A row behind PlanControl migrates to the active revision: the counter goes up
\* by the one that the classification had left.
LEMMA MigrationKeeps ==
    ASSUME IInv, active # row.revision,
           NEW g \in GateValue \cup {NoGate}, g.phase \notin {"choice", "readback", "planned"},
           NEW s \in TransitionValue \cup {NoTransition},
           NEW h \in {row.human, NoTransition},
           h # NoTransition => h.state = "activated" /\ h.previous = row.revision,
           NEW p \in Plain \cup {"reconcile", "close"}, p = "close" => h # NoTransition,
           Saves(Migrated(g, s, h), p)
    PROVE  IInv'
  <1>1. /\ active = row.revision + 1 /\ row.used < SuccessorLimit
        /\ row.used = row.revision - 1 /\ Len(row.lineage) = row.used
        /\ row.revision \in Nat
    BY RowParts, LimitAssumption DEF IInv, Position, Classification, Revision
  <1>2. TypeOK'
    BY MigratedTyped, SavesTyped, RowParts DEF IInv, Control, Plain
  <1>3. Len(Append(row.lineage, Archive)) = Len(row.lineage) + 1
    BY RowParts, AppendProperties DEF IInv, Archive, ArchiveValue, Subjects
  <1>4. /\ row'.revision = active /\ row'.records = {} /\ row'.class = NoClass
        /\ row'.gate = g /\ row'.transition = s /\ row'.human = h
        /\ row'.used = row.used + 1
        /\ Len(row'.lineage) = Len(row.lineage) + 1
        /\ UNCHANGED plan
        /\ pc' = p
    BY <1>3 DEF Saves, Goto, Migrated
  <1>5. Position'
    BY <1>1, <1>4, LimitAssumption DEF Position, plan
  <1>6. Classification'
    BY <1>4 DEF Classification, NoClass
  <1>7. Gate'
    BY <1>1, <1>4 DEF IInv, Gate, Approved, plan, NoTransition
  <1>8. Authority'
    BY <1>1, <1>4 DEF IInv, Authority, Approved, plan, Revision
  <1>9. At(pc)'
    BY <1>4 DEF At, Level, Behind, plan, Plain
  <1> QED BY <1>2, <1>5, <1>6, <1>7, <1>8, <1>9 DEF IInv

LEMMA LoadSuccessorKeeps == IInv /\ LoadSuccessor => IInv'
  <1> SUFFICES ASSUME IInv, LoadSuccessor PROVE IInv'
    OBVIOUS
  <1>1. row.transition \in TransitionValue \cup {NoTransition}
    BY RowParts DEF IInv
  <1> QED BY <1>1, MigrationKeeps DEF LoadSuccessor, Successor, NoGate, Plain

LEMMA MigrateKeeps == IInv /\ Migrate => IInv'
  <1> SUFFICES ASSUME IInv, Migrate PROVE IInv'
    OBVIOUS
  <1>1. row.transition \in TransitionValue \cup {NoTransition} /\ active # row.revision
    BY RowParts DEF IInv, At, Migrate, Behind
  <1> QED BY <1>1, MigrationKeeps DEF Migrate, Successor, NoGate, Plain

LEMMA AdoptHumanKeeps == IInv /\ AdoptHuman => IInv'
  <1> SUFFICES ASSUME IInv, AdoptHuman PROVE IInv'
    OBVIOUS
  <1> DEFINE g == [row.gate EXCEPT !.phase = "active"]
  <1>1. g \in GateValue /\ g.phase = "active"
    BY RowParts DEF IInv, AdoptHuman, MayAdopt, HumanMatches, GateValue, NoGate
  <1>2. Saves(Migrated(g, NoTransition, row.human), "close")
    BY DEF AdoptHuman, HumanSuccessor
  <1> HIDE DEF g
  <1> QED BY <1>1, <1>2, MigrationKeeps DEF AdoptHuman, MayAdopt, HumanMatches

------------------------------------------------------------------------------
(* Steps of PlanControl.                                                   *)

\* A Planning attempt and a classification are of no account to the invariant.
LEMMA PlanningKeeps ==
    ASSUME IInv, TypeOK', UNCHANGED <<active, activations, answers, gateAttempts, row>>,
           NEW p, pc' = p, At(p)
    PROVE  IInv'
  BY DEF IInv, Position, Intent, Replan, Human, Classification, Gate, Authority, Approved,
         At, HumanActive

LEMMA ConsultKeeps ==
    ASSUME IInv, NEW d \in Dispositions, NEW kept \in SUBSET Ticket, Consult(d, kept)
    PROVE  IInv'
  <1> DEFINE a == Replan(Pending)
  <1>1. active = row.revision /\ row.revision \in Revision
    BY LevelHere, RowParts DEF Consult, Level, IInv
  <1>2. a \in ActionValue
    BY <1>1, PendingTyped DEF IInv, Replan, ActionValue
  <1>3. consulted' \subseteq ActionValue \X Dispositions
    BY <1>2 DEF Consult, IInv, TypeOK
  <1>4. attempts' \in [Revision -> AttemptValue \cup {NoAttempt}]
    <2>1. attempts \in [Revision -> AttemptValue \cup {NoAttempt}]
      BY DEF IInv, TypeOK
    <2>2. [action |-> a, kept |-> kept] \in AttemptValue
      BY <1>2 DEF AttemptValue
    <2> HIDE DEF a
    <2>3. \/ attempts' = attempts
          \/ attempts' = [attempts EXCEPT ![row.revision] = [action |-> a, kept |-> kept]]
      BY DEF Consult, a
    <2> QED BY <1>1, <2>1, <2>2, <2>3
  <1>5. /\ UNCHANGED <<active, claimed, activations, answers, gateAttempts, source, row,
                       crashes, call>>
        /\ pc' = "settle"
    BY DEF Consult, Goto
  <1>6. TypeOK'
    BY <1>3, <1>4, <1>5 DEF IInv, TypeOK, Control
  <1>7. row.class = NoClass /\ row.used < SuccessorLimit /\ row.records # {}
    BY RowParts, LimitAssumption
       DEF Consult, NothingToClassify, BudgetSpent, Pending, Unresolved, IInv
  <1>8. At("settle")
    BY <1>1, <1>7 DEF At, Level, Behind
  <1> QED BY <1>5, <1>6, <1>8, PlanningKeeps

LEMMA PlanHumanKeeps ==
    ASSUME IInv, NEW kept \in SUBSET Ticket, PlanHuman(kept)
    PROVE  IInv'
  <1> DEFINE new == [action |-> HumanAction, kept |-> kept]
  <1>1. /\ active = row.revision /\ row.human # NoTransition
        /\ row.human.previous = row.revision /\ row.gate # NoGate
    BY LevelHere DEF PlanHuman, Level, IInv, At
  <1>2. new \in AttemptValue
    BY <1>1, RowParts DEF IInv, HumanAction, Human, AttemptValue, ActionValue, HumanValue
  <1>3. attempts' \in [Revision -> AttemptValue \cup {NoAttempt}]
    <2>1. attempts \in [Revision -> AttemptValue \cup {NoAttempt}]
      BY DEF IInv, TypeOK
    <2>2. attempts' = [attempts EXCEPT ![active] = IF @ = NoAttempt THEN new ELSE @]
      BY DEF PlanHuman
    <2> HIDE DEF new
    <2> QED BY <1>2, <2>1, <2>2
  <1>4. /\ UNCHANGED <<active, claimed, activations, consulted, answers, gateAttempts,
                       source, row, crashes, call>>
        /\ pc' = "publish"
    BY DEF PlanHuman, Goto
  <1>5. TypeOK'
    BY <1>3, <1>4 DEF IInv, TypeOK, Control
  <1>6. At("publish")
    BY <1>1 DEF At, Level, Behind
  <1> QED BY <1>4, <1>5, <1>6, PlanningKeeps

LEMMA AnswerKeeps == IInv /\ Answer => IInv'
  <1> SUFFICES ASSUME IInv, Answer PROVE IInv'
    OBVIOUS
  <1>1. active = row.revision /\ row.revision \in Revision /\ row.gate # NoGate
    BY LevelHere, RowParts DEF Answer, MayAnswer, Level, IInv
  <1>2. row.class.disposition = "human"
    BY <1>1, RowParts DEF Answer, Closed, GateValue, IInv, Classification
  <1>3. Given \in AnswerValue /\ Given # NoAnswer
    BY <1>1 DEF Given, AnswerValue, NoAnswer, Answer, Chooses, IInv, TypeOK
  <1>4. answers' \in [Revision -> AnswerValue \cup {NoAnswer}]
    BY <1>1, <1>3 DEF Answer, IInv, TypeOK
  <1>5. /\ \A r \in Revision : r # row.revision => answers'[r] = answers[r]
        /\ answers[row.revision] # NoAnswer => answers' = answers
        /\ answers'[row.revision] # NoAnswer
    BY <1>1, <1>3 DEF Answer, IInv, TypeOK
  <1>6. /\ UNCHANGED <<active, claimed, activations, attempts, consulted, gateAttempts,
                       source, row, crashes, call>>
        /\ pc' = "decide"
    BY DEF Answer, Goto
  <1>7. TypeOK'
    BY <1>4, <1>6 DEF IInv, TypeOK, Control
  <1>8. Position' /\ Classification'
    BY <1>6 DEF IInv, Position, Intent, Replan, Human, Classification
  <1>9. \A r \in Revision : Approved(r) => Approved(r)'
    BY <1>5 DEF Approved, NoAnswer
  <1>10. Gate'
    <2>1. row.human # NoTransition => row.human.previous \in Revision
      BY RowParts DEF IInv, HumanValue
    <2> QED BY <1>6, <1>9, <2>1 DEF IInv, Gate
  <1>11. Authority'
    <2>1. \A r \in Revision : r # row.revision => (Approved(r)' <=> Approved(r))
      BY <1>5 DEF Approved
    <2>2. row.revision =< row.revision
      BY <1>1, LimitAssumption DEF Revision
    <2> QED BY <1>1, <1>2, <1>5, <1>6, <1>9, <2>1, <2>2 DEF IInv, Authority
  <1>12. At(pc)'
    BY <1>1, <1>2, <1>5, <1>6 DEF At, Level, Behind
  <1> QED BY <1>7, <1>8, <1>10, <1>11, <1>12 DEF IInv

\* The human gate attempt of r is saved, and never falls back to "none".
LEMMA AttemptSaved ==
    ASSUME IInv, NEW r \in Revision, NEW to \in {"planned", "active"}, SavesAttempt(r, to),
           NEW p \in Control, Goto(p), At(p)',
           UNCHANGED <<active, claimed, activations, attempts, consulted, answers, source, row,
                       crashes>>
    PROVE  IInv' /\ gateAttempts'[r] # "none"
  <1>1. /\ gateAttempts' \in [Revision -> {"none", "planned", "active"}]
        /\ gateAttempts'[r] # "none"
        /\ \A q \in Revision : gateAttempts[q] # "none" => gateAttempts'[q] # "none"
    BY DEF SavesAttempt, IInv, TypeOK
  <1>2. TypeOK'
    BY <1>1 DEF IInv, TypeOK, Goto
  <1>3. Position' /\ Classification' /\ Authority'
    BY DEF IInv, Position, Intent, Replan, Human, Classification, Authority, Approved
  <1>4. Gate'
    <2>1. row.human # NoTransition => row.human.previous \in Revision
      BY RowParts DEF IInv, HumanValue
    <2> QED BY <1>1, <2>1 DEF IInv, Gate, Approved
  <1> QED BY <1>1, <1>2, <1>3, <1>4 DEF IInv, Goto

LEMMA SaveGateAttemptKeeps == IInv /\ SaveGateAttempt => IInv'
  <1> SUFFICES ASSUME IInv, SaveGateAttempt PROVE IInv'
    OBVIOUS
  <1>1. /\ active = row.revision /\ row.revision \in Revision /\ row.gate # NoGate
        /\ row.class.disposition = "human" /\ Approved(row.revision)
    BY LevelHere, RowParts DEF SaveGateAttempt, Level, IInv, At
  <1>2. gateAttempts'[row.revision] # "none"
    BY <1>1 DEF SaveGateAttempt, SavesAttempt, IInv, TypeOK
  <1>3. "intent" \in Control /\ At("intent")'
    BY <1>1, <1>2 DEF SaveGateAttempt, Control, At, Level, Behind, Approved
  <1> QED BY <1>1, <1>3, AttemptSaved DEF SaveGateAttempt

LEMMA AttestHumanKeeps == IInv /\ AttestHuman => IInv'
  <1> SUFFICES ASSUME IInv, AttestHuman PROVE IInv'
    OBVIOUS
  <1>1. /\ active # row.revision /\ row.human # NoTransition
        /\ row.human.previous = row.revision /\ row.gate # NoGate
    BY DEF AttestHuman, Behind, IInv, At
  <1>2. row.human.previous \in Revision
    BY <1>1, RowParts DEF IInv
  <1>3. "finish" \in Control /\ At("finish")'
    BY <1>1 DEF AttestHuman, Control, At, Level, Behind
  <1> QED BY <1>2, <1>3, AttemptSaved DEF AttestHuman

LEMMA CloseGateAttemptKeeps == IInv /\ CloseGateAttempt => IInv'
  <1> SUFFICES ASSUME IInv, CloseGateAttempt PROVE IInv'
    OBVIOUS
  <1>1. active = row.revision /\ row.human # NoTransition
    BY LevelHere DEF CloseGateAttempt, Level, IInv, At
  <1>2. row.human.previous \in Revision
    BY <1>1, RowParts DEF IInv, HumanValue
  <1>3. "due" \in Control /\ At("due")'
    BY <1>1 DEF CloseGateAttempt, Control, At, Level, Behind
  <1> QED BY <1>2, <1>3, AttemptSaved DEF CloseGateAttempt

\* The activation of the next revision by the action that the row's intent names.
\* The predecessor's answer, when it has one, is an approval.
LEMMA ActivationKeeps ==
    ASSUME IInv, active = row.revision, row.class # NoClass,
           NEW a \in ActionValue, Activates(a), Goto("finalize"),
           IF a.kind = "human" THEN row.gate # NoGate
                               ELSE row.class.disposition = "successor",
           UNCHANGED <<claimed, attempts, consulted, answers, gateAttempts, source, row, crashes>>,
           \/ /\ row.transition # NoTransition
              /\ row.transition.previous = row.revision
              /\ a = Replan(row.transition.evidence)
           \/ /\ row.human # NoTransition
              /\ row.human.previous = row.revision
              /\ a = Human(row.revision, row.human.evidence),
           answers[row.revision] # NoAnswer => Approved(row.revision),
           a.kind = "human" =>
               /\ Approved(row.revision)
               /\ row.human # NoTransition /\ row.human.previous = row.revision
    PROVE  IInv'
  <1>1. row.revision \in Revision /\ row.used < SuccessorLimit /\ row.used = row.revision - 1
    BY RowParts DEF IInv, Position, Classification
  <1>2. active + 1 \in Revision
    BY <1>1, LimitAssumption DEF Revision
  <1>3. /\ active' = active + 1 /\ active' # active
        /\ activations' \in [Revision -> ActionValue \cup {NoAction}]
        /\ activations'[active'] = a
        /\ \A r \in Revision : r # active + 1 => activations'[r] = activations[r]
    BY <1>1, <1>2, LimitAssumption DEF Activates, IInv, TypeOK, Revision
  <1>4. TypeOK'
    BY <1>2, <1>3 DEF IInv, TypeOK, Goto, Control
  <1>5. Position'
    BY <1>3 DEF IInv, Position, Intent, Replan, Human
  <1>6. Classification'
    BY DEF IInv, Classification
  <1>7. Gate'
    BY <1>3 DEF IInv, Gate, Approved
  <1>8. Authority'
    <2>1. ASSUME NEW r \in Revision, answers'[r] # NoAnswer
          PROVE  /\ r =< row'.revision
                 /\ r = row'.revision => row'.class.disposition = "human"
                 /\ ~ Approved(r)' => active' = r
      BY <2>1 DEF IInv, Authority, Approved
    <2>2. ASSUME NEW r \in Revision, activations'[r].kind = "human"
          PROVE  r - 1 \in Revision /\ Approved(r - 1)'
      <3>1. CASE r = active + 1
        BY <1>1, <1>3, <2>2, <3>1, LimitAssumption DEF Approved, Revision
      <3>2. CASE r # active + 1
        BY <1>3, <2>2, <3>2 DEF IInv, Authority, Approved
      <3> QED BY <3>1, <3>2
    <2> QED BY <2>1, <2>2 DEF Authority
  <1>9. At("finalize")'
    BY <1>1, <1>3, LimitAssumption DEF At, HumanActive, Level, Behind, Revision
  <1> QED BY <1>4, <1>5, <1>6, <1>7, <1>8, <1>9 DEF IInv, Goto

LEMMA ActivateKeeps == IInv /\ Activate => IInv'
  <1> SUFFICES ASSUME IInv, Activate PROVE IInv'
    OBVIOUS
  <1> DEFINE a == Replan(row.class.evidence)
  <1>1. /\ active = row.revision /\ row.revision \in Nat /\ row.revision \in Revision
        /\ row.class.disposition = "successor" /\ row.class # NoClass
        /\ row.transition = [previous |-> row.revision, evidence |-> row.class.evidence]
    BY LevelHere, RowParts, LimitAssumption DEF Activate, Level, IInv, At, NoClass, Revision
  <1>2. row.transition # NoTransition /\ row.class \in ClassValue
    BY <1>1, RowParts DEF IInv, NoTransition, Revision
  <1>3. a \in ActionValue /\ a.kind = "replan"
    BY <1>1, <1>2 DEF Replan, ActionValue, ClassValue
  <1>4. answers[row.revision] = NoAnswer
    BY <1>1 DEF IInv, Authority
  <1> QED BY <1>1, <1>2, <1>3, <1>4, ActivationKeeps DEF Activate

LEMMA CrossHumanKeeps == IInv /\ CrossHuman => IInv'
  <1> SUFFICES ASSUME IInv, CrossHuman PROVE IInv'
    OBVIOUS
  <1>1. /\ active = row.revision /\ row.revision \in Nat
        /\ row.human # NoTransition /\ row.human.previous = row.revision
        /\ row.gate # NoGate
        /\ row.class.disposition = "human" /\ Approved(row.revision)
    BY LevelHere, RowParts, LimitAssumption DEF CrossHuman, Level, IInv, At, Gate, Revision
  <1>2. row.class # NoClass
    BY <1>1 DEF NoClass
  <1>3. /\ HumanAction \in ActionValue /\ HumanAction.kind = "human"
        /\ HumanAction = Human(row.revision, row.human.evidence)
    BY <1>1, RowParts DEF IInv, HumanAction, Human, ActionValue, HumanValue
  <1> QED BY <1>1, <1>2, <1>3, ActivationKeeps DEF CrossHuman

\* The claims are of no account to the invariant.
LEMMA FinalizeClaimsKeeps == IInv /\ FinalizeClaims => IInv'
  <1> SUFFICES ASSUME IInv, FinalizeClaims PROVE IInv'
    OBVIOUS
  <1> DEFINE to == IF HumanActive THEN "attest" ELSE "migrate"
  <1>1. pc = "finalize" /\ pc' = to
    BY DEF FinalizeClaims, Goto, HumanActive
  <1>2. TypeOK'
    BY DEF FinalizeClaims, Goto, IInv, TypeOK, Control
  <1>3. At(to)
    BY <1>1 DEF IInv, At, Level, Behind
  <1> HIDE DEF to
  <1> QED BY <1>1, <1>2, <1>3, PlanningKeeps DEF FinalizeClaims

LEMMA RollForwardKeeps == IInv /\ RollForward => IInv'
  <1> SUFFICES ASSUME IInv, RollForward PROVE IInv'
    OBVIOUS
  <1>1. TypeOK'
    BY DEF RollForward, IInv, TypeOK
  <1>2. At(pc)
    BY DEF IInv
  <1> QED BY <1>1, <1>2, PlanningKeeps DEF RollForward

------------------------------------------------------------------------------
(* The theorems.                                                           *)

LEMMA Initially == Init => IInv
  <1> SUFFICES ASSUME Init PROVE IInv
    OBVIOUS
  <1>1. row \in RowValue
    BY LimitAssumption DEF Init, RowValue, Phase, Subjects, Revision, Record
  <1>2. TypeOK
    BY <1>1, LimitAssumption, CrashAssumption DEF Init, TypeOK, Control, Idle, Revision
  <1>3. Position /\ Classification /\ Gate /\ Authority
    BY LimitAssumption
       DEF Init, Position, Classification, Gate, Authority, NoClass, NoGate, NoAction
  <1>4. At(pc)
    BY DEF Init, At, Level, Behind
  <1> QED BY <1>2, <1>3, <1>4 DEF IInv

LEMMA StepKeeps == IInv /\ [Next]_vars => IInv'
  <1> SUFFICES ASSUME IInv, [Next]_vars PROVE IInv'
    OBVIOUS
  <1>1. CASE UNCHANGED vars
    <2>1. TypeOK'
      BY <1>1 DEF IInv, TypeOK, vars, plan
    <2> QED BY <1>1, <2>1, Frame DEF vars, IInv
  <1>2. CASE Next
    BY <1>2, AdvanceKeeps, LoadKeeps, LoadSuccessorKeeps, ReconcileKeeps, ReplayReportKeeps,
       ReportAgainKeeps, ReportNewKeeps, SkipClassifyKeeps, ExhaustSuccessorsKeeps,
       ReclassifyKeeps, SettleKeeps, ApplyKeeps, ConsultKeeps, ResumeKeeps, NoChoiceKeeps,
       AnswerKeeps, DecideKeeps, SaveGateAttemptKeeps, SaveHumanIntentKeeps, PlanHumanKeeps,
       PublishHumanKeeps, CrossHumanKeeps, AttestHumanKeeps, FinishHumanKeeps,
       AdoptHumanKeeps, CloseGateAttemptKeeps, SaveIntentKeeps, ActivateKeeps,
       FinalizeClaimsKeeps, MigrateKeeps, NoSuccessorKeeps, WorkKeeps, ReturnKeeps, RaiseKeeps,
       CrashKeeps, RollForwardKeeps, PublishKeeps
       DEF Next, Step
  <1> QED BY <1>1, <1>2 DEF vars

\* The invariant of all that follows.
THEOREM Invariant == Spec => []IInv
  BY Initially, StepKeeps, PTL DEF Spec

\* Every reachable state is of its type: in particular the row never holds a
\* gate, a classification or a transition of another shape, and the revisions
\* stay within what the budget leaves.
THEOREM TypeCorrect == Spec => []TypeOK
  <1>1. IInv => TypeOK
    BY DEF IInv
  <1> QED BY <1>1, Invariant, PTL

\* However many reports, crashes and restarts, and by whichever of the two kinds
\* of activation, a Campaign has no more successors than its Policy Witness
\* allows, and the counter, the lineage and the revision of the row agree.
THEOREM WithinBudget == Spec => []SuccessorsWithinBudget
  <1>1. IInv => SuccessorsWithinBudget
    BY RowParts, LimitAssumption
       DEF IInv, Position, Classification, SuccessorsWithinBudget, Revision
  <1> QED BY <1>1, Invariant, PTL

\* PlanControl activates only what the kernel's row has announced, and is never
\* two revisions ahead of it.
THEOREM ActivationAnnounced == Spec => []IntentFirst
  <1>1. IInv => IntentFirst
    BY DEF IInv, Position, Intent, IntentFirst, Human, Replan
  <1> QED BY <1>1, Invariant, PTL

\* A human activation has a durable approval of its predecessor, a refused or
\* undecided Decision keeps the predecessor active, and a human transition in
\* the row has its gate attempt.
THEOREM HumanAuthority == Spec => []HumanApproved
  <1>1. IInv => HumanApproved
    BY DEF IInv, Authority, Gate, HumanApproved
  <1> QED BY <1>1, Invariant, PTL

------------------------------------------------------------------------------
(* The invalidation budget.  A report adds one digest to the record and to *)
(* the budget at once; a migration moves the record to the lineage.        *)

ledger == <<row.records, row.subjects, row.spent, row.lineage>>

LEMMA SameLedger == BudgetBacked /\ UNCHANGED ledger => BudgetBacked'
  BY DEF BudgetBacked, Counted, Archive, ledger

LEMMA ReportCounts == TypeOK /\ BudgetBacked /\ ReportNew => BudgetBacked'
  <1> SUFFICES ASSUME TypeOK, BudgetBacked, ReportNew PROVE BudgetBacked'
    OBVIOUS
  <1> DEFINE t == call.report.ticket
             e == call.report.evidence
             g == GateAfter(Obligation(t), e)
  <1>1. row' = [row EXCEPT !.records = @ \cup {<<t, e>>},
                           !.spent = @ \cup {<<t, row.subjects[t], e>>},
                           !.gate = g]
    BY DEF ReportNew, Saves, Obligation
  <1> HIDE DEF t, e, g
  <1>2. /\ row'.records = row.records \cup {<<t, e>>}
        /\ row'.spent = row.spent \cup {<<t, row.subjects[t], e>>}
        /\ UNCHANGED <<row.subjects, row.lineage>>
    BY <1>1 DEF TypeOK, RowValue
  <1>3. Counted(Archive)' = Counted(Archive) \cup {<<t, row.subjects[t], e>>}
    <2> DEFINE f(x) == <<x[1], row.subjects[x[1]], x[2]>>
    <2>1. f(<<t, e>>) = <<t, row.subjects[t], e>>
      OBVIOUS
    <2>2. /\ Counted(Archive) = {f(x) : x \in row.records}
          /\ Counted(Archive)' = {f(x) : x \in row.records \cup {<<t, e>>}}
      BY <1>2 DEF Counted, Archive
    <2> HIDE DEF f
    <2> QED BY <2>1, <2>2
  <1>4. (UNION {Counted(row.lineage[i]) : i \in 1 .. Len(row.lineage)})' =
            UNION {Counted(row.lineage[i]) : i \in 1 .. Len(row.lineage)}
    BY <1>2 DEF Counted
  <1> QED BY <1>2, <1>3, <1>4 DEF BudgetBacked

LEMMA MigrationCounts ==
    ASSUME TypeOK, BudgetBacked, NEW g, NEW s, NEW h, row' = Migrated(g, s, h)
    PROVE  BudgetBacked'
  <1>1. /\ row'.records = {} /\ row'.spent = row.spent
        /\ row'.lineage = Append(row.lineage, Archive)
    BY DEF Migrated
  <1>2. /\ Len(row'.lineage) = Len(row.lineage) + 1 /\ Len(row.lineage) \in Nat
        /\ \A i \in 1 .. Len(row.lineage) : row'.lineage[i] = row.lineage[i]
        /\ row'.lineage[Len(row.lineage) + 1] = Archive
    BY <1>1, RowParts, AppendProperties DEF Archive, ArchiveValue, Subjects
  <1>3. Counted(Archive)' = {}
    BY <1>1 DEF Counted, Archive
  <1>4. \A x : (\E i \in 1 .. Len(row'.lineage) : x \in Counted(row'.lineage[i]))
               <=> \/ \E i \in 1 .. Len(row.lineage) : x \in Counted(row.lineage[i])
                   \/ x \in Counted(Archive)
    <2> HIDE DEF Counted
    <2> QED BY <1>2
  <1> QED BY <1>1, <1>3, <1>4 DEF BudgetBacked

LEMMA StepCounts == TypeOK /\ BudgetBacked /\ [Next]_vars => BudgetBacked'
  <1> SUFFICES ASSUME TypeOK, BudgetBacked, [Next]_vars PROVE BudgetBacked'
    OBVIOUS
  <1>1. CASE ReportNew
    BY <1>1, ReportCounts
  <1>2. CASE LoadSuccessor \/ Migrate
    BY <1>2, MigrationCounts DEF LoadSuccessor, Migrate, Saves, Successor
  <1>3. CASE AdoptHuman
    BY <1>3, MigrationCounts DEF AdoptHuman, Saves, HumanSuccessor
  <1>4. ASSUME Next, ~ ReportNew, ~ LoadSuccessor, ~ Migrate, ~ AdoptHuman
        PROVE  UNCHANGED ledger
    <2>1. row \in RowValue
      BY DEF TypeOK
    <2> QED
      BY <1>4, <2>1
         DEF Next, Step, ledger, RowValue, Saves, Reads, Advance, Load, Reconcile,
             ReplayReport, ReportAgain, SkipClassify, ExhaustSuccessors, Reclassify, Settle,
             Apply, Consult, Resume, NoChoice, Answer, Decide, SaveGateAttempt,
             SaveHumanIntent, PlanHuman, PublishHuman, CrossHuman, AttestHuman, FinishHuman,
             CloseGateAttempt, SaveIntent, Activate, FinalizeClaims, NoSuccessor, Work, Return,
             Raise, Crash, RollForward, Publish
  <1>5. CASE UNCHANGED vars
    BY <1>5, SameLedger DEF vars, ledger
  <1> QED BY <1>1, <1>2, <1>3, <1>4, <1>5, SameLedger

\* The invalidation budget counts each digest on record against the obligation
\* it was reported for, once, and no digest that is not on record: crashes,
\* replays and migrations lose nothing and charge nothing.
THEOREM BudgetCounts == Spec => []BudgetBacked
  <1>1. Init => BudgetBacked
    BY DEF Init, BudgetBacked, Counted, Archive
  <1> QED BY <1>1, StepCounts, TypeCorrect, PTL DEF Spec

==============================================================================
