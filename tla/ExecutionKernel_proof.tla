------------------------ MODULE ExecutionKernel_proof ------------------------
(***************************************************************************)
(* What ExecutionKernel keeps for every plan, capacity, set of wakes and   *)
(* behaviour of the effect owner.                                          *)
(*                                                                         *)
(* First, the promise of EffectLedger: no crash and no answer makes it     *)
(* perform an effect without a durable intent, after a durable readback    *)
(* or, for a fenced action, twice.                                         *)
(*                                                                         *)
(* Then its safety: KernelInv says what the durable row shows of its own   *)
(* history and what the advance still knows, at each of its steps, of the  *)
(* row its scan has seen.  One lemma per action shows that a step keeps it *)
(* and does what the step properties allow.                                *)
(***************************************************************************)
EXTENDS ExecutionKernel, FiniteSetTheorems, TLAPS

StateFields == {"runs", "effects", "reports", "resolved", "classified", "wakes"}
JobFields == {"ticket", "act", "prior", "previous", "before", "resuming",
              "rearmed", "obs"}

IsState(s) == s = [f \in StateFields |-> s[f]]
IsJob == job = [f \in JobFields |-> job[f]]

\* The steps of an advance that work on a job; the later ones have its intent.
JobLabels == {"bind", "intent", "readback", "execute", "apply", "stopped",
              "record", "settle"}
IntentLabels == JobLabels \ {"bind", "intent"}

IsFenced(a) == a.kind \in FencedKinds

\* The durable states of an action, by kind.
LedgerStates(a) ==
    IF IsFenced(a) THEN {"intent", "attempted", "read_back"}
                   ELSE {"intent", "read_back"}

EntryInv(effects) ==
    \A a \in DOMAIN effects : effects[a].state \in LedgerStates(a)

\* A fenced action that was performed is at least attempted in the row.
PerformedInv(effects) ==
    \A a \in performed :
        /\ a \in DOMAIN effects
        /\ IsFenced(a) => effects[a].state # "intent"

\* What the locals of _perform_due_effect know of the row.
JobInv(effects) ==
    /\ pc \in JobLabels \/ after = "stopped" => IsJob
    /\ pc \in IntentLabels \/ after = "stopped" => job.act \in DOMAIN effects
    /\ pc \in {"bind", "intent"} => job.prior = Effect(state, job.act)
    /\ pc = "readback" =>
          effects[job.act].state = IF job.prior = "absent" THEN "intent"
                                                           ELSE job.prior
    /\ pc = "execute" =>
          /\ effects[job.act].state = IF IsFenced(job.act) THEN "attempted"
                                                           ELSE "intent"
          /\ IsFenced(job.act) => job.act \notin performed
    /\ pc # "reconcile" => after = "idle"
    /\ after \in {"idle", "report", "classify", "stopped"}

LedgerInv ==
    /\ IsState(state)
    /\ EntryInv(state.effects)
    /\ PerformedInv(state.effects)
    /\ JobInv(state.effects)

------------------------------------------------------------------------------
(* Writing to the row.                                                     *)

\* A write to one Work Run leaves the effects alone.
LEMMA SetRunKeepsEffects ==
    ASSUME NEW s, IsState(s), NEW t, NEW run
    PROVE  IsState(SetRun(s, t, run)) /\ SetRun(s, t, run).effects = s.effects
  BY DEF IsState, StateFields, SetRun

\* A write to one effect leaves the others alone.
LEMMA SetEffectWrites ==
    ASSUME NEW s, IsState(s), NEW a, NEW value, NEW receipt
    PROVE  LET e == SetEffect(s, a, value, receipt).effects
           IN  /\ IsState(SetEffect(s, a, value, receipt))
               /\ DOMAIN e = DOMAIN s.effects \cup {a}
               /\ e[a].state = value
               /\ \A b \in DOMAIN s.effects : b # a => e[b] = s.effects[b]
  BY DEF IsState, StateFields, SetEffect

LEMMA InitLedgerInv == Init => LedgerInv
  <1> SUFFICES ASSUME Init PROVE LedgerInv
    OBVIOUS
  <1>1. IsState(state) /\ DOMAIN state.effects = {}
    BY DEF Init, NewCampaign, IsState, StateFields
  <1> QED
    BY <1>1 DEF Init, LedgerInv, EntryInv, PerformedInv, JobInv, JobLabels, IntentLabels

------------------------------------------------------------------------------
(* Steps that leave the effects of the row and the effect owner alone.     *)

Quiet ==
    /\ IsState(state')
    /\ state'.effects = state.effects
    /\ performed' = performed /\ repeated' = repeated

\* Stop forgets the job.
LEMMA StopForgets ==
    ASSUME Stop PROVE JobInv(state.effects)'
  BY DEF Stop, JobInv, JobLabels, IntentLabels

\* The loop of advance forgets the job too.
LEMMA LoopForgets ==
    ASSUME NEW s, NEW t, NEW b, Loop(s, t, b), pc # "reconcile", LedgerInv
    PROVE  JobInv(state.effects)'
  BY DEF Loop, Goto, Stop, LedgerInv, JobInv, JobLabels, IntentLabels

\* A step that starts or keeps no job keeps the invariant if it is quiet.
LEMMA QuietKeepsInv ==
    ASSUME LedgerInv, Quiet, JobInv(state.effects)'
    PROVE  LedgerInv'
  BY DEF LedgerInv, Quiet, EntryInv, PerformedInv

\* Reconciliation, reports, classification and wakes.
LEMMA ReconciliationIsQuiet ==
    ASSUME LedgerInv,
           \/ \E wake \in Wake \cup {NoWake}, report \in Report \cup {NoReport} :
                 Advance(wake, report)
           \/ \E r \in Report :
                 ReconcileQuiesce(r) \/ ReconcileRelease(r) \/ ReconcileSkip(r)
           \/ ReconcileEnd
    PROVE  Quiet /\ JobInv(state.effects)'
  <1> USE DEF LedgerInv
  <1>1. ASSUME NEW wake, NEW report, Advance(wake, report)
        PROVE  Quiet /\ JobInv(state.effects)'
    BY <1>1 DEF Advance, Quiet, JobInv, JobLabels, IntentLabels
  <1>2. ASSUME NEW r, ReconcileQuiesce(r)
        PROVE  Quiet /\ JobInv(state.effects)'
    BY <1>2, SetRunKeepsEffects
    DEF ReconcileQuiesce, Visit, Quiet, JobInv, JobLabels, IntentLabels, IsJob
  <1>3. ASSUME NEW r, ReconcileRelease(r)
        PROVE  Quiet /\ JobInv(state.effects)'
    BY <1>3, SetRunKeepsEffects
    DEF ReconcileRelease, Visit, Quiet, JobInv, JobLabels, IntentLabels, IsJob
  <1>4. ASSUME NEW r, ReconcileSkip(r)
        PROVE  Quiet /\ JobInv(state.effects)'
    BY <1>4 DEF ReconcileSkip, Quiet, JobInv, JobLabels, IntentLabels, IsJob
  <1>5. ASSUME ReconcileEnd
        PROVE  Quiet /\ JobInv(state.effects)'
    BY <1>5 DEF ReconcileEnd, Quiet, JobInv, JobLabels, IntentLabels, IsJob
  <1> QED
    BY <1>1, <1>2, <1>3, <1>4, <1>5

\* _apply_plan_invalidation writes its record and its Work Run, no effect.
LEMMA RecordReportIsQuiet ==
    ASSUME LedgerInv, NEW r, NEW run,
           NEW return \in {"classify", "stopped"}, RecordReport(r, run, return),
           return = "stopped" => pc = "apply"
    PROVE  Quiet /\ JobInv(state.effects)'
  <1>1. Quiet
    BY SetRunKeepsEffects
    DEF LedgerInv, RecordReport, Quiet, IsState, StateFields
  <1> QED
    BY <1>1 DEF LedgerInv, RecordReport, Quiet, JobInv, JobLabels, IntentLabels, IsJob

\* An exception ends the advance: nothing is saved, the job is forgotten.
LEMMA RaiseIsQuiet ==
    ASSUME LedgerInv, Raise PROVE Quiet /\ JobInv(state.effects)'
  BY StopForgets DEF LedgerInv, Raise, Quiet

LEMMA ClassificationIsQuiet ==
    ASSUME LedgerInv,
           \/ TakeReport
           \/ \E kind \in Classifications : Classify(kind)
           \/ ClassificationConflict \/ ApplyResume \/ NotResumed \/ RegisterWake
    PROVE  Quiet /\ JobInv(state.effects)'
  <1> USE DEF LedgerInv
  <1>1. ASSUME TakeReport PROVE Quiet /\ JobInv(state.effects)'
    <2>1. CASE call.report = NoReport
      BY <1>1, <2>1 DEF TakeReport, Goto, Quiet, JobInv, JobLabels, IntentLabels
    <2>2. CASE call.report # NoReport
      BY <1>1, <2>2, RecordReportIsQuiet, RaiseIsQuiet DEF TakeReport
    <2> QED
      BY <2>1, <2>2
  <1>2. ASSUME NEW kind, Classify(kind) PROVE Quiet /\ JobInv(state.effects)'
    BY <1>2
    DEF Classify, Quiet, IsState, StateFields, JobInv, JobLabels, IntentLabels
  <1>3. ASSUME ClassificationConflict PROVE Quiet /\ JobInv(state.effects)'
    BY <1>3, RaiseIsQuiet DEF ClassificationConflict
  <1>4. ASSUME ApplyResume PROVE Quiet /\ JobInv(state.effects)'
    <2>1. Quiet
      BY <1>4 DEF ApplyResume, Quiet, IsState, StateFields
    <2> QED
      BY <1>4, <2>1 DEF ApplyResume, Goto, JobInv, JobLabels, IntentLabels
  <1>5. ASSUME NotResumed PROVE Quiet /\ JobInv(state.effects)'
    BY <1>5 DEF NotResumed, Goto, Quiet, JobInv, JobLabels, IntentLabels
  <1>6. ASSUME RegisterWake PROVE Quiet /\ JobInv(state.effects)'
    <2>1. Quiet
      BY <1>6 DEF RegisterWake, Quiet, IsState, StateFields
    <2> QED
      BY <1>6, <2>1 DEF RegisterWake, JobInv, JobLabels, IntentLabels
  <1> QED
    BY <1>1, <1>2, <1>3, <1>4, <1>5, <1>6

\* A job starts with what the row says of its action.
LEMMA StartIsQuiet ==
    ASSUME LedgerInv, NEW t, NEW act, NEW label \in {"bind", "intent"},
           Start(t, act, label), pc # "reconcile"
    PROVE  Quiet /\ JobInv(state.effects)'
  <1>1. Quiet /\ pc' = label /\ after' = "idle" /\ state' = state
    BY DEF LedgerInv, Start, Goto, Quiet, JobInv
  <1>2. job'.act = act /\ job'.prior = Effect(state, act)
    BY DEF Start
  <1>3. IsJob'
    BY DEF Start, IsJob, JobFields
  <1> QED
    BY <1>1, <1>2, <1>3 DEF JobInv, JobLabels, IntentLabels, Effect

LEMMA ScanIsQuiet ==
    ASSUME LedgerInv,
           \/ Return
           \/ \E t \in Ticket : \/ StartExhausted(t) \/ StartFollowUp(t)
                                \/ StartStale(t) \/ StartOrdinary(t)
           \/ StartDiagnosis
    PROVE  Quiet /\ JobInv(state.effects)'
  <1>1. ASSUME Return PROVE Quiet /\ JobInv(state.effects)'
    BY <1>1, RaiseIsQuiet DEF Return
  <1>2. ASSUME NEW t, StartExhausted(t) PROVE Quiet /\ JobInv(state.effects)'
    <2>1. Quiet
      BY <1>2, SetRunKeepsEffects DEF StartExhausted, LedgerInv, Quiet, world
    <2> QED
      BY <1>2, <2>1, LoopForgets DEF StartExhausted, Due
  <1>3. ASSUME NEW t, StartFollowUp(t) \/ StartStale(t) \/ StartOrdinary(t)
        PROVE  Quiet /\ JobInv(state.effects)'
    BY <1>3, StartIsQuiet DEF StartFollowUp, StartStale, StartOrdinary, Due
  <1>4. ASSUME StartDiagnosis PROVE Quiet /\ JobInv(state.effects)'
    BY <1>4, StartIsQuiet DEF StartDiagnosis
  <1> QED
    BY <1>1, <1>2, <1>3, <1>4

\* Answers of the effect owner and what is made of them before the effect of
\* the row is closed.
LEMMA ApplyingIsQuiet ==
    ASSUME LedgerInv,
           \/ BindRequest
           \/ \E obs \in Observations : ReadbackFound(obs)
           \/ RejectBinding \/ ApplyReport \/ ApplyCandidate \/ RejectAccepted
           \/ StaleCandidate \/ RejectReceipt
    PROVE  Quiet /\ JobInv(state.effects)'
  <1>1. ASSUME BindRequest PROVE Quiet /\ JobInv(state.effects)'
    <2>1. Quiet
      BY <1>1 DEF BindRequest, LedgerInv, Quiet, IsState, StateFields
    <2> QED
      BY <1>1, <2>1
      DEF BindRequest, Goto, LedgerInv, Quiet, JobInv, JobLabels, IntentLabels,
          IsJob, Effect
  <1>2. ASSUME NEW obs, ReadbackFound(obs) PROVE Quiet /\ JobInv(state.effects)'
    <2>1. Quiet /\ state' = state
      BY <1>2 DEF ReadbackFound, LedgerInv, Quiet
    <2>2. IsJob' /\ job'.act = job.act
      BY <1>2
      DEF ReadbackFound, Answered, LedgerInv, JobInv, JobLabels, IsJob, JobFields
    <2> QED
      BY <1>2, <2>1, <2>2
      DEF ReadbackFound, Answered, Goto, LedgerInv, JobInv, JobLabels, IntentLabels
  <1>3. ASSUME RejectBinding \/ RejectAccepted \/ RejectReceipt
        PROVE  Quiet /\ JobInv(state.effects)'
    BY <1>3, RaiseIsQuiet DEF RejectBinding, RejectAccepted, RejectReceipt
  <1>4. ASSUME ApplyReport PROVE Quiet /\ JobInv(state.effects)'
    BY <1>4, RecordReportIsQuiet, RaiseIsQuiet DEF ApplyReport, Applying
  <1>5. ASSUME ApplyCandidate PROVE Quiet /\ JobInv(state.effects)'
    <2>1. Quiet
      BY <1>5, SetRunKeepsEffects DEF ApplyCandidate, LedgerInv, Quiet, world
    <2>2. IsJob' /\ job'.act = job.act
      BY <1>5
      DEF ApplyCandidate, Applying, LedgerInv, JobInv, JobLabels, IsJob, JobFields
    <2> QED
      BY <1>5, <2>1, <2>2
      DEF ApplyCandidate, Applying, Goto, LedgerInv, Quiet, JobInv, JobLabels,
          IntentLabels
  <1>6. ASSUME StaleCandidate PROVE Quiet /\ JobInv(state.effects)'
    <2>1. Quiet
      BY <1>6, SetRunKeepsEffects DEF StaleCandidate, LedgerInv, Quiet
    <2> QED
      BY <1>6, <2>1
      DEF StaleCandidate, Goto, LedgerInv, Quiet, JobInv, JobLabels, IntentLabels,
          IsJob
  <1> QED
    BY <1>1, <1>2, <1>3, <1>4, <1>5, <1>6

LEMMA SettlingIsQuiet ==
    ASSUME LedgerInv,
           \/ SettleMechanical \/ SettleDiagnosis \/ SettleFollowUp
           \/ Crash
           \/ \E t \in Ticket : DeadlinePasses(t)
    PROVE  Quiet /\ JobInv(state.effects)'
  <1>1. ASSUME SettleMechanical PROVE Quiet /\ JobInv(state.effects)'
    <2>1. Quiet
      BY <1>1, SetRunKeepsEffects DEF SettleMechanical, LedgerInv, Quiet, world
    <2> QED
      BY <1>1, <2>1, LoopForgets DEF SettleMechanical
  <1>2. ASSUME SettleDiagnosis PROVE Quiet /\ JobInv(state.effects)'
    <2>1. Quiet
      BY <1>2, SetRunKeepsEffects DEF SettleDiagnosis, LedgerInv, Quiet, world
    <2> QED
      BY <1>2, <2>1, LoopForgets DEF SettleDiagnosis
  <1>3. ASSUME SettleFollowUp PROVE Quiet /\ JobInv(state.effects)'
    <2>1. Quiet
      BY <1>3, SetRunKeepsEffects DEF SettleFollowUp, LedgerInv, Quiet, world
    <2> QED
      BY <1>3, <2>1, LoopForgets DEF SettleFollowUp
  <1>4. ASSUME Crash PROVE Quiet /\ JobInv(state.effects)'
    BY <1>4, RaiseIsQuiet DEF Crash
  <1>5. ASSUME NEW t, DeadlinePasses(t) PROVE Quiet /\ JobInv(state.effects)'
    <2>1. Quiet
      BY <1>5 DEF DeadlinePasses, LedgerInv, Quiet, IsState, StateFields
    <2> QED
      BY <1>5, <2>1
      DEF DeadlinePasses, LedgerInv, Quiet, JobInv, JobLabels, IntentLabels,
          IsJob, Effect
  <1> QED
    BY <1>1, <1>2, <1>3, <1>4, <1>5

------------------------------------------------------------------------------
(* Steps that write one effect of the row.                                 *)

Writes(a, value) ==
    LET old == state.effects
        new == state'.effects
    IN  /\ IsState(state')
        /\ DOMAIN new = DOMAIN old \cup {a}
        /\ new[a].state = value
        /\ \A b \in DOMAIN old : b # a => new[b] = old[b]
        /\ performed' = performed /\ repeated' = repeated

\* The first intent of an action, or a state its kind allows, keeps the row
\* consistent.
LEMMA WriteKeepsInv ==
    ASSUME LedgerInv, NEW a, NEW value \in LedgerStates(a), Writes(a, value),
           value = "intent" => a \notin DOMAIN state.effects,
           JobInv(state.effects)'
    PROVE  LedgerInv'
  <1>1. EntryInv(state.effects)'
    BY DEF LedgerInv, Writes, EntryInv
  <1>2. PerformedInv(state.effects)'
    BY DEF LedgerInv, Writes, PerformedInv
  <1> QED
    BY <1>1, <1>2 DEF LedgerInv, Writes

\* In the ledger it is the entry of that action.
LEMMA WriteIsEntered ==
    ASSUME NEW a, NEW value, Writes(a, value)
    PROVE  Ledger!Enter(a, value)
  BY DEF Writes, Ledger!Enter

Step == Ledger!Next \/ UNCHANGED Ledger!vars

LEMMA QuietIsStutter == ASSUME Quiet PROVE Step
  BY DEF Quiet, Step, Ledger!vars

\* A step of the ledger for one of its actions.
LEMMA ActionIsStep ==
    ASSUME \E a \in DOMAIN state'.effects :
              \/ Ledger!Intend(a) \/ Ledger!Fence(a)
              \/ Ledger!ReadBack(a) \/ Ledger!Perform(a)
    PROVE  Step
  <1>1. PICK a \in DOMAIN state'.effects :
              \/ Ledger!Intend(a) \/ Ledger!Fence(a)
              \/ Ledger!ReadBack(a) \/ Ledger!Perform(a)
    OBVIOUS
  <1>2. a \in DOMAIN [b \in DOMAIN state.effects |-> state.effects[b].state]'
    OBVIOUS
  <1>3. Ledger!Next
    BY <1>1, <1>2 DEF Ledger!Next
  <1> QED
    BY <1>3 DEF Step

\* The intent of an action is entered once.
LEMMA IntentStep == ASSUME LedgerInv, Intent PROVE LedgerInv' /\ Step
  <1> DEFINE a == job.act
             s == Intended(state, a)
  <1>1. IsState(s) /\ performed' = performed /\ repeated' = repeated
    BY SetEffectWrites DEF LedgerInv, Intended, Intent
  <1>2. IsState(state') /\ state'.effects = s.effects
    <2>1. CASE IsOrdinary
      BY <1>1, <2>1, SetRunKeepsEffects DEF Intent
    <2>2. CASE ~ IsOrdinary /\ job.act.kind = "stale_diagnosis"
      BY <1>1, <2>2, SetRunKeepsEffects DEF Intent
    <2>3. CASE ~ IsOrdinary /\ job.act.kind # "stale_diagnosis"
      BY <1>1, <2>3 DEF Intent
    <2> QED
      BY <2>1, <2>2, <2>3
  <1>3. pc = "intent" /\ job' = job /\ pc' = "readback" /\ after' = "idle"
    BY DEF Intent, Goto, LedgerInv, JobInv
  <1>4. job.prior = Effect(state, a) /\ IsJob
    BY <1>3 DEF LedgerInv, JobInv, JobLabels
  <1>5. CASE a \notin DOMAIN state.effects
    <2>1. Writes(a, "intent")
      BY <1>1, <1>2, <1>5, SetEffectWrites
      DEF LedgerInv, Writes, Intended, Effect
    <2>2. JobInv(state.effects)'
      BY <1>3, <1>4, <1>5, <2>1
      DEF JobInv, JobLabels, IntentLabels, Writes, Effect, IsJob
    <2>3. LedgerInv'
      BY <1>5, <2>1, <2>2, WriteKeepsInv DEF LedgerStates
    <2>4. \E b \in DOMAIN state'.effects : Ledger!Intend(b)
      BY <1>5, <2>1, WriteIsEntered DEF Ledger!Intend, Writes
    <2> QED
      BY <2>3, <2>4, ActionIsStep
  <1>6. CASE a \in DOMAIN state.effects
    <2>1. state.effects[a].state # "absent"
      BY <1>6 DEF LedgerInv, EntryInv, LedgerStates
    <2>2. Quiet
      BY <1>1, <1>2, <1>6, <2>1 DEF Quiet, Intended, Effect
    <2>3. JobInv(state.effects)'
      BY <1>3, <1>4, <1>6, <2>1, <2>2
      DEF JobInv, JobLabels, IntentLabels, Quiet, Effect, IsJob
    <2> QED
      BY <2>2, <2>3, QuietKeepsInv, QuietIsStutter
  <1> QED
    BY <1>5, <1>6

\* An action that may be executed has an intent and, if it is fenced, was
\* never performed; the fence is durable before it is.
LEMMA ReadbackNoneStep == ASSUME LedgerInv, ReadbackNone PROVE LedgerInv' /\ Step
  <1> DEFINE a == job.act
  <1>1. /\ pc = "readback" /\ performed' = performed /\ repeated' = repeated /\ IsJob
        /\ a \in DOMAIN state.effects
        /\ state.effects[a].state \in LedgerStates(a)
        /\ state.effects[a].state = IF job.prior = "absent" THEN "intent"
                                                           ELSE job.prior
        /\ after = "idle" /\ IsState(state)
    BY DEF ReadbackNone, world, LedgerInv, EntryInv, JobInv, JobLabels, IntentLabels
  <1>2. CASE MayExecute
    <2>1. state.effects[a].state = "intent"
      BY <1>1, <1>2 DEF MayExecute, LedgerStates, IsFenced
    <2>2. job' = job /\ pc' = "execute" /\ after' = after
      BY <1>2 DEF ReadbackNone, Goto
    <2>3. CASE IsFenced(a)
      <3>1. Writes(a, "attempted")
        BY <1>1, <1>2, <2>3, SetEffectWrites DEF ReadbackNone, IsFenced, Writes
      <3>2. a \notin performed
        BY <2>1, <2>3 DEF LedgerInv, PerformedInv
      <3>3. JobInv(state.effects)'
        BY <1>1, <2>2, <2>3, <3>1, <3>2
        DEF JobInv, JobLabels, IntentLabels, Writes, IsJob
      <3>4. LedgerInv'
        BY <2>3, <3>1, <3>3, WriteKeepsInv DEF LedgerStates
      <3>5. \E b \in DOMAIN state'.effects : Ledger!Fence(b)
        BY <1>1, <2>1, <2>3, <3>1, WriteIsEntered
        DEF Ledger!Fence, Ledger!IsFenced, IsFenced, Writes
      <3> QED
        BY <3>4, <3>5, ActionIsStep
    <2>4. CASE ~ IsFenced(a)
      <3>1. Quiet
        BY <1>1, <1>2, <2>4 DEF ReadbackNone, IsFenced, Quiet
      <3>2. JobInv(state.effects)'
        BY <1>1, <2>1, <2>2, <2>4, <3>1
        DEF JobInv, JobLabels, IntentLabels, Quiet, IsJob
      <3> QED
        BY <3>1, <3>2, QuietKeepsInv, QuietIsStutter
    <2> QED
      BY <2>3, <2>4
  <1>3. CASE ~ MayExecute
    <2>1. Quiet
      BY <1>1, <1>3 DEF ReadbackNone, Quiet, IsState, StateFields
    <2>2. JobInv(state.effects)'
      BY <1>1, <1>3, LoopForgets DEF ReadbackNone
    <2> QED
      BY <2>1, <2>2, QuietKeepsInv, QuietIsStutter
  <1> QED
    BY <1>2, <1>3

\* The effect owner acts under the intent of the row.
LEMMA PerformStep ==
    ASSUME LedgerInv,
           \/ \E obs \in Observations : ExecuteAnswered(obs)
           \/ ExecuteLost \/ ExecuteNone
    PROVE  LedgerInv' /\ Step
  <1> DEFINE a == job.act
  <1>1. /\ pc = "execute" /\ state' = state
        /\ performed' = performed \cup {a}
        /\ repeated' = repeated \cup ({a} \cap performed)
    BY DEF ExecuteAnswered, ExecuteLost, ExecuteNone, Perform
  <1>2. /\ a \in DOMAIN state.effects /\ IsJob
        /\ state.effects[a].state = IF IsFenced(a) THEN "attempted" ELSE "intent"
        /\ IsFenced(a) => a \notin performed
        /\ after = "idle"
    BY <1>1 DEF LedgerInv, JobInv, JobLabels, IntentLabels
  <1>3. \E b \in DOMAIN state'.effects : Ledger!Perform(b)
    BY <1>1, <1>2 DEF Ledger!Perform, Ledger!IsFenced, IsFenced
  <1>4. PerformedInv(state.effects)'
    BY <1>1, <1>2 DEF LedgerInv, PerformedInv
  <1>5. JobInv(state.effects)'
    <2>1. ASSUME NEW obs, ExecuteAnswered(obs) PROVE JobInv(state.effects)'
      <3>1. IsJob' /\ job'.act = job.act
        BY <1>2, <2>1 DEF ExecuteAnswered, Answered, IsJob, JobFields
      <3> QED
        BY <1>1, <1>2, <2>1, <3>1
        DEF ExecuteAnswered, Answered, Goto, JobInv, JobLabels, IntentLabels
    <2>2. ASSUME ExecuteLost PROVE JobInv(state.effects)'
      BY <2>2, StopForgets DEF ExecuteLost
    <2>3. ASSUME ExecuteNone PROVE JobInv(state.effects)'
      BY <1>1, <2>3, LoopForgets DEF ExecuteNone
    <2> QED
      BY <2>1, <2>2, <2>3
  <1>6. LedgerInv'
    BY <1>1, <1>4, <1>5 DEF LedgerInv
  <1> QED
    BY <1>1, <1>2, <1>3, <1>6, ActionIsStep

\* A readback closes an effect that has an intent.
LEMMA ReadBackStep ==
    ASSUME LedgerInv, SettleReport \/ Settle \/ RecordStale
    PROVE  LedgerInv' /\ Step
  <1> DEFINE a == job.act
  <1>1. /\ pc \in {"apply", "stopped", "record", "settle"}
        /\ a \in DOMAIN state.effects /\ IsJob /\ IsState(state)
        /\ after = "idle"
    BY DEF SettleReport, Settle, Settling, RecordStale, Recording, LedgerInv,
           JobInv, JobLabels, IntentLabels
  <1>2. Writes(a, "read_back") /\ JobInv(state.effects)'
    <2>1. ASSUME SettleReport PROVE Writes(a, "read_back") /\ JobInv(state.effects)'
      <3> DEFINE s == SetEffect(state, a, "read_back", NoReceipt)
      <3>1. IsState(s)
        BY <1>1, SetEffectWrites
      <3>2. IsState(state') /\ state'.effects = s.effects /\ performed' = performed /\ repeated' = repeated
        BY <2>1, <3>1 DEF SettleReport, world, IsState, StateFields
      <3>3. Writes(a, "read_back")
        BY <1>1, <3>2, SetEffectWrites DEF Writes
      <3> QED
        BY <1>1, <2>1, <3>3, LoopForgets DEF SettleReport
    <2>2. ASSUME Settle PROVE Writes(a, "read_back") /\ JobInv(state.effects)'
      <3> DEFINE s == SetEffect(state, a, "read_back", NoReceipt)
      <3>1. IsState(s)
        BY <1>1, SetEffectWrites
      <3>2. PICK run : state' = SetRun(s, job.ticket, run)
        BY <2>2 DEF Settle
      <3>3. IsState(state') /\ state'.effects = s.effects /\ performed' = performed /\ repeated' = repeated
        BY <2>2, <3>1, <3>2, SetRunKeepsEffects DEF Settle, world
      <3>4. Writes(a, "read_back")
        BY <1>1, <3>3, SetEffectWrites DEF Writes
      <3> QED
        BY <1>1, <2>2, <3>4, LoopForgets DEF Settle
    <2>3. ASSUME RecordStale PROVE Writes(a, "read_back") /\ JobInv(state.effects)'
      <3>1. Writes(a, "read_back")
        BY <1>1, <2>3, SetEffectWrites DEF RecordStale, Writes
      <3> QED
        BY <1>1, <2>3, <3>1
        DEF RecordStale, Goto, Writes, JobInv, JobLabels, IntentLabels, IsJob
    <2> QED
      BY <2>1, <2>2, <2>3
  <1>3. LedgerInv'
    BY <1>2, WriteKeepsInv DEF LedgerStates
  <1>4. \E b \in DOMAIN state'.effects : Ledger!ReadBack(b)
    BY <1>1, <1>2, WriteIsEntered DEF Ledger!ReadBack, Writes
  <1> QED
    BY <1>3, <1>4, ActionIsStep

------------------------------------------------------------------------------
(* The theorem.                                                            *)

LEMMA NextLedgerInv == LedgerInv /\ [Next]_vars => LedgerInv' /\ Step
  <1> SUFFICES ASSUME LedgerInv, [Next]_vars PROVE LedgerInv' /\ Step
    OBVIOUS
  <1>1. ASSUME Quiet, JobInv(state.effects)' PROVE LedgerInv' /\ Step
    BY <1>1, QuietKeepsInv, QuietIsStutter
  <1>2. CASE UNCHANGED vars
    <2>1. Quiet
      BY <1>2 DEF vars, Quiet, LedgerInv
    <2>2. JobInv(state.effects)'
      BY <1>2 DEF vars, LedgerInv, JobInv, IsJob, Effect
    <2> QED
      BY <1>1, <2>1, <2>2
  <1>3. CASE AdvanceSteps
    <2>1. CASE \/ \E r \in Report :
                    ReconcileQuiesce(r) \/ ReconcileRelease(r) \/ ReconcileSkip(r)
               \/ ReconcileEnd
      BY <1>1, <2>1, ReconciliationIsQuiet
    <2>2. CASE \/ TakeReport
               \/ \E kind \in Classifications : Classify(kind)
               \/ ClassificationConflict \/ ApplyResume \/ NotResumed
               \/ RegisterWake
      BY <1>1, <2>2, ClassificationIsQuiet
    <2>3. CASE \/ Return
               \/ \E t \in Ticket : \/ StartExhausted(t) \/ StartFollowUp(t)
                                    \/ StartStale(t) \/ StartOrdinary(t)
               \/ StartDiagnosis
      BY <1>1, <2>3, ScanIsQuiet
    <2>4. CASE \/ BindRequest
               \/ \E obs \in Observations : ReadbackFound(obs)
               \/ RejectBinding \/ ApplyReport \/ ApplyCandidate \/ RejectAccepted
               \/ StaleCandidate \/ RejectReceipt
      BY <1>1, <2>4, ApplyingIsQuiet
    <2>5. CASE SettleMechanical \/ SettleDiagnosis \/ SettleFollowUp
      BY <1>1, <2>5, SettlingIsQuiet
    <2>6. CASE Intent
      BY <2>6, IntentStep
    <2>7. CASE ReadbackNone
      BY <2>7, ReadbackNoneStep
    <2>8. CASE (\E obs \in Observations : ExecuteAnswered(obs)) \/ ExecuteNone
      BY <2>8, PerformStep
    <2>9. CASE SettleReport \/ Settle \/ RecordStale
      BY <2>9, ReadBackStep
    <2> QED
      BY <1>3, <2>1, <2>2, <2>3, <2>4, <2>5, <2>6, <2>7, <2>8, <2>9
      DEF AdvanceSteps
  <1>4. CASE \E wake \in Wake \cup {NoWake}, report \in Report \cup {NoReport} :
                Advance(wake, report)
    BY <1>1, <1>4, ReconciliationIsQuiet
  <1>5. CASE ExecuteLost
    BY <1>5, PerformStep
  <1>6. CASE Crash \/ \E t \in Ticket : DeadlinePasses(t)
    BY <1>1, <1>6, SettlingIsQuiet
  <1> QED
    BY <1>2, <1>3, <1>4, <1>5, <1>6 DEF Next

\* Initially the ledger is empty.
LEMMA InitLedger == Init => Ledger!Init
  BY DEF Init, NewCampaign, Ledger!Init

\* _persist_action_intent, _read_or_execute_once and _perform_due_effect
\* together implement EffectLedger, whatever crashes, wakes, reports, deadlines
\* and answers of the effect owner happen.
THEOREM EffectsFollowLedger == Spec => LedgerSpec
<1>1. Init => LedgerInv /\ Ledger!Init
  BY InitLedgerInv, InitLedger
<1>2. LedgerInv /\ [Next]_vars => LedgerInv' /\ [Ledger!Next]_Ledger!vars
  BY NextLedgerInv DEF Step
<1> QED
  BY <1>1, <1>2, PTL DEF Spec, LedgerSpec, Ledger!Spec

------------------------------------------------------------------------------
(* What a Work Run can be, wherever the advance stands.                    *)

RunFields ==
    {"phase", "slot", "claim", "last", "bound", "binding", "ordinal", "resume",
     "lastWake", "stale", "disposed", "diagnosed", "followUp", "seen",
     "candidate", "accepted", "request", "proof", "report"}

IsRun(run) ==
    /\ run = [f \in RunFields |-> run[f]]
    /\ run.seen \in Nat /\ run.accepted \in Nat

RowShape ==
    /\ state.runs = [t \in Ticket |-> state.runs[t]]
    /\ \A t \in Ticket : IsRun(state.runs[t])
    /\ state.reports \subseteq Report
    /\ state.resolved \subseteq state.reports

Performed(t) == \E a \in performed : a.kind \in SemanticKinds /\ a.ticket = t

\* A Work Run was admitted at some time.
Started(t) ==
    \/ state.runs[t].phase # "pending"
    \/ state.runs[t].slot
    \/ state.runs[t].followUp = "pending"
    \/ Performed(t)

\* What one Work Run shows of its history.
RunInv(t) ==
    LET run == state.runs[t]
    IN  /\ HasPendingReport(state, t) => run.phase \in StoppablePhases
        /\ run.phase = "quiescent" => HasPendingReport(state, t)
        /\ run.followUp = "pending" => run.seen <= CandidateLimit
        /\ run.phase = "completed" => ~ run.slot /\ run.followUp # "pending"
        /\ run.phase \in SlotPhases => run.slot
        /\ Started(t) => DependenciesMet(state, t)

RowInv == \A t \in Ticket : RunInv(t)

\* The Slots that were taken with a check.
Bounded == {t \in Held(state) : ~ Delivering(t)}
CapacityInv == Cardinality(Bounded) <= Capacity

------------------------------------------------------------------------------
(* What the advance knows at each of its steps.                            *)

\* The steps at which a job may still write its Work Run.
WorkLabels == JobLabels \ {"stopped"}
StaleKinds == {"stale_readback", "stale_diagnosis"}

\* After reconciliation every reported Work Run is stopped.
CallInv ==
    /\ call.report \in Report \cup {NoReport}
    /\ todo \subseteq state.reports
    /\ pc # "idle" =>
          \A r \in PendingReports(state) :
              \/ pc = "reconcile" /\ r \in todo
              \/ state.runs[r[1]].phase = "quiescent" /\ ~ state.runs[r[1]].slot
    /\ pc = "stopped" \/ after = "stopped" => job.ticket \in Ticket

\* What the effect owner can have answered.
ObsInv ==
    /\ pc \in {"apply", "settle"} /\ IsOrdinary =>
          /\ job.obs.candidate \in Nat /\ job.obs.accepted \in Nat
          /\ job.obs.report = NoReport => job.obs.phase # "quiescent"
          /\ job.obs.report # NoReport =>
                job.obs.report \in Report /\ job.obs.report[1] = job.ticket
          /\ pc = "settle" => job.obs.report = NoReport
    /\ pc = "record" => job.act.kind = "stale_readback"
    /\ pc \in {"apply", "record", "settle"} /\ job.act.kind = "stale_readback" =>
          /\ job.obs.phase \in StaleStates
          /\ job.obs.candidate \in Nat
          /\ job.obs.candidate # 0 => job.obs.phase = "CANDIDATE_RECEIVED"

\* An observation may bring the Candidate that exhausts the budget.
MayExceed ==
    /\ pc \in {"apply", "record", "settle"}
    /\ \/ IsOrdinary
       \/ /\ job.act.kind = "stale_readback"
          /\ job.obs.phase = "CANDIDATE_RECEIVED"

\* What the scan found still holds while the job lasts.
WorkInv ==
    pc \in WorkLabels =>
      LET run == state.runs[job.ticket]
          kind == job.act.kind
      IN  /\ job.ticket \in Ticket
          /\ job.act.ticket = job.ticket
          /\ kind \in ActionKinds
          /\ DependenciesMet(state, job.ticket)
          /\ run.phase # "completed"
          /\ run.seen <= CandidateLimit \/ MayExceed
          /\ kind # "stale_follow_up" =>
                ~ HasPendingReport(state, job.ticket) /\ run.followUp # "pending"
          /\ kind \in StaleKinds => run.phase \in SlotPhases
          /\ IsOrdinary /\ pc \notin {"bind", "intent"} => run.slot
          /\ kind \in SemanticKinds /\ pc \in {"bind", "intent"} =>
                run.slot \/ SlotFree(state)
          /\ IsOrdinary /\ run.phase = "pending" /\ ~ job.before[2] =>
                ResourcesFree(state, job.ticket)

KernelInv ==
    /\ RowShape /\ RowInv /\ CapacityInv
    /\ CallInv /\ ObsInv /\ WorkInv

------------------------------------------------------------------------------
(* The decisions on one Work Run.                                          *)

\* What the scans and the properties look at.
SameView(old, new) ==
    /\ new.phase = old.phase /\ new.slot = old.slot
    /\ new.followUp = old.followUp /\ new.seen = old.seen

LEMMA ProgressedView ==
    ASSUME NEW run, IsRun(run)
    PROVE  IsRun(Progressed(run)) /\ SameView(run, Progressed(run))
  BY DEF IsRun, RunFields, Progressed, SameView

\* The budget decision gives the Slot back.
LEMMA ExhaustedView ==
    ASSUME NEW run, IsRun(run)
    PROVE  LET new == Exhausted(run)
           IN  /\ IsRun(new) /\ new.phase = "decision" /\ ~ new.slot
               /\ new.followUp = run.followUp /\ new.seen = run.seen
  BY DEF IsRun, RunFields, Exhausted

LEMMA QuiescedView ==
    ASSUME NEW run, IsRun(run), NEW r
    PROVE  LET new == Quiesced(run, r)
           IN  /\ IsRun(new) /\ new.phase = "quiescent" /\ new.slot = run.slot
               /\ new.followUp = run.followUp /\ new.seen = run.seen
  BY DEF IsRun, RunFields, Quiesced

LEMMA ReleasedView ==
    ASSUME NEW run, IsRun(run)
    PROVE  LET new == Released(run)
           IN  /\ IsRun(new) /\ new.phase = run.phase /\ ~ new.slot
               /\ new.followUp = run.followUp /\ new.seen = run.seen
  BY DEF IsRun, RunFields, Released

LEMMA ResumedView ==
    ASSUME NEW run, IsRun(run), NEW records
    PROVE  LET new == Resumed(run, records)
           IN  /\ IsRun(new) /\ new.phase = "pending" /\ ~ new.slot
               /\ new.followUp = run.followUp /\ new.seen = run.seen
  BY DEF IsRun, RunFields, Resumed

\* A receipt only adds to the history.
LEMMA WithCandidateView ==
    ASSUME NEW run, IsRun(run), NEW c \in Nat
    PROVE  LET new == WithCandidate(run, c)
           IN  /\ IsRun(new) /\ new.phase = run.phase /\ new.slot = run.slot
               /\ new.followUp = run.followUp
  BY DEF IsRun, RunFields, WithCandidate

\* A replaced binding forgets the follow-up of the old one.
LEMMA WithBindingView ==
    ASSUME NEW run, IsRun(run), NEW obs
    PROVE  LET new == WithBinding(run, obs)
           IN  /\ IsRun(new) /\ new.phase = run.phase /\ new.slot = run.slot
               /\ new.followUp \in {run.followUp, "none"} /\ new.seen = run.seen
  BY DEF IsRun, RunFields, WithBinding, Rebound

LEMMA ObservedView ==
    ASSUME NEW run, IsRun(run), NEW obs, NEW wake, NEW resuming
    PROVE  LET new == Observed(run, obs, wake, resuming)
           IN  /\ IsRun(new) /\ new.followUp = run.followUp /\ new.seen = run.seen
               /\ \/ new.phase = "decision" /\ ~ new.slot
                  \/ new.phase = obs.phase /\ (new.slot <=> ObservedSlot(obs))
  <1> DEFINE next == IF BudgetExhausted(run)
                     THEN Exhausted(run)
                     ELSE [run EXCEPT !.phase = obs.phase,
                                      !.slot = ObservedSlot(obs),
                                      !.claim = IF ObservedSlot(obs)
                                                THEN "held" ELSE "released"]
  <1>1. /\ IsRun(next) /\ next.followUp = run.followUp /\ next.seen = run.seen
        /\ \/ next.phase = "decision" /\ ~ next.slot
           \/ next.phase = obs.phase /\ (next.slot <=> ObservedSlot(obs))
    <2>1. CASE BudgetExhausted(run)
      BY <2>1, ExhaustedView
    <2>2. CASE ~ BudgetExhausted(run)
      BY <2>2 DEF IsRun, RunFields
    <2> QED
      BY <2>1, <2>2
  <1>2. Observed(run, obs, wake, resuming) =
            [next EXCEPT !.lastWake = wake, !.resume = FALSE,
                         !.ordinal = IF resuming THEN @ + 1 ELSE @,
                         !.proof = @ \/ next.phase = "completed"]
    BY DEF Observed
  <1> HIDE DEF next
  <1> QED
    BY <1>1, <1>2 DEF IsRun, RunFields

\* A mechanical readback of a state other than AMBIGUOUS_RUNNING.
LEMMA MechanicalView ==
    ASSUME NEW run, IsRun(run),
           NEW readback \in StaleStates \ {"AMBIGUOUS_RUNNING"}
    PROVE  LET new == Mechanical(run, readback)
           IN  /\ IsRun(new) /\ new.followUp = run.followUp /\ new.seen = run.seen
               /\ \/ new.phase = "completed" /\ ~ new.slot
                  \/ new.phase = "wait"
                  \/ new.phase = "candidate_checks" /\ new.slot
                  \/ new.phase = "runtime_unavailable"
  BY DEF IsRun, RunFields, Mechanical, StaleStates, SlotPhases

LEMMA DiagnosedView ==
    ASSUME NEW run, IsRun(run), NEW disposition
    PROVE  LET new == Diagnosed(run, disposition)
           IN  /\ IsRun(new) /\ new.seen = run.seen
               /\ \/ new.phase = "decision" /\ ~ new.slot
                  \/ new.phase = "running" /\ new.slot
  BY DEF IsRun, RunFields, Diagnosed

LEMMA FollowedUpView ==
    ASSUME NEW run, IsRun(run)
    PROVE  LET new == FollowedUp(run)
           IN  /\ IsRun(new) /\ new.phase = run.phase /\ new.slot = run.slot
               /\ new.followUp = "done" /\ new.seen = run.seen
  BY DEF IsRun, RunFields, FollowedUp

------------------------------------------------------------------------------
(* Writing one Work Run.                                                   *)

OnlyRun(t) == \A u \in Ticket \ {t} : state'.runs[u] = state.runs[u]

SameReports == state'.reports = state.reports /\ state'.resolved = state.resolved

\* What is written for t leaves the other Work Runs alone.
LEMMA RunWritten ==
    ASSUME RowShape, SameReports, NEW t \in Ticket, NEW run, IsRun(run),
           state'.runs = [state.runs EXCEPT ![t] = run]
    PROVE  RowShape' /\ OnlyRun(t) /\ state'.runs[t] = run
  BY DEF RowShape, SameReports, OnlyRun

\* The reports of the row decide what is pending.
LEMMA SamePending ==
    ASSUME SameReports
    PROVE  /\ PendingReports(state') = PendingReports(state)
           /\ \A t : HasPendingReport(state', t) <=> HasPendingReport(state, t)
  BY DEF SameReports, PendingReports, HasPendingReport

\* A step that changes one Work Run keeps RowInv if what it writes agrees with
\* the reports and the budget, follows an admission and undoes no completion.
LEMMA RowStep ==
    ASSUME PlanAssumption, RowInv, NEW t \in Ticket, OnlyRun(t),
           performed' = performed,
           \A u \in Ticket \ {t} :
              HasPendingReport(state', u) <=> HasPendingReport(state, u),
           LET old == state.runs[t]
               new == state'.runs[t]
           IN  /\ HasPendingReport(state', t) => new.phase \in StoppablePhases
               /\ new.phase = "quiescent" => HasPendingReport(state', t)
               /\ new.followUp = "pending" => new.seen <= CandidateLimit
               /\ new.phase = "completed" => ~ new.slot /\ new.followUp # "pending"
               /\ new.phase \in SlotPhases => new.slot
               /\ old.phase = "completed" => new.phase = "completed"
               /\ DependenciesMet(state, t) \/ SameView(old, new)
    PROVE  RowInv'
  <1>1. \A u \in Ticket : state.runs[u].phase = "completed" =>
                              state'.runs[u].phase = "completed"
    BY DEF OnlyRun
  <1>2. \A u \in Ticket : DependenciesMet(state, u) => DependenciesMet(state', u)
    BY <1>1 DEF DependenciesMet, TerminalPhases, PlanAssumption
  <1>3. ASSUME NEW u \in Ticket, u # t PROVE RunInv(u)'
    <2>1. RunInv(u) /\ state'.runs[u] = state.runs[u]
      BY <1>3 DEF RowInv, OnlyRun
    <2>2. Started(u)' => Started(u)
      BY <2>1 DEF Started, Performed
    <2> QED
      BY <1>2, <1>3, <2>1, <2>2 DEF RunInv
  <1>4. RunInv(t)'
    <2>1. RunInv(t)
      BY DEF RowInv
    <2>2. SameView(state.runs[t], state'.runs[t]) /\ Started(t)' => Started(t)
      BY DEF Started, Performed, SameView
    <2> QED
      BY <1>2, <2>1, <2>2 DEF RunInv
  <1> QED
    BY <1>3, <1>4 DEF RowInv

\* The special case of a step that shows nothing of what it writes.
SameViews == \A t \in Ticket : SameView(state.runs[t], state'.runs[t])

LEMMA RowKept ==
    ASSUME PlanAssumption, RowInv, SameViews, SameReports, performed' = performed
    PROVE  RowInv'
  <1>1. ASSUME NEW t \in Ticket PROVE RunInv(t)'
    <2>1. RunInv(t) /\ SameView(state.runs[t], state'.runs[t])
      BY DEF RowInv, SameViews
    <2>2. DependenciesMet(state, t) => DependenciesMet(state', t)
      BY DEF DependenciesMet, PlanAssumption, SameViews, SameView
    <2>3. Started(t)' => Started(t)
      BY <2>1 DEF Started, Performed, SameView
    <2>4. HasPendingReport(state', t) <=> HasPendingReport(state, t)
      BY SamePending
    <2> QED
      BY <2>1, <2>2, <2>3, <2>4 DEF RunInv, SameView
  <1> QED
    BY <1>1 DEF RowInv

\* A Slot is taken with a check, or for a delivery.
LEMMA CapacityStep ==
    ASSUME TicketAssumption, BoundAssumption, CapacityInv, NEW t \in Ticket,
           OnlyRun(t), DOMAIN state.effects \subseteq DOMAIN state'.effects,
           state'.runs[t].slot =>
              state.runs[t].slot \/ SlotFree(state) \/ Delivering(t)'
    PROVE  CapacityInv'
  <1>1. /\ IsFiniteSet(Held(state)) /\ Held(state) \subseteq Ticket
        /\ Held(state)' \subseteq Ticket
    BY FS_Subset DEF Held, TicketAssumption
  <1>2. \A u \in Ticket : Delivering(u) => Delivering(u)'
    BY DEF Delivering
  <1>3. IsFiniteSet(Bounded) /\ Bounded \subseteq Held(state)
    BY <1>1, FS_Subset DEF Bounded
  <1>4. CASE Bounded' \subseteq Bounded
    BY <1>3, <1>4, FS_Subset, FS_CardinalityType DEF CapacityInv, BoundAssumption
  <1>5. CASE ~ (Bounded' \subseteq Bounded)
    <2>1. \A u \in Bounded' : u # t => u \in Bounded
      BY <1>2 DEF Bounded, Held, OnlyRun
    <2>2. t \in Bounded' /\ t \notin Bounded
      BY <1>5, <2>1
    <2>3. t \notin Held(state) /\ SlotFree(state)
      BY <1>2, <2>2 DEF Bounded, Held
    <2>4. Bounded' \subseteq Held(state) \cup {t}
      BY <1>3, <2>1
    <2>5. /\ IsFiniteSet(Held(state) \cup {t})
          /\ Cardinality(Held(state) \cup {t}) = Cardinality(Held(state)) + 1
      BY <1>1, <2>3, FS_AddElement
    <2>6. Cardinality(Bounded') <= Cardinality(Held(state)) + 1
      BY <2>4, <2>5, FS_Subset
    <2>7. Cardinality(Bounded') \in Nat /\ Cardinality(Held(state)) \in Nat
      BY <1>1, <2>4, <2>5, FS_Subset, FS_CardinalityType
    <2> QED
      BY <2>3, <2>6, <2>7 DEF SlotFree, CapacityInv, BoundAssumption
  <1> QED
    BY <1>4, <1>5

LEMMA CapacityKept ==
    ASSUME TicketAssumption, BoundAssumption, CapacityInv, SameViews,
           DOMAIN state.effects \subseteq DOMAIN state'.effects
    PROVE  CapacityInv'
  <1>1. IsFiniteSet(Bounded) /\ Bounded \subseteq Ticket
    BY FS_Subset DEF Bounded, Held, TicketAssumption
  <1>2. Bounded' \subseteq Bounded
    BY DEF Bounded, Held, Delivering, SameViews, SameView
  <1>3. IsFiniteSet(Bounded') /\ Cardinality(Bounded') <= Cardinality(Bounded)
    BY <1>1, <1>2, FS_Subset
  <1>4. Cardinality(Bounded') \in Nat /\ Cardinality(Bounded) \in Nat
    BY <1>1, <1>3, FS_CardinalityType
  <1> QED
    BY <1>3, <1>4 DEF CapacityInv, BoundAssumption

------------------------------------------------------------------------------
(* Where the advance goes.                                                 *)

\* The stopped Work Runs stay as they are.
PendingKept ==
    \A r \in PendingReports(state) :
        /\ state'.runs[r[1]].phase = state.runs[r[1]].phase
        /\ state'.runs[r[1]].slot = state.runs[r[1]].slot

LEMMA OthersStayStopped ==
    ASSUME RowShape, NEW t \in Ticket, OnlyRun(t),
           HasPendingReport(state, t) =>
              /\ state'.runs[t].phase = state.runs[t].phase
              /\ state'.runs[t].slot = state.runs[t].slot
    PROVE  PendingKept
  <1> SUFFICES ASSUME NEW r \in PendingReports(state)
               PROVE  /\ state'.runs[r[1]].phase = state.runs[r[1]].phase
                      /\ state'.runs[r[1]].slot = state.runs[r[1]].slot
    BY DEF PendingKept
  <1>1. r[1] \in Ticket
    BY DEF RowShape, PendingReports, Report
  <1> QED
    BY <1>1 DEF HasPendingReport, OnlyRun

LEMMA SameViewsKeepPending ==
    ASSUME RowShape, SameViews PROVE PendingKept
  <1>1. \A r \in PendingReports(state) : r[1] \in Ticket
    BY DEF RowShape, PendingReports, Report
  <1> QED
    BY <1>1 DEF SameViews, SameView, PendingKept

\* An advance that ends knows nothing any more.
LEMMA StopForgetsAll ==
    ASSUME Stop PROVE CallInv' /\ ObsInv' /\ WorkInv'
  BY DEF Stop, NoCall, CallInv, ObsInv, WorkInv, WorkLabels, JobLabels

\* The loop of advance goes on with the stopped Work Runs stopped.
LEMMA LoopPos ==
    ASSUME CallInv, pc \notin {"idle", "reconcile"}, after = "idle",
           SameReports, PendingKept, NEW s, NEW t, NEW b, Loop(s, t, b)
    PROVE  CallInv' /\ ObsInv' /\ WorkInv'
  <1>1. CASE Stop
    BY <1>1, StopForgetsAll
  <1>2. CASE ~ Stop
    <2>1. /\ pc' = "scan" /\ call' = call /\ todo' = todo /\ after' = "idle"
      BY <1>2 DEF Loop, Goto
    <2>2. CallInv'
      BY <2>1, SamePending DEF CallInv, SameReports, PendingKept
    <2> QED
      BY <2>1, <2>2 DEF ObsInv, WorkInv, WorkLabels, JobLabels
  <1> QED
    BY <1>1, <1>2

\* A step from one label of a job to a later one.
JobGoes ==
    /\ pc \in WorkLabels /\ pc' \in WorkLabels
    /\ call' = call /\ todo' = todo /\ after' = "idle"
    /\ job'.ticket = job.ticket /\ job'.act = job.act /\ job'.before = job.before

LEMMA JobCall ==
    ASSUME CallInv, JobGoes, SameReports, PendingKept
    PROVE  CallInv'
  <1>1. pc \notin {"idle", "reconcile"} /\ pc' \notin {"idle", "stopped"}
    BY DEF JobGoes, WorkLabels, JobLabels
  <1> QED
    BY <1>1, SamePending DEF CallInv, JobGoes, SameReports, PendingKept

\* A job keeps what the scan found as long as it keeps the phase and the Slot.
LEMMA JobWork ==
    ASSUME PlanAssumption, WorkInv, JobGoes, SameReports, OnlyRun(job.ticket),
           LET old == state.runs[job.ticket]
               new == state'.runs[job.ticket]
           IN  /\ new.phase = old.phase
               /\ new.followUp # old.followUp => new.followUp = "none"
               /\ old.slot => new.slot
               /\ IsOrdinary /\ pc' \notin {"bind", "intent"} => new.slot
               /\ IsOrdinary /\ pc' \in {"bind", "intent"} =>
                     new.slot = old.slot /\ pc \in {"bind", "intent"}
               /\ new.seen <= CandidateLimit \/ MayExceed'
    PROVE  WorkInv'
  <1> USE DEF JobGoes
  <1>1. IsOrdinary' <=> IsOrdinary
    BY DEF IsOrdinary
  <1>2. /\ job.ticket \in Ticket /\ DependenciesMet(state, job.ticket)
    BY DEF WorkInv
  <1>3. \A u \in Ticket : state'.runs[u].phase = state.runs[u].phase
    BY DEF OnlyRun
  <1>4. DependenciesMet(state', job.ticket)
    BY <1>2, <1>3 DEF DependenciesMet, PlanAssumption
  <1>5. HasPendingReport(state', job.ticket) <=> HasPendingReport(state, job.ticket)
    BY SamePending
  <1>6. ResourcesFree(state, job.ticket) => ResourcesFree(state', job.ticket)
    BY <1>3 DEF ResourcesFree
  <1>7. pc' \in {"bind", "intent"} /\ IsOrdinary =>
            (SlotFree(state) => SlotFree(state'))
    <2>1. SUFFICES ASSUME pc' \in {"bind", "intent"}, IsOrdinary
                   PROVE  Held(state') = Held(state)
      BY DEF SlotFree
    <2> QED
      BY <2>1 DEF Held, OnlyRun
  <1>8. job.act.kind \in SemanticKinds => IsOrdinary
    BY DEF IsOrdinary
  <1> HIDE DEF JobGoes
  <1>9. pc \in WorkLabels /\ job'.ticket = job.ticket /\ job'.act = job.act
        /\ job'.before = job.before
    BY DEF JobGoes
  <1> QED
    BY <1>1, <1>2, <1>3, <1>4, <1>5, <1>6, <1>7, <1>8, <1>9 DEF WorkInv

------------------------------------------------------------------------------
(* What every step has to show: the invariant and the two step properties. *)

ReleaseStep ==
    \A t \in Ticket :
        /\ HasPendingReport(state, t)
        /\ state.runs[t].slot /\ ~ state'.runs[t].slot
        => state.runs[t].phase = "quiescent"

AdmissionStep ==
    \A t, u \in Ticket :
        /\ t # u
        /\ Resources[t] \cap Resources[u] # {}
        /\ ~ Claiming(t) /\ Claiming(t)' /\ Claiming(u)
        => HeldBefore(t)

Keeps == KernelInv' /\ ReleaseStep /\ AdmissionStep

Constants == TicketAssumption /\ PlanAssumption /\ BoundAssumption /\ ScenarioAssumption

LEMMA StoppedReleaseNothing ==
    ASSUME PendingKept PROVE ReleaseStep
  <1> SUFFICES ASSUME NEW t \in Ticket, HasPendingReport(state, t)
               PROVE  state'.runs[t].slot = state.runs[t].slot
    BY DEF ReleaseStep
  <1>1. PICK r \in PendingReports(state) : r[1] = t
    BY DEF HasPendingReport
  <1> QED
    BY <1>1 DEF PendingKept

LEMMA NoClaimAdmits ==
    ASSUME \A t \in Ticket : Claiming(t)' => Claiming(t) PROVE AdmissionStep
  BY DEF AdmissionStep

\* A step that shows nothing of what it writes.
LEMMA HiddenStep ==
    ASSUME Constants, KernelInv, RowShape', SameViews, SameReports,
           DOMAIN state.effects \subseteq DOMAIN state'.effects,
           performed' = performed, CallInv', ObsInv', WorkInv'
    PROVE  Keeps
  <1>1. RowInv' /\ CapacityInv'
    BY RowKept, CapacityKept DEF KernelInv, Constants
  <1>2. ReleaseStep
    BY SameViewsKeepPending, StoppedReleaseNothing DEF KernelInv
  <1>3. AdmissionStep
    BY NoClaimAdmits DEF SameViews, SameView, Claiming
  <1> QED
    BY <1>1, <1>2, <1>3 DEF KernelInv, Keeps

LEMMA IdleStep ==
    ASSUME Constants, KernelInv, state' = state, performed' = performed,
           CallInv', ObsInv', WorkInv'
    PROVE  Keeps
  <1>1. RowShape' /\ SameViews /\ SameReports
    BY DEF KernelInv, RowShape, SameViews, SameView, SameReports
  <1> QED
    BY <1>1, HiddenStep

LEMMA RaiseKeeps ==
    ASSUME Constants, KernelInv, Raise PROVE Keeps
  BY StopForgetsAll, IdleStep DEF Raise

\* A step that writes one Work Run, whose reports stay.
LEMMA RunStep ==
    ASSUME Constants, KernelInv, RowShape', NEW t \in Ticket, OnlyRun(t),
           SameReports, DOMAIN state.effects \subseteq DOMAIN state'.effects,
           performed' = performed, CallInv', ObsInv', WorkInv',
           ~ HasPendingReport(state, t),
           LET old == state.runs[t]
               new == state'.runs[t]
           IN  /\ new.phase # "quiescent"
               /\ new.followUp = "pending" => new.seen <= CandidateLimit
               /\ new.phase = "completed" => ~ new.slot /\ new.followUp # "pending"
               /\ new.phase \in SlotPhases => new.slot
               /\ old.phase # "completed"
               /\ DependenciesMet(state, t)
               /\ new.slot => old.slot \/ SlotFree(state) \/ Delivering(t)'
               /\ \/ Claiming(t)' => Claiming(t)
                  \/ HeldBefore(t)
                  \/ ResourcesFree(state, t)
    PROVE  Keeps
  <1>1. RowInv'
    <2>1. \A u : HasPendingReport(state', u) <=> HasPendingReport(state, u)
      BY SamePending
    <2> QED
      BY <2>1, RowStep DEF Constants, KernelInv
  <1>2. CapacityInv'
    BY CapacityStep DEF Constants, KernelInv
  <1>3. ReleaseStep
    BY OthersStayStopped, StoppedReleaseNothing DEF KernelInv
  <1>4. AdmissionStep
    <2> SUFFICES ASSUME NEW v \in Ticket, NEW u \in Ticket, v # u,
                        Resources[v] \cap Resources[u] # {},
                        ~ Claiming(v), Claiming(v)', Claiming(u)
                 PROVE  HeldBefore(v)
      BY DEF AdmissionStep
    <2>1. v = t
      BY DEF OnlyRun, Claiming
    <2> QED
      BY <2>1 DEF ResourcesFree, Claiming
  <1> QED
    BY <1>1, <1>2, <1>3, <1>4 DEF KernelInv, Keeps

------------------------------------------------------------------------------
(* Reconciliation, reports and classification.                             *)

\* A write of one Work Run to the row.
LEMMA SetRunWrites ==
    ASSUME RowShape, IsState(state), NEW t \in Ticket, NEW run, IsRun(run),
           state' = SetRun(state, t, run)
    PROVE  /\ RowShape' /\ OnlyRun(t) /\ state'.runs[t] = run
           /\ SameReports /\ state'.effects = state.effects
  <1>1. /\ state'.runs = [state.runs EXCEPT ![t] = run]
        /\ SameReports /\ state'.effects = state.effects
    BY DEF IsState, StateFields, SetRun, SameReports
  <1> QED
    BY <1>1, RunWritten

\* A Work Run that is written while it is being stopped or released.
LEMMA StoppingStep ==
    ASSUME Constants, KernelInv, LedgerInv, NEW t \in Ticket, NEW run, IsRun(run),
           state' = SetRun(state, t, run), HasPendingReport(state, t),
           run.phase = "quiescent",
           run.followUp = state.runs[t].followUp, run.seen = state.runs[t].seen,
           run.slot => state.runs[t].slot, performed' = performed
    PROVE  RowShape' /\ RowInv' /\ CapacityInv' /\ AdmissionStep
  <1>1. /\ RowShape' /\ OnlyRun(t) /\ state'.runs[t] = run
        /\ SameReports /\ state'.effects = state.effects
    BY SetRunWrites DEF KernelInv, LedgerInv
  <1>2. RunInv(t) /\ state.runs[t].phase \in StoppablePhases
    BY DEF KernelInv, RowInv, RunInv
  <1>3. DependenciesMet(state, t)
    BY <1>2 DEF RunInv, Started, StoppablePhases, SlotPhases, QuiescentPhases
  <1>4. \A u : HasPendingReport(state', u) <=> HasPendingReport(state, u)
    BY <1>1, SamePending
  <1>5. RowInv'
    <2>1. /\ run.followUp = "pending" => run.seen <= CandidateLimit
          /\ state.runs[t].phase # "completed"
          /\ run.phase \in StoppablePhases /\ run.phase \notin SlotPhases
      BY <1>2 DEF RunInv, StoppablePhases, QuiescentPhases, SlotPhases
    <2> QED
      BY <1>1, <1>3, <1>4, <2>1, RowStep DEF Constants, KernelInv
  <1>6. CapacityInv'
    BY <1>1, CapacityStep DEF Constants, KernelInv
  <1>7. AdmissionStep
    BY <1>1, NoClaimAdmits DEF OnlyRun, Claiming, QuiescentPhases
  <1> QED
    BY <1>1, <1>5, <1>6, <1>7

\* A stop is saved with the Slot, the Slot is released after it.
LEMMA ReconcileKeeps ==
    ASSUME Constants, KernelInv, LedgerInv, NEW r \in Report,
           ReconcileQuiesce(r) \/ ReconcileRelease(r) \/ ReconcileSkip(r)
    PROVE  Keeps
  <1> DEFINE t == r[1]
             run == state.runs[t]
  <1>1. t \in Ticket /\ IsRun(run)
    BY DEF Report, KernelInv, RowShape
  <1>2. pc = "reconcile" /\ pc' = pc /\ job' = job /\ after' = after /\ call' = call
    BY DEF ReconcileQuiesce, ReconcileRelease, ReconcileSkip, Visit
  <1>3. performed' = performed /\ (pc = "reconcile" => ObsInv' /\ WorkInv')
    BY <1>2
    DEF ReconcileQuiesce, ReconcileRelease, ReconcileSkip, ObsInv, WorkInv,
        WorkLabels, JobLabels
  <1>4. r \in todo => r \in state.reports
    BY DEF KernelInv, CallInv
  <1>5. CASE ReconcileQuiesce(r)
    <2>1. IsRun(Quiesced(run, r)) /\ state' = SetRun(state, t, Quiesced(run, r))
      BY <1>1, <1>5, QuiescedView DEF ReconcileQuiesce
    <2>2. r \in PendingReports(state) /\ HasPendingReport(state, t)
      BY <1>4, <1>5 DEF ReconcileQuiesce, Visit, PendingReports, HasPendingReport
    <2>3. /\ RowShape' /\ OnlyRun(t) /\ SameReports
          /\ state'.runs[t] = Quiesced(run, r)
      BY <1>1, <2>1, SetRunWrites DEF KernelInv, LedgerInv
    <2>4. RowInv' /\ CapacityInv' /\ AdmissionStep
      BY <1>1, <1>3, <2>1, <2>2, QuiescedView, StoppingStep
    <2>5. state'.runs[t].phase = "quiescent" /\ state'.runs[t].slot = run.slot
      BY <1>1, <2>3, QuiescedView
    <2>6. CallInv'
      <3>1. todo' = todo
        BY <1>5 DEF ReconcileQuiesce
      <3>2. ASSUME NEW q \in PendingReports(state)
            PROVE  \/ q \in todo
                   \/ /\ state'.runs[q[1]].phase = "quiescent"
                      /\ ~ state'.runs[q[1]].slot
        <4>1. /\ q[1] \in Ticket
              /\ \/ q \in todo
                 \/ state.runs[q[1]].phase = "quiescent" /\ ~ state.runs[q[1]].slot
          BY <1>2, <3>2 DEF KernelInv, CallInv, RowShape, PendingReports, Report
        <4> QED
          BY <2>3, <2>5, <4>1 DEF OnlyRun
      <3> QED
        BY <1>2, <2>3, <3>1, <3>2, SamePending DEF KernelInv, CallInv, SameReports
    <2>7. ReleaseStep
      BY <2>3, <2>5 DEF ReleaseStep, OnlyRun
    <2> QED
      BY <1>2, <1>3, <2>3, <2>4, <2>6, <2>7 DEF KernelInv, Keeps
  <1>6. CASE ReconcileRelease(r)
    <2>1. /\ IsRun(Released(run)) /\ state' = SetRun(state, t, Released(run))
          /\ run.phase = "quiescent" /\ todo' = todo \ {r}
      BY <1>1, <1>6, ReleasedView DEF ReconcileRelease, IsQuiesced
    <2>2. r \in PendingReports(state) /\ HasPendingReport(state, t)
      BY <1>4, <1>6 DEF ReconcileRelease, Visit, PendingReports, HasPendingReport
    <2>3. /\ RowShape' /\ OnlyRun(t) /\ SameReports
          /\ state'.runs[t] = Released(run)
      BY <1>1, <2>1, SetRunWrites DEF KernelInv, LedgerInv
    <2>4. RowInv' /\ CapacityInv' /\ AdmissionStep
      BY <1>1, <1>3, <2>1, <2>2, ReleasedView, StoppingStep
    <2>5. state'.runs[t].phase = "quiescent" /\ ~ state'.runs[t].slot
      BY <1>1, <2>1, <2>3, ReleasedView
    <2>6. CallInv'
      <3>1. ASSUME NEW q \in PendingReports(state)
            PROVE  \/ q \in todo \ {r}
                   \/ /\ state'.runs[q[1]].phase = "quiescent"
                      /\ ~ state'.runs[q[1]].slot
        <4>1. /\ q[1] \in Ticket
              /\ \/ q \in todo
                 \/ state.runs[q[1]].phase = "quiescent" /\ ~ state.runs[q[1]].slot
          BY <1>2, <3>1 DEF KernelInv, CallInv, RowShape, PendingReports, Report
        <4> QED
          BY <2>3, <2>5, <4>1 DEF OnlyRun
      <3> QED
        BY <1>2, <2>1, <2>3, <3>1, SamePending DEF KernelInv, CallInv, SameReports
    <2>7. ReleaseStep
      BY <2>1, <2>3 DEF ReleaseStep, OnlyRun
    <2> QED
      BY <1>2, <1>3, <2>3, <2>4, <2>6, <2>7 DEF KernelInv, Keeps
  <1>7. CASE ReconcileSkip(r)
    <2>1. state' = state /\ todo' = todo \ {r}
      BY <1>7 DEF ReconcileSkip
    <2>2. CallInv'
      BY <1>2, <1>7, <2>1
      DEF ReconcileSkip, IsQuiesced, KernelInv, CallInv, PendingReports
    <2> QED
      BY <1>2, <1>3, <2>1, <2>2, IdleStep
  <1> QED
    BY <1>5, <1>6, <1>7

\* Reconciliation visits every record and leaves every Work Run stopped.
LEMMA AdvanceKeeps ==
    ASSUME Constants, KernelInv, LedgerInv,
           \/ \E wake \in Wake \cup {NoWake}, report \in Report \cup {NoReport} :
                 Advance(wake, report)
           \/ ReconcileEnd
    PROVE  Keeps
  <1>1. CASE ReconcileEnd
    <2>1. CallInv'
      BY <1>1 DEF ReconcileEnd, KernelInv, CallInv, PendingReports
    <2>2. ObsInv' /\ WorkInv'
      BY <1>1
      DEF ReconcileEnd, LedgerInv, JobInv, ObsInv, WorkInv, WorkLabels, JobLabels
    <2> QED
      BY <1>1, <2>1, <2>2, IdleStep DEF ReconcileEnd
  <1>2. ASSUME NEW wake \in Wake \cup {NoWake},
               NEW report \in Report \cup {NoReport}, Advance(wake, report)
        PROVE  Keeps
    <2>1. CallInv'
      BY <1>2 DEF Advance, CallInv, PendingReports
    <2>2. ObsInv' /\ WorkInv'
      BY <1>2 DEF Advance, ObsInv, WorkInv, WorkLabels, JobLabels
    <2> QED
      BY <1>2, <2>1, <2>2, IdleStep DEF Advance
  <1> QED
    BY <1>1, <1>2

\* A new record is durable together with its Work Run, before that is stopped.
LEMMA RecordReportKeeps ==
    ASSUME Constants, KernelInv, LedgerInv, NEW r \in Report, NEW run, IsRun(run),
           NEW return, RecordReport(r, run, return), pc \notin {"idle", "reconcile"},
           return = "stopped" => job.ticket \in Ticket,
           LET old == state.runs[r[1]]
           IN  r \notin state.reports =>
                  /\ run.phase \in StoppablePhases
                  /\ run.slot = old.slot /\ run.seen = old.seen
                  /\ run.followUp \in {old.followUp, "none"}
                  /\ run.phase \in SlotPhases => run.slot
                  /\ DependenciesMet(state, r[1])
                  /\ \/ run.phase = old.phase
                     \/ old.phase = "pending" /\ HeldBefore(r[1])
                     \/ old.phase = "pending" /\ ResourcesFree(state, r[1])
    PROVE  Keeps
  <1> DEFINE t == r[1]
             old == state.runs[t]
  <1>1. t \in Ticket /\ RunInv(t)
    BY DEF Report, KernelInv, RowInv
  <1>2. /\ pc' = "reconcile" /\ after' = return /\ todo' = state.reports \cup {r}
        /\ call' = call /\ job' = job /\ performed' = performed
    BY DEF RecordReport
  <1>3. ObsInv' /\ WorkInv'
    BY <1>2 DEF ObsInv, WorkInv, WorkLabels, JobLabels
  <1>4. CASE r \in state.reports
    <2>1. state' = state /\ todo' = state.reports
      BY <1>2, <1>4 DEF RecordReport
    <2>2. CallInv'
      BY <1>2, <2>1 DEF KernelInv, CallInv, PendingReports
    <2> QED
      BY <1>2, <1>3, <2>1, <2>2, IdleStep
  <1>5. CASE r \notin state.reports
    <2>1. /\ state'.runs = [state.runs EXCEPT ![t] = run]
          /\ state'.effects = state.effects
          /\ state'.reports = state.reports \cup {r}
          /\ state'.resolved = state.resolved
      BY <1>5 DEF RecordReport, SetRun, LedgerInv, IsState, StateFields
    <2>2. /\ RowShape' /\ OnlyRun(t) /\ state'.runs[t] = run
      BY <1>1, <2>1 DEF KernelInv, RowShape, OnlyRun
    <2>3. /\ PendingReports(state') \subseteq todo'
          /\ HasPendingReport(state', t)
          /\ \A u : u # t => (HasPendingReport(state', u) <=> HasPendingReport(state, u))
      BY <1>2, <1>5, <2>1
      DEF PendingReports, HasPendingReport, KernelInv, RowShape
    <2>4. old.phase # "completed"
      BY <1>1, <1>5 DEF StoppablePhases, SlotPhases, QuiescentPhases
    <2>5. RowInv'
      <3>1. /\ run.followUp = "pending" => run.seen <= CandidateLimit
            /\ run.phase # "completed"
        BY <1>1, <1>5 DEF RunInv, StoppablePhases, SlotPhases, QuiescentPhases
      <3> QED
        BY <1>1, <1>2, <1>5, <2>2, <2>3, <2>4, <3>1, RowStep DEF Constants, KernelInv
    <2>6. CapacityInv'
      BY <1>1, <1>5, <2>1, <2>2, CapacityStep DEF Constants, KernelInv
    <2>7. CallInv'
      BY <1>2, <2>1, <2>3 DEF KernelInv, CallInv
    <2>8. ReleaseStep
      BY <1>5, <2>2 DEF ReleaseStep, OnlyRun
    <2>9. AdmissionStep
      <3> SUFFICES ASSUME NEW v \in Ticket, NEW u \in Ticket, v # u,
                          Resources[v] \cap Resources[u] # {},
                          ~ Claiming(v), Claiming(v)', Claiming(u)
                   PROVE  HeldBefore(v)
        BY DEF AdmissionStep
      <3>1. v = t
        BY <2>2 DEF OnlyRun, Claiming
      <3> QED
        BY <1>5, <2>2, <3>1 DEF ResourcesFree, Claiming
    <2> QED
      BY <1>3, <2>2, <2>5, <2>6, <2>7, <2>8, <2>9 DEF KernelInv, Keeps
  <1> QED
    BY <1>4, <1>5

LEMMA TakeReportKeeps ==
    ASSUME Constants, KernelInv, LedgerInv, TakeReport PROVE Keeps
  <1> DEFINE r == call.report
             t == r[1]
  <1>1. CASE r = NoReport
    <2>1. /\ pc = "report" /\ pc' = "classify" /\ call' = call /\ todo' = todo
          /\ after' = after /\ state' = state /\ performed' = performed /\ job' = job
      BY <1>1 DEF TakeReport, Goto
    <2>2. CallInv' /\ ObsInv' /\ WorkInv'
      BY <2>1
      DEF KernelInv, CallInv, ObsInv, WorkInv, WorkLabels, JobLabels, PendingReports
    <2> QED
      BY <2>1, <2>2, IdleStep
  <1>2. CASE r # NoReport /\ ~ ReportAdmissible(r, state.runs[t])
    BY <1>2, RaiseKeeps DEF TakeReport
  <1>3. CASE r # NoReport /\ ReportAdmissible(r, state.runs[t])
    <2>1. /\ RecordReport(r, state.runs[t], "classify") /\ pc = "report"
          /\ r \in state.reports \/ state.runs[t].phase \in StoppablePhases
      BY <1>3 DEF TakeReport, ReportAdmissible
    <2>2. r \in Report /\ t \in Ticket
      BY <1>3 DEF KernelInv, CallInv, Report
    <2>3. IsRun(state.runs[t]) /\ RunInv(t)
      BY <2>2 DEF KernelInv, RowShape, RowInv
    <2>4. r \notin state.reports => DependenciesMet(state, t)
      BY <2>1, <2>3
      DEF RunInv, Started, StoppablePhases, SlotPhases, QuiescentPhases
    <2>5. state.runs[t].phase \in SlotPhases => state.runs[t].slot
      BY <2>3 DEF RunInv
    <2> QED
      BY <2>1, <2>2, <2>3, <2>4, <2>5, RecordReportKeeps
  <1> QED
    BY <1>1, <1>2, <1>3

\* A resumed Work Run waits for admission again, without a Slot.
LEMMA ApplyResumeKeeps ==
    ASSUME Constants, KernelInv, LedgerInv, ApplyResume PROVE Keeps
  <1>1. /\ pc = "classify" /\ pc' = "wake" /\ call' = call /\ todo' = todo
        /\ after' = after /\ performed' = performed /\ job' = job /\ after = "idle"
    BY DEF ApplyResume, Goto, LedgerInv, JobInv
  <1>2. /\ state'.reports = state.reports /\ state'.resolved = state.reports
        /\ state'.effects = state.effects
        /\ state'.runs =
              [t \in Ticket |->
                 IF HasPendingReport(state, t)
                 THEN Resumed(state.runs[t],
                              {r \in PendingReports(state) : r[1] = t})
                 ELSE state.runs[t]]
    BY DEF ApplyResume, LedgerInv, IsState, StateFields
  <1>3. PendingReports(state') = {} /\ \A u : ~ HasPendingReport(state', u)
    BY <1>2 DEF PendingReports, HasPendingReport
  <1>4. ASSUME NEW t \in Ticket, HasPendingReport(state, t)
        PROVE  /\ state.runs[t].phase = "quiescent" /\ ~ state.runs[t].slot
               /\ IsRun(state'.runs[t])
               /\ state'.runs[t].phase = "pending" /\ ~ state'.runs[t].slot
               /\ state'.runs[t].followUp = state.runs[t].followUp
               /\ state'.runs[t].seen = state.runs[t].seen
    <2>1. IsRun(state.runs[t])
      BY DEF KernelInv, RowShape
    <2>2. state.runs[t].phase = "quiescent" /\ ~ state.runs[t].slot
      BY <1>1, <1>4 DEF KernelInv, CallInv, HasPendingReport
    <2> DEFINE new == Resumed(state.runs[t],
                              {r \in PendingReports(state) : r[1] = t})
    <2>3. /\ IsRun(new) /\ new.phase = "pending" /\ ~ new.slot
          /\ new.followUp = state.runs[t].followUp
          /\ new.seen = state.runs[t].seen
      BY <2>1, ResumedView
    <2>4. state'.runs[t] = new
      BY <1>2, <1>4
    <2> HIDE DEF new
    <2> QED
      BY <2>2, <2>3, <2>4
  <1>5. \A t \in Ticket : ~ HasPendingReport(state, t) => state'.runs[t] = state.runs[t]
    BY <1>2
  <1>6. RowShape'
    BY <1>2, <1>4, <1>5 DEF KernelInv, RowShape
  <1>7. RowInv'
    <2>1. ASSUME NEW u \in Ticket, DependenciesMet(state, u)
          PROVE  DependenciesMet(state', u)
      <3>1. \A v \in Ticket : state.runs[v].phase = "completed" =>
                                  state'.runs[v].phase = "completed"
        BY <1>4, <1>5
      <3> QED
        BY <2>1, <3>1 DEF DependenciesMet, TerminalPhases, Constants, PlanAssumption
    <2>2. ASSUME NEW t \in Ticket PROVE RunInv(t)'
      <3>1. RunInv(t)
        BY DEF KernelInv, RowInv
      <3>2. CASE HasPendingReport(state, t)
        <4>1. DependenciesMet(state', t)
          BY <1>4, <2>1, <3>1, <3>2 DEF RunInv, Started
        <4> QED
          BY <1>3, <1>4, <3>1, <3>2, <4>1 DEF RunInv, SlotPhases
      <3>3. CASE ~ HasPendingReport(state, t)
        <4>1. Started(t)' => Started(t)
          BY <1>1, <1>5, <3>3 DEF Started, Performed
        <4> QED
          BY <1>3, <1>5, <2>1, <3>1, <3>3, <4>1 DEF RunInv
      <3> QED
        BY <3>2, <3>3
    <2> QED
      BY <2>2 DEF RowInv
  <1>8. CapacityInv'
    <2>1. IsFiniteSet(Bounded) /\ Bounded' \subseteq Bounded
      BY <1>2, <1>4, <1>5, FS_Subset
      DEF Constants, TicketAssumption, Bounded, Held, Delivering
    <2>2. IsFiniteSet(Bounded') /\ Cardinality(Bounded') <= Cardinality(Bounded)
      BY <2>1, FS_Subset
    <2>3. Cardinality(Bounded') \in Nat /\ Cardinality(Bounded) \in Nat
      BY <2>1, <2>2, FS_CardinalityType
    <2> QED
      BY <2>2, <2>3 DEF KernelInv, CapacityInv, Constants, BoundAssumption
  <1>9. CallInv' /\ ObsInv' /\ WorkInv'
    BY <1>1, <1>2, <1>3 DEF KernelInv, CallInv, ObsInv, WorkInv, WorkLabels, JobLabels
  <1>10. ReleaseStep /\ AdmissionStep
    BY <1>4, <1>5, NoClaimAdmits DEF ReleaseStep, Claiming
  <1> QED
    BY <1>6, <1>7, <1>8, <1>9, <1>10 DEF KernelInv, Keeps

\* Classifications and wakes.
LEMMA ClassificationKeeps ==
    ASSUME Constants, KernelInv, LedgerInv,
           \/ \E kind \in Classifications : Classify(kind)
           \/ ClassificationConflict \/ NotResumed \/ RegisterWake \/ Return
    PROVE  Keeps
  <1>1. CASE ClassificationConflict \/ Return
    BY <1>1, RaiseKeeps DEF ClassificationConflict, Return
  <1>2. CASE NotResumed
    <2>1. CallInv' /\ ObsInv' /\ WorkInv'
      BY <1>2
      DEF NotResumed, Goto, KernelInv, CallInv, ObsInv, WorkInv, WorkLabels,
          JobLabels, PendingReports
    <2> QED
      BY <1>2, <2>1, IdleStep DEF NotResumed
  <1>3. ASSUME \/ \E kind \in Classifications : Classify(kind)
               \/ RegisterWake
        PROVE  Keeps
    <2>1. /\ state'.runs = state.runs /\ SameReports
          /\ state'.effects = state.effects /\ performed' = performed
      BY <1>3
      DEF Classify, RegisterWake, LedgerInv, IsState, StateFields, SameReports
    <2>2. RowShape' /\ SameViews
      BY <2>1 DEF KernelInv, RowShape, SameReports, SameViews, SameView
    <2>3. /\ pc \in {"classify", "wake"} /\ pc' \in {"classify", "scan"}
          /\ todo' = todo /\ after' = after /\ job' = job
          /\ call'.report = call.report
      <3>1. CASE RegisterWake
        <4>1. PICK fresh : call' = [call EXCEPT !.fresh = fresh]
          BY <3>1 DEF RegisterWake
        <4> QED
          BY <3>1, <4>1 DEF RegisterWake
      <3>2. CASE \E kind \in Classifications : Classify(kind)
        BY <3>2 DEF Classify
      <3> QED
        BY <1>3, <3>1, <3>2
    <2>4. CallInv' /\ ObsInv' /\ WorkInv'
      BY <2>1, <2>3, SamePending
      DEF KernelInv, CallInv, ObsInv, WorkInv, WorkLabels, JobLabels, SameReports
    <2> QED
      BY <2>1, <2>2, <2>4, HiddenStep
  <1> QED
    BY <1>1, <1>2, <1>3

------------------------------------------------------------------------------
(* The scan and the start of a job.                                        *)

LEMMA DueIsSelected ==
    ASSUME NEW s, NEW wake, NEW t, IsNextDue(s, wake, t)
    PROVE  \/ FollowUpPending(s.runs[t]) \/ StaleSelected(s.runs[t])
           \/ WakeSelected(s.runs[t], wake) \/ ParkedSelected(s, t, wake)
           \/ DeliverySelected(s, t, wake) \/ AdmissionSelected(s, t)
  <1>1. PICK i \in 1 .. 6 : t \in Scans(s, wake)[i]
    BY DEF IsNextDue
  <1>2. i = 1 \/ i = 2 \/ i = 3 \/ i = 4 \/ i = 5 \/ i = 6
    BY <1>1
  <1> QED
    BY <1>1, <1>2 DEF Scans

\* A Work Run that is due has its dependencies, is not stopped and has a Slot
\* or finds one, deliveries and follow-ups apart; a new one finds its resources.
LEMMA DueFacts ==
    ASSUME KernelInv, NEW t \in Ticket, Due(t)
    PROVE  LET run == state.runs[t]
           IN  /\ DependenciesMet(state, t)
               /\ run.phase # "completed"
               /\ run.followUp # "pending" =>
                     /\ ~ HasPendingReport(state, t)
                     /\ run.phase # "quiescent"
                     /\ \/ run.slot \/ SlotFree(state)
                        \/ run.phase = "accepted_awaiting_delivery"
                     /\ run.phase = "pending" /\ ~ run.slot =>
                           ResourcesFree(state, t)
  <1> DEFINE run == state.runs[t]
  <1>1. \/ FollowUpPending(run) \/ StaleSelected(run)
        \/ WakeSelected(run, ScanWake) \/ ParkedSelected(state, t, ScanWake)
        \/ DeliverySelected(state, t, ScanWake) \/ AdmissionSelected(state, t)
    BY DueIsSelected DEF Due
  <1>2. RunInv(t)
    BY DEF KernelInv, RowInv
  <1>3. HasPendingReport(state, t) => run.phase = "quiescent" /\ ~ run.slot
    BY DEF Due, KernelInv, CallInv, HasPendingReport
  <1>4. CASE run.followUp = "pending"
    BY <1>2, <1>4 DEF RunInv, Started
  <1>5. CASE run.followUp # "pending"
    <2>1. \/ run.phase \in SlotPhases \/ run.slot
          \/ run.phase = "parked" /\ SlotFree(state)
          \/ run.phase = "accepted_awaiting_delivery"
          \/ AdmissionSelected(state, t)
      BY <1>1, <1>5
      DEF FollowUpPending, StaleSelected, WakeSelected, ParkedSelected,
          DeliverySelected
    <2>2. /\ run.slot \/ SlotFree(state) \/ run.phase = "accepted_awaiting_delivery"
          /\ run.phase = "pending" /\ ~ run.slot => ResourcesFree(state, t)
      BY <1>2, <2>1 DEF RunInv, AdmissionSelected, SlotPhases
    <2>3. run.phase # "completed" /\ DependenciesMet(state, t)
      BY <1>2, <2>1 DEF RunInv, Started, AdmissionSelected, SlotPhases
    <2>4. run.phase # "quiescent" /\ ~ HasPendingReport(state, t)
      BY <1>2, <1>3, <2>1 DEF RunInv, AdmissionSelected, SlotPhases
    <2> QED
      BY <2>2, <2>3, <2>4
  <1> QED
    BY <1>4, <1>5

LEMMA StartExhaustedKeeps ==
    ASSUME Constants, KernelInv, LedgerInv, NEW t \in Ticket, StartExhausted(t)
    PROVE  Keeps
  <1> DEFINE run == state.runs[t]
  <1>1. /\ Due(t) /\ pc = "scan" /\ run.seen > CandidateLimit /\ performed' = performed
        /\ state' = SetRun(state, t, Exhausted(run)) /\ Loop(state', t, FALSE)
    BY DEF StartExhausted, Due, BudgetExhausted, world
  <1>2. IsRun(run) /\ RunInv(t)
    BY DEF KernelInv, RowShape, RowInv
  <1>3. run.followUp # "pending"
    BY <1>1, <1>2 DEF RunInv, IsRun, CandidateLimit
  <1>4. /\ DependenciesMet(state, t) /\ run.phase # "completed"
        /\ ~ HasPendingReport(state, t) /\ run.phase # "quiescent"
        /\ run.phase = "pending" /\ ~ run.slot => ResourcesFree(state, t)
    BY <1>1, <1>3, DueFacts
  <1>5. /\ RowShape' /\ OnlyRun(t) /\ SameReports /\ state'.effects = state.effects
        /\ state'.runs[t] = Exhausted(run)
    BY <1>1, <1>2, ExhaustedView, SetRunWrites DEF KernelInv, LedgerInv
  <1>6. /\ state'.runs[t].phase = "decision" /\ ~ state'.runs[t].slot
        /\ state'.runs[t].followUp = run.followUp
    BY <1>2, <1>5, ExhaustedView
  <1>7. PendingKept
    BY <1>4, <1>5, OthersStayStopped DEF KernelInv
  <1>8. CallInv' /\ ObsInv' /\ WorkInv'
    BY <1>1, <1>5, <1>7, LoopPos DEF KernelInv, LedgerInv, JobInv
  <1>9. \/ Claiming(t) \/ HeldBefore(t) \/ ResourcesFree(state, t)
    BY <1>1, <1>4 DEF Claiming, HeldBefore, TerminalPhases, QuiescentPhases
  <1> QED
    BY <1>1, <1>3, <1>4, <1>5, <1>6, <1>8, <1>9, RunStep DEF SlotPhases

\* A job starts on what the scan found.
LEMMA StartKeeps ==
    ASSUME Constants, KernelInv, LedgerInv, NEW t \in Ticket,
           NEW kind \in ActionKinds, NEW n, NEW label \in {"bind", "intent"},
           Start(t, ActionOf(kind, t, n), label), pc \notin {"idle", "reconcile"},
           LET run == state.runs[t]
           IN  /\ DependenciesMet(state, t)
               /\ run.phase # "completed"
               /\ run.seen <= CandidateLimit
               /\ kind # "stale_follow_up" =>
                     ~ HasPendingReport(state, t) /\ run.followUp # "pending"
               /\ kind \in StaleKinds => run.phase \in SlotPhases
               /\ kind \in SemanticKinds => run.slot \/ SlotFree(state)
               /\ /\ kind \in SemanticKinds \cup {"delivery"}
                  /\ run.phase = "pending" /\ ~ run.slot
                  => ResourcesFree(state, t)
    PROVE  Keeps
  <1> DEFINE act == ActionOf(kind, t, n)
  <1>1. /\ pc' = label /\ call' = call /\ todo' = todo /\ after' = after
        /\ after = "idle" /\ state' = state /\ performed' = performed
    BY DEF Start, Goto, LedgerInv, JobInv
  <1>2. /\ job'.ticket = t /\ job'.act = act
        /\ job'.before = Projection(state.runs[t])
    BY DEF Start
  <1>3. job'.act.kind = kind /\ job'.act.ticket = t /\ job'.before[2] = state.runs[t].slot
    BY <1>2 DEF ActionOf, Projection
  <1>4. CallInv'
    BY <1>1 DEF KernelInv, CallInv, PendingReports
  <1>5. ObsInv'
    BY <1>1 DEF ObsInv
  <1>6. IsOrdinary' <=> kind \in SemanticKinds \cup {"delivery"}
    BY <1>3 DEF IsOrdinary
  <1>7. WorkInv'
    BY <1>1, <1>2, <1>3, <1>6 DEF WorkInv, StaleKinds
  <1> QED
    BY <1>1, <1>4, <1>5, <1>7, IdleStep

LEMMA ScanStartKeeps ==
    ASSUME Constants, KernelInv, LedgerInv, NEW t \in Ticket,
           StartFollowUp(t) \/ StartStale(t) \/ StartOrdinary(t)
    PROVE  Keeps
  <1> DEFINE run == state.runs[t]
  <1>1. Due(t) /\ pc = "scan" /\ ~ BudgetExhausted(run)
    BY DEF StartFollowUp, StartStale, StartOrdinary, Due
  <1>2. IsRun(run) /\ run.seen <= CandidateLimit
    BY <1>1 DEF KernelInv, RowShape, IsRun, BudgetExhausted, CandidateLimit
  <1>3. CASE StartFollowUp(t)
    BY <1>1, <1>2, <1>3, DueFacts, StartKeeps
    DEF StartFollowUp, ActionKinds, StaleKinds, SemanticKinds
  <1>4. CASE StartStale(t)
    BY <1>1, <1>2, <1>4, DueFacts, StartKeeps
    DEF StartStale, FollowUpPending, StalePerformed, ActionKinds, SemanticKinds
  <1>5. CASE StartOrdinary(t)
    <2>1. run.followUp # "pending"
      BY <1>5 DEF StartOrdinary, FollowUpPending
    <2>2. PICK kind, n :
              /\ kind \in SemanticKinds \cup {"delivery"}
              /\ Start(t, ActionOf(kind, t, n), "bind")
              /\ run.phase = "accepted_awaiting_delivery" => kind = "delivery"
      BY <1>5 DEF StartOrdinary, OrdinaryAction, DeliveryAction, SemanticKinds
    <2>3. /\ kind \in ActionKinds /\ kind # "stale_follow_up"
          /\ kind \notin StaleKinds
          /\ kind \in SemanticKinds => run.slot \/ SlotFree(state)
      BY <1>1, <2>1, <2>2, DueFacts DEF ActionKinds, StaleKinds, SemanticKinds
    <2> QED
      BY <1>1, <1>2, <2>1, <2>2, <2>3, DueFacts, StartKeeps
  <1> QED
    BY <1>3, <1>4, <1>5

LEMMA StartDiagnosisKeeps ==
    ASSUME Constants, KernelInv, LedgerInv, StartDiagnosis PROVE Keeps
  <1>1. /\ pc = "settle" /\ pc \in WorkLabels /\ job.act.kind = "stale_readback"
        /\ ~ MayExceed
    BY DEF StartDiagnosis, WorkLabels, JobLabels, MayExceed, IsOrdinary, SemanticKinds
  <1> QED
    BY <1>1, StartKeeps
    DEF StartDiagnosis, KernelInv, WorkInv, ActionKinds, StaleKinds, SemanticKinds

------------------------------------------------------------------------------
(* What the effect owner can answer.                                       *)

LEMMA RuntimeAnswers ==
    ASSUME BoundAssumption, ScenarioAssumption, NEW run, IsRun(run), NEW act,
           NEW obs \in RuntimeObservations(run, act)
    PROVE  /\ obs.candidate \in Nat /\ obs.accepted \in Nat
           /\ obs.report = NoReport => obs.phase # "quiescent"
           /\ obs.report # NoReport => obs.report \in Report /\ obs.report[1] = act.ticket
  <1>1. SeenSoFar(run) \subseteq Nat
    BY DEF SeenSoFar, IsRun, BoundAssumption
  <1>2. \A r \in Report : r # NoReport
    BY DEF Report, NoReport
  <1>3. \/ \E p \in RuntimePhases \ {"accepted_awaiting_delivery", "quiescent"}, c \in Nat :
             obs.phase = p /\ obs.candidate = c /\ obs.accepted = 0 /\ obs.report = NoReport
        \/ \E c \in Nat :
             /\ obs.phase = "accepted_awaiting_delivery" /\ obs.candidate = c
             /\ obs.accepted = c /\ obs.report = NoReport
        \/ /\ obs.phase = "runtime_unavailable" /\ obs.candidate = 0
           /\ obs.accepted = 0 /\ obs.report = NoReport
        \/ \E r \in Report :
             /\ obs.phase = "quiescent" /\ obs.candidate = 0 /\ obs.accepted = 0
             /\ obs.report = r /\ r[1] = act.ticket
    BY <1>1 DEF RuntimeObservations
  <1> QED
    BY <1>2, <1>3

LEMMA AnswerFacts ==
    ASSUME Constants, KernelInv, pc \in WorkLabels, NEW obs \in Observations
    PROVE  /\ IsOrdinary =>
                 /\ obs.candidate \in Nat /\ obs.accepted \in Nat
                 /\ obs.report = NoReport => obs.phase # "quiescent"
                 /\ obs.report # NoReport =>
                       obs.report \in Report /\ obs.report[1] = job.ticket
           /\ job.act.kind = "stale_readback" =>
                 /\ obs.phase \in StaleStates
                 /\ obs.candidate \in Nat
                 /\ obs.candidate # 0 => obs.phase = "CANDIDATE_RECEIVED"
  <1> DEFINE run == state.runs[job.ticket]
  <1>1. /\ job.ticket \in Ticket /\ job.act.ticket = job.ticket
        /\ job.act.kind \in ActionKinds
    BY DEF KernelInv, WorkInv
  <1>2. IsRun(run)
    BY <1>1 DEF KernelInv, RowShape
  <1>3. CASE job.act.kind \in SemanticKinds
    <2>1. obs \in RuntimeObservations(run, job.act)
      BY <1>3 DEF Observations, SemanticKinds
    <2> QED
      BY <1>1, <1>2, <1>3, <2>1, RuntimeAnswers DEF Constants, SemanticKinds
  <1>4. CASE job.act.kind = "delivery"
    <2>1. obs \in DeliveryObservations(run)
      BY <1>4 DEF Observations, SemanticKinds
    <2> QED
      BY <1>2, <1>4, <2>1
      DEF DeliveryObservations, IsRun, Constants, ScenarioAssumption, SemanticKinds
  <1>5. CASE job.act.kind = "stale_readback"
    <2>1. /\ obs \in StaleObservations(run)
          /\ (obs.candidate # 0) <=> (obs.phase = "CANDIDATE_RECEIVED")
      BY <1>5 DEF Observations, SemanticKinds
    <2>2. SeenSoFar(run) \subseteq Nat
      BY <1>2 DEF SeenSoFar, IsRun, Constants, BoundAssumption
    <2> QED
      BY <1>5, <2>1, <2>2
      DEF StaleObservations, Constants, ScenarioAssumption, IsOrdinary, SemanticKinds
  <1>6. CASE job.act.kind \notin SemanticKinds \cup {"delivery", "stale_readback"}
    BY <1>6 DEF IsOrdinary
  <1> QED
    BY <1>3, <1>4, <1>5, <1>6

------------------------------------------------------------------------------
(* The steps of a job.                                                     *)

\* A step of a job that shows nothing of what it writes.
LEMMA HiddenJobStep ==
    ASSUME Constants, KernelInv, RowShape', JobGoes, OnlyRun(job.ticket),
           SameReports, DOMAIN state.effects \subseteq DOMAIN state'.effects,
           SameView(state.runs[job.ticket], state'.runs[job.ticket]),
           performed' = performed, ObsInv',
           MayExceed => MayExceed',
           pc' \in {"bind", "intent"} => pc \in {"bind", "intent"},
           pc \in {"bind", "intent"} => pc' \in {"bind", "intent"} \/ ~ IsOrdinary
    PROVE  Keeps
  <1> DEFINE t == job.ticket
  <1>1. t \in Ticket
    BY DEF KernelInv, WorkInv, JobGoes
  <1>2. SameViews
    BY <1>1 DEF SameViews, SameView, OnlyRun
  <1>3. CallInv'
    BY <1>2, JobCall, SameViewsKeepPending DEF KernelInv
  <1>4. WorkInv'
    <2>1. /\ IsOrdinary /\ pc' \notin {"bind", "intent"} => state.runs[t].slot
          /\ state.runs[t].seen <= CandidateLimit \/ MayExceed
      BY DEF KernelInv, WorkInv, JobGoes
    <2> QED
      BY <2>1, JobWork DEF KernelInv, Constants, SameView
  <1> QED
    BY <1>2, <1>3, <1>4, HiddenStep

\* The row of the job in these steps.
JobRow ==
    /\ job.ticket \in Ticket /\ IsRun(state.runs[job.ticket])
    /\ RunInv(job.ticket)
    /\ IsState(state) /\ IsJob /\ after = "idle"

LEMMA JobRowHolds ==
    ASSUME KernelInv, LedgerInv, pc \in WorkLabels PROVE JobRow
  BY DEF KernelInv, LedgerInv, WorkInv, RowShape, RowInv, JobInv, JobRow, WorkLabels,
         JobLabels

LEMMA BindRequestKeeps ==
    ASSUME Constants, KernelInv, LedgerInv, BindRequest PROVE Keeps
  <1>1. /\ pc = "bind" /\ pc' = "intent" /\ job' = job /\ performed' = performed
        /\ call' = call /\ todo' = todo /\ after' = after
    BY DEF BindRequest, Goto
  <1>2. JobRow
    BY <1>1, JobRowHolds DEF WorkLabels, JobLabels
  <1>3. JobGoes
    BY <1>1, <1>2 DEF JobGoes, JobRow, WorkLabels, JobLabels
  <1>4. /\ RowShape' /\ OnlyRun(job.ticket) /\ SameReports
        /\ state'.effects = state.effects
        /\ SameView(state.runs[job.ticket], state'.runs[job.ticket])
    <2>1. CASE job.act.kind = "delivery"
      <3> DEFINE run == [state.runs[job.ticket] EXCEPT !.request = TRUE]
      <3>1. IsRun(run) /\ SameView(state.runs[job.ticket], run)
        BY <1>2 DEF JobRow, IsRun, RunFields, SameView
      <3>2. /\ state'.runs = [state.runs EXCEPT ![job.ticket] = run]
            /\ SameReports /\ state'.effects = state.effects
        BY <1>2, <2>1 DEF BindRequest, JobRow, IsState, StateFields, SameReports
      <3> HIDE DEF run
      <3> QED
        BY <1>2, <3>1, <3>2, RunWritten DEF KernelInv, JobRow
    <2>2. CASE job.act.kind # "delivery"
      BY <2>2
      DEF BindRequest, KernelInv, RowShape, OnlyRun, SameReports, SameView
    <2> QED
      BY <2>1, <2>2
  <1>5. ObsInv' /\ ~ MayExceed
    BY <1>1 DEF ObsInv, MayExceed
  <1> QED
    BY <1>1, <1>3, <1>4, <1>5, HiddenJobStep

\* An intent takes the Slot of a semantic action, with room for it, or of a
\* delivery.
LEMMA IntentKeeps ==
    ASSUME Constants, KernelInv, LedgerInv, Intent PROVE Keeps
  <1>0. PICK t : t = job.ticket
    OBVIOUS
  <1> DEFINE a == job.act
             s == Intended(state, a)
             old == state.runs[t]
  <1>1. /\ pc = "intent" /\ pc' = "readback" /\ job' = job /\ performed' = performed
        /\ call' = call /\ todo' = todo /\ after' = after
    BY DEF Intent, Goto
  <1>2. JobRow
    BY <1>1, JobRowHolds DEF WorkLabels, JobLabels
  <1>3. JobGoes
    BY <1>1, <1>2 DEF JobGoes, JobRow, WorkLabels, JobLabels
  <1>4. ObsInv' /\ ~ MayExceed
    BY <1>1 DEF ObsInv, MayExceed
  <1>5. /\ IsState(s) /\ s.runs = state.runs /\ s.reports = state.reports
        /\ s.resolved = state.resolved
        /\ DOMAIN s.effects = DOMAIN state.effects \cup {a}
    BY <1>0, <1>2 DEF Intended, Effect, SetEffect, JobRow, IsState, StateFields
  <1>6. CASE IsOrdinary
    <2> DEFINE run == [old EXCEPT !.last = a, !.bound = TRUE, !.slot = TRUE,
                                  !.claim = "held"]
    <2>1. /\ IsRun(run) /\ run.phase = old.phase /\ run.slot
          /\ run.followUp = old.followUp /\ run.seen = old.seen
      BY <1>0, <1>2 DEF JobRow, IsRun, RunFields
    <2>2. state' = SetRun(s, t, run)
      BY <1>0, <1>5, <1>6 DEF Intent, IsOrdinary, SemanticKinds
    <2> HIDE DEF run, s
    <2>3. /\ state'.runs = [state.runs EXCEPT ![t] = run]
          /\ state'.effects = s.effects /\ SameReports
      BY <1>5, <2>2 DEF SetRun, IsState, StateFields, SameReports
    <2>4. RowShape' /\ OnlyRun(t) /\ state'.runs[t] = run
      BY <1>0, <1>2, <2>1, <2>3, RunWritten DEF KernelInv, JobRow
    <2>5. /\ ~ HasPendingReport(state, t) /\ old.followUp # "pending"
          /\ old.phase # "completed" /\ DependenciesMet(state, t)
          /\ old.seen <= CandidateLimit /\ a.ticket = t
          /\ a.kind \in SemanticKinds => old.slot \/ SlotFree(state)
      BY <1>0, <1>1, <1>4, <1>6
      DEF KernelInv, WorkInv, WorkLabels, JobLabels, IsOrdinary, SemanticKinds
    <2>6. old.phase # "quiescent"
      BY <1>0, <1>2, <2>5 DEF JobRow, RunInv
    <2>7. CallInv'
      BY <1>0, <1>2, <1>3, <2>3, <2>4, <2>5, OthersStayStopped, JobCall DEF KernelInv, JobRow
    <2>8. WorkInv'
      BY <1>0, <1>1, <1>3, <2>1, <2>3, <2>4, <2>5, JobWork DEF KernelInv, Constants
    <2>9. a.kind = "delivery" => Delivering(t)'
      BY <1>5, <2>3, <2>5 DEF Delivering
    <2>10. old.slot \/ SlotFree(state) \/ Delivering(t)'
      BY <1>6, <2>5, <2>9 DEF IsOrdinary
    <2>11. Claiming(t)' => Claiming(t)
      BY <2>1, <2>4 DEF Claiming
    <2> QED
      BY <1>0, <1>1, <1>2, <1>4, <1>5, <2>1, <2>3, <2>4, <2>5, <2>6, <2>7, <2>8, <2>10,
         <2>11, RunStep DEF JobRow
  <1>7. CASE ~ IsOrdinary
    <2>1. /\ RowShape' /\ OnlyRun(t) /\ SameReports
          /\ state'.effects = s.effects /\ SameView(old, state'.runs[t])
      <3>1. CASE job.act.kind = "stale_diagnosis"
        <4> DEFINE run == [old EXCEPT !.diagnosed = @ \cup {a.n},
                                      !.last = ActionOf("stale_readback", t, a.n)]
        <4>1. IsRun(run) /\ SameView(old, run)
          BY <1>0, <1>2 DEF JobRow, IsRun, RunFields, SameView
        <4>2. state' = SetRun(s, t, run)
          BY <1>0, <1>5, <1>7, <3>1 DEF Intent
        <4> HIDE DEF run, s
        <4>3. /\ state'.runs = [state.runs EXCEPT ![t] = run]
              /\ state'.effects = s.effects /\ SameReports
          BY <1>5, <4>2 DEF SetRun, IsState, StateFields, SameReports
        <4> QED
          BY <1>0, <1>2, <4>1, <4>3, RunWritten DEF KernelInv, JobRow
      <3>2. CASE job.act.kind # "stale_diagnosis"
        <4>1. state' = s
          BY <1>7, <3>2 DEF Intent
        <4> HIDE DEF s
        <4> QED
          BY <1>5, <4>1 DEF KernelInv, RowShape, OnlyRun, SameReports, SameView
      <3> QED
        BY <3>1, <3>2
    <2> HIDE DEF s
    <2> QED
      BY <1>0, <1>1, <1>3, <1>4, <1>5, <1>7, <2>1, HiddenJobStep
  <1> QED
    BY <1>6, <1>7

\* An answer is one the effect owner can give.
LEMMA AnsweredFacts ==
    ASSUME Constants, KernelInv, LedgerInv, pc \in {"readback", "execute"},
           NEW obs \in Observations, Answered(obs), state' = state
    PROVE  CallInv' /\ ObsInv' /\ WorkInv'
  <1>1. JobRow /\ pc \in WorkLabels
    BY JobRowHolds DEF WorkLabels, JobLabels
  <1>2. /\ pc' = "apply" /\ call' = call /\ todo' = todo /\ after' = "idle"
        /\ job'.obs = obs /\ job'.act = job.act /\ job'.ticket = job.ticket
        /\ job'.before = job.before
    BY <1>1 DEF Answered, Goto, JobRow, IsJob, JobFields
  <1>3. JobGoes
    BY <1>1, <1>2 DEF JobGoes, WorkLabels, JobLabels
  <1>4. ObsInv'
    BY <1>1, <1>2, AnswerFacts DEF ObsInv, IsOrdinary
  <1>5. /\ state.runs[job.ticket].seen <= CandidateLimit
        /\ IsOrdinary => state.runs[job.ticket].slot
    BY <1>1 DEF KernelInv, WorkInv, MayExceed
  <1>6. /\ SameReports /\ OnlyRun(job.ticket) /\ SameViews
    BY DEF SameReports, OnlyRun, SameViews, SameView
  <1>7. CallInv'
    BY <1>3, <1>6, SameViewsKeepPending, JobCall DEF KernelInv
  <1>8. WorkInv'
    BY <1>2, <1>3, <1>5, <1>6, JobWork DEF KernelInv, Constants
  <1> QED
    BY <1>4, <1>7, <1>8

\* A semantic effect is performed for a Work Run with its dependencies.
LEMMA PerformedRow ==
    ASSUME KernelInv, state' = state, pc \in WorkLabels, Perform
    PROVE  RowShape' /\ RowInv' /\ CapacityInv' /\ ReleaseStep /\ AdmissionStep
  <1>1. /\ job.act.ticket = job.ticket /\ DependenciesMet(state, job.ticket)
    BY DEF KernelInv, WorkInv
  <1>2. ASSUME NEW t \in Ticket PROVE RunInv(t)'
    <2>1. RunInv(t)
      BY DEF KernelInv, RowInv
    <2>2. Started(t)' => Started(t) \/ t = job.ticket
      BY <1>1 DEF Started, Performed, Perform
    <2> QED
      BY <1>1, <2>1, <2>2 DEF RunInv
  <1>3. RowShape' /\ RowInv'
    BY <1>2 DEF KernelInv, RowShape, RowInv
  <1>4. CapacityInv'
    BY DEF KernelInv, CapacityInv, Bounded, Held, Delivering
  <1>5. ReleaseStep /\ AdmissionStep
    BY NoClaimAdmits DEF ReleaseStep, Claiming
  <1> QED
    BY <1>3, <1>4, <1>5

LEMMA PerformKeeps ==
    ASSUME Constants, KernelInv, LedgerInv,
           \/ \E obs \in Observations : ReadbackFound(obs) \/ ExecuteAnswered(obs)
           \/ ExecuteLost \/ ExecuteNone
    PROVE  Keeps
  <1>1. ASSUME NEW obs \in Observations, ReadbackFound(obs) PROVE Keeps
    BY <1>1, AnsweredFacts, IdleStep DEF ReadbackFound
  <1>2. ASSUME NEW obs \in Observations, ExecuteAnswered(obs) PROVE Keeps
    <2>1. pc = "execute" /\ pc \in WorkLabels /\ state' = state /\ Perform
      BY <1>2 DEF ExecuteAnswered, WorkLabels, JobLabels
    <2>2. CallInv' /\ ObsInv' /\ WorkInv'
      BY <1>2, <2>1, AnsweredFacts DEF ExecuteAnswered
    <2> QED
      BY <2>1, <2>2, PerformedRow DEF KernelInv, Keeps
  <1>3. CASE ExecuteLost
    <2>1. pc \in WorkLabels /\ state' = state /\ Perform
      BY <1>3 DEF ExecuteLost, WorkLabels, JobLabels
    <2> QED
      BY <1>3, <2>1, StopForgetsAll, PerformedRow DEF ExecuteLost, KernelInv, Keeps
  <1>4. CASE ExecuteNone
    <2>1. pc = "execute" /\ pc \in WorkLabels /\ state' = state /\ Perform
      BY <1>4 DEF ExecuteNone, WorkLabels, JobLabels
    <2>2. after = "idle" /\ SameReports /\ PendingKept
      BY <2>1 DEF LedgerInv, JobInv, SameReports, PendingKept
    <2>3. CallInv' /\ ObsInv' /\ WorkInv'
      BY <1>4, <2>1, <2>2, LoopPos DEF ExecuteNone, KernelInv
    <2> QED
      BY <2>1, <2>3, PerformedRow DEF KernelInv, Keeps
  <1> QED
    BY <1>1, <1>2, <1>3, <1>4

\* The fence is saved, or the wake is consumed.
LEMMA ReadbackNoneKeeps ==
    ASSUME Constants, KernelInv, LedgerInv, ReadbackNone PROVE Keeps
  <1>1. pc = "readback" /\ performed' = performed
    BY DEF ReadbackNone, world
  <1>2. JobRow /\ pc \in WorkLabels /\ ~ MayExceed
    BY <1>1, JobRowHolds DEF WorkLabels, JobLabels, MayExceed
  <1>3. CASE MayExecute
    <2>1. /\ pc' = "execute" /\ job' = job /\ call' = call /\ todo' = todo
          /\ after' = after
      BY <1>3 DEF ReadbackNone, Goto
    <2>2. JobGoes
      BY <1>2, <2>1 DEF JobGoes, JobRow, WorkLabels, JobLabels
    <2>3. /\ state'.runs = state.runs /\ SameReports
          /\ DOMAIN state.effects \subseteq DOMAIN state'.effects
      BY <1>2, <1>3
      DEF ReadbackNone, JobRow, IsState, StateFields, SetEffect, SameReports
    <2>4. RowShape' /\ OnlyRun(job.ticket)
          /\ SameView(state.runs[job.ticket], state'.runs[job.ticket])
      BY <2>3 DEF KernelInv, RowShape, SameReports, OnlyRun, SameView
    <2>5. ObsInv'
      BY <2>1 DEF ObsInv
    <2> QED
      BY <1>1, <1>2, <2>1, <2>2, <2>3, <2>4, <2>5, HiddenJobStep
  <1>4. CASE ~ MayExecute
    <2>1. Loop(state', job.ticket, FALSE)
      BY <1>4 DEF ReadbackNone
    <2>2. /\ RowShape' /\ OnlyRun(job.ticket) /\ SameReports
          /\ state'.effects = state.effects
          /\ SameView(state.runs[job.ticket], state'.runs[job.ticket])
      <3>1. CASE IsOrdinary
        <4> DEFINE run == [state.runs[job.ticket] EXCEPT !.lastWake = call.wake]
        <4>1. IsRun(run) /\ SameView(state.runs[job.ticket], run)
          BY <1>2 DEF JobRow, IsRun, RunFields, SameView
        <4>2. /\ state'.runs = [state.runs EXCEPT ![job.ticket] = run]
              /\ SameReports /\ state'.effects = state.effects
          BY <1>2, <1>4, <3>1
          DEF ReadbackNone, JobRow, IsState, StateFields, SameReports
        <4> HIDE DEF run
        <4> QED
          BY <1>2, <4>1, <4>2, RunWritten DEF KernelInv, JobRow
      <3>2. CASE ~ IsOrdinary
        BY <1>4, <3>2
        DEF ReadbackNone, KernelInv, RowShape, OnlyRun, SameReports, SameView
      <3> QED
        BY <3>1, <3>2
    <2>3. SameViews
      BY <1>2, <2>2 DEF SameViews, SameView, OnlyRun, JobRow
    <2>4. CallInv' /\ ObsInv' /\ WorkInv'
      BY <1>1, <1>2, <2>1, <2>2, <2>3, SameViewsKeepPending, LoopPos
      DEF KernelInv, JobRow
    <2> QED
      BY <1>1, <2>2, <2>3, <2>4, HiddenStep
  <1> QED
    BY <1>3, <1>4

------------------------------------------------------------------------------
(* What a job makes of a semantic or delivery observation.                 *)

\* Such a job has its Slot, and a Work Run that holds its claim or may take it.
LEMMA OrdinaryFacts ==
    ASSUME KernelInv, LedgerInv, pc \in {"apply", "settle"}, IsOrdinary
    PROVE  LET t == job.ticket
               run == state.runs[t]
           IN  /\ JobRow /\ run.slot
               /\ run.phase \notin {"completed", "quiescent"}
               /\ ~ HasPendingReport(state, t) /\ run.followUp # "pending"
               /\ DependenciesMet(state, t)
               /\ job.obs.candidate \in Nat /\ job.obs.accepted \in Nat
               /\ \/ Claiming(t) \/ HeldBefore(t) \/ ResourcesFree(state, t)
  <1>1. pc \in WorkLabels /\ pc \notin {"scan", "bind", "intent"}
    BY DEF WorkLabels, JobLabels
  <1>2. JobRow
    BY <1>1, JobRowHolds
  <1>3. job.act.kind # "stale_follow_up"
    BY DEF IsOrdinary, SemanticKinds
  <1>4. /\ state.runs[job.ticket].slot /\ state.runs[job.ticket].phase # "completed"
        /\ ~ HasPendingReport(state, job.ticket)
        /\ state.runs[job.ticket].followUp # "pending"
        /\ DependenciesMet(state, job.ticket)
        /\ state.runs[job.ticket].phase = "pending" /\ ~ job.before[2] =>
              ResourcesFree(state, job.ticket)
    BY <1>1, <1>3 DEF KernelInv, WorkInv
  <1>5. state.runs[job.ticket].phase # "quiescent"
    BY <1>2, <1>4 DEF JobRow, RunInv
  <1>6. job.obs.candidate \in Nat /\ job.obs.accepted \in Nat
    BY DEF KernelInv, ObsInv
  <1> QED
    BY <1>1, <1>2, <1>4, <1>5, <1>6
    DEF Claiming, HeldBefore, TerminalPhases, QuiescentPhases

LEMMA ApplyReportKeeps ==
    ASSUME Constants, KernelInv, LedgerInv, ApplyReport PROVE Keeps
  <1> DEFINE r == job.obs.report
             old == state.runs[job.ticket]
             run == WithBinding(old, job.obs)
             active == [run EXCEPT !.phase = IF @ = "pending" THEN "running" ELSE @]
  <1>1. /\ pc = "apply" /\ IsOrdinary /\ r # NoReport
        /\ IF ReportAdmissible(r, active) THEN RecordReport(r, active, "stopped")
                                          ELSE Raise
    BY DEF ApplyReport, Applying
  <1>2. r \in Report /\ r[1] = job.ticket
    BY <1>1 DEF KernelInv, ObsInv
  <1>3. /\ JobRow /\ old.slot
        /\ old.phase \notin {"completed", "quiescent"}
        /\ ~ HasPendingReport(state, job.ticket) /\ DependenciesMet(state, job.ticket)
        /\ \/ Claiming(job.ticket) \/ HeldBefore(job.ticket)
           \/ ResourcesFree(state, job.ticket)
    BY <1>1, OrdinaryFacts
  <1>4. /\ IsRun(run) /\ run.phase = old.phase /\ run.slot = old.slot
        /\ run.followUp \in {old.followUp, "none"} /\ run.seen = old.seen
    BY <1>3, WithBindingView DEF JobRow
  <1> HIDE DEF run
  <1>5. /\ IsRun(active) /\ active.slot = old.slot /\ active.seen = old.seen
        /\ active.followUp \in {old.followUp, "none"}
        /\ active.phase = IF old.phase = "pending" THEN "running" ELSE old.phase
    BY <1>4 DEF IsRun, RunFields
  <1>6. CASE ~ ReportAdmissible(r, active)
    BY <1>1, <1>6, RaiseKeeps
  <1>7. CASE ReportAdmissible(r, active)
    <2>1. /\ RecordReport(r, active, "stopped")
          /\ r \in state.reports \/ active.phase \in StoppablePhases
      BY <1>1, <1>7 DEF ReportAdmissible
    <2>2. /\ job.ticket \in Ticket
          /\ Claiming(job.ticket) => old.phase # "pending"
      BY <1>3 DEF JobRow, Claiming
    <2> HIDE DEF active
    <2>3. \/ active.phase = old.phase
          \/ old.phase = "pending" /\ HeldBefore(job.ticket)
          \/ old.phase = "pending" /\ ResourcesFree(state, job.ticket)
      BY <1>3, <1>5, <2>2
    <2> QED
      BY <1>1, <1>2, <1>3, <1>5, <2>1, <2>2, <2>3, RecordReportKeeps
  <1> QED
    BY <1>6, <1>7

\* A write that hides, and the end of the job.
LEMMA SettleReportKeeps ==
    ASSUME Constants, KernelInv, LedgerInv, SettleReport PROVE Keeps
  <1> DEFINE t == job.ticket
             s == SetEffect(state, job.act, "read_back", NoReceipt)
             run == [Progressed(state.runs[t]) EXCEPT !.lastWake = call.wake]
  <1>1. /\ pc = "stopped" /\ after = "idle" /\ IsState(state)
        /\ t \in Ticket /\ IsRun(state.runs[t]) /\ performed' = performed
        /\ Loop(state', t, TRUE)
    BY DEF SettleReport, world, KernelInv, CallInv, RowShape, LedgerInv, JobInv
  <1>2. /\ IsState(s) /\ s.runs = state.runs /\ s.reports = state.reports
        /\ s.resolved = state.resolved
        /\ DOMAIN s.effects = DOMAIN state.effects \cup {job.act}
    BY <1>1 DEF SetEffect, IsState, StateFields
  <1>3. IsRun(run) /\ SameView(state.runs[t], run)
    <2>1. /\ IsRun(Progressed(state.runs[t]))
          /\ SameView(state.runs[t], Progressed(state.runs[t]))
      BY <1>1, ProgressedView
    <2> QED
      BY <2>1 DEF IsRun, RunFields, SameView
  <1>4. state' = [s EXCEPT !.runs[t] = run]
    BY <1>2 DEF SettleReport
  <1> HIDE DEF s, run
  <1>5. /\ state'.runs = [state.runs EXCEPT ![t] = run] /\ SameReports
        /\ state'.effects = s.effects
    BY <1>2, <1>4 DEF IsState, StateFields, SameReports
  <1>6. RowShape' /\ OnlyRun(t) /\ SameView(state.runs[t], state'.runs[t])
    BY <1>1, <1>3, <1>5, RunWritten DEF KernelInv
  <1>7. SameViews
    BY <1>6 DEF SameViews, SameView, OnlyRun
  <1>8. CallInv' /\ ObsInv' /\ WorkInv'
    BY <1>1, <1>5, <1>7, SameViewsKeepPending, LoopPos DEF KernelInv
  <1> QED
    BY <1>1, <1>2, <1>5, <1>6, <1>7, <1>8, HiddenStep

\* A Candidate receipt may exceed the budget, but changes nothing else.
LEMMA ReceiptStep ==
    ASSUME Constants, KernelInv, LedgerInv, JobGoes, NEW t, t = job.ticket,
           pc = "apply", job.act.kind # "stale_follow_up",
           pc' \in {"record", "settle"}, performed' = performed, ObsInv',
           NEW run, IsRun(run), run.phase = state.runs[t].phase,
           run.slot = state.runs[t].slot,
           run.followUp \in {state.runs[t].followUp, "none"},
           \/ state' = state
           \/ state' = SetRun(state, t, run),
           MayExceed => MayExceed', state' = state \/ MayExceed'
    PROVE  Keeps
  <1> DEFINE old == state.runs[t]
  <1>1. JobRow /\ pc \in WorkLabels
    BY JobRowHolds DEF WorkLabels, JobLabels
  <1>2. /\ ~ HasPendingReport(state, t) /\ old.followUp # "pending"
        /\ old.phase # "completed" /\ DependenciesMet(state, t)
        /\ old.seen <= CandidateLimit \/ MayExceed
        /\ IsOrdinary => old.slot
    BY <1>1 DEF KernelInv, WorkInv
  <1>3. t \in Ticket /\ RunInv(t) /\ old.phase # "quiescent"
    BY <1>1, <1>2 DEF JobRow, RunInv
  <1>4. /\ RowShape' /\ OnlyRun(t) /\ SameReports /\ state'.effects = state.effects
        /\ state'.runs[t].phase = old.phase /\ state'.runs[t].slot = old.slot
        /\ state'.runs[t].followUp \in {old.followUp, "none"}
    <2>1. CASE state' = state
      BY <2>1 DEF KernelInv, RowShape, OnlyRun, SameReports
    <2>2. CASE state' = SetRun(state, t, run)
      BY <1>1, <1>3, <2>2, SetRunWrites DEF KernelInv, JobRow
    <2> QED
      BY <2>1, <2>2
  <1>5. CallInv'
    BY <1>3, <1>4, OthersStayStopped, JobCall DEF KernelInv
  <1>6. WorkInv'
    BY <1>2, <1>4, JobWork DEF KernelInv, Constants
  <1>7. Claiming(t)' => Claiming(t)
    BY <1>4 DEF Claiming
  <1> QED
    BY <1>2, <1>3, <1>4, <1>5, <1>6, <1>7, RunStep DEF RunInv

LEMMA ApplyCandidateKeeps ==
    ASSUME Constants, KernelInv, LedgerInv, ApplyCandidate PROVE Keeps
  <1>0. PICK t : t = job.ticket
    OBVIOUS
  <1> DEFINE old == state.runs[t]
             bound == WithBinding(old, job.obs)
             saved == WithCandidate(bound, job.obs.candidate)
  <1>1. /\ pc = "apply" /\ IsOrdinary /\ job.obs.report = NoReport /\ pc' = "settle"
        /\ call' = call /\ todo' = todo /\ after' = after /\ performed' = performed
    BY DEF ApplyCandidate, Applying, Goto, world
  <1>2. JobRow /\ IsRun(old) /\ job.obs.candidate \in Nat
    BY <1>0, <1>1, OrdinaryFacts DEF JobRow
  <1>3. /\ job'.ticket = job.ticket /\ job'.act = job.act /\ job'.obs = job.obs
        /\ job'.before = job.before
    BY <1>2 DEF ApplyCandidate, JobRow, IsJob, JobFields
  <1>4. JobGoes
    BY <1>1, <1>2, <1>3 DEF JobGoes, JobRow, WorkLabels, JobLabels
  <1>5. ObsInv' /\ MayExceed'
    BY <1>1, <1>3
    DEF KernelInv, ObsInv, MayExceed, IsOrdinary, SemanticKinds
  <1>6. /\ IsRun(bound) /\ bound.phase = old.phase /\ bound.slot = old.slot
        /\ bound.followUp \in {old.followUp, "none"}
    BY <1>2, WithBindingView
  <1>7. /\ IsRun(saved) /\ saved.phase = old.phase /\ saved.slot = old.slot
        /\ saved.followUp \in {old.followUp, "none"}
    <2> HIDE DEF bound
    <2> QED
      BY <1>2, <1>6, WithCandidateView
  <1>8. PICK run : /\ state' = state \/ state' = SetRun(state, t, run)
                   /\ run \in {saved, Progressed(saved)}
    BY <1>0 DEF ApplyCandidate
  <1> HIDE DEF saved
  <1>9. /\ IsRun(run) /\ run.phase = old.phase /\ run.slot = old.slot
        /\ run.followUp \in {old.followUp, "none"}
    BY <1>7, <1>8, ProgressedView DEF SameView
  <1>10. job.act.kind # "stale_follow_up"
    BY <1>1 DEF IsOrdinary, SemanticKinds
  <1> QED
    BY <1>0, <1>1, <1>4, <1>5, <1>8, <1>9, <1>10, ReceiptStep

\* The observed phase, Slot and claim end the job.
LEMMA SettleKeeps ==
    ASSUME Constants, KernelInv, LedgerInv, Settle PROVE Keeps
  <1>0. PICK t : t = job.ticket
    OBVIOUS
  <1> DEFINE old == state.runs[t]
             s == SetEffect(state, job.act, "read_back", NoReceipt)
             bound == WithBinding(old, job.obs)
             accepted == [bound EXCEPT !.accepted =
                             IF job.obs.accepted # 0 THEN job.obs.accepted ELSE @]
             next == Observed(accepted, job.obs, call.wake, job.resuming)
  <1>1. /\ pc = "settle" /\ IsOrdinary /\ performed' = performed
        /\ Loop(state', job.ticket, TRUE)
    BY DEF Settle, Settling, world
  <1>2. /\ JobRow /\ old.slot /\ old.phase \notin {"completed", "quiescent"}
        /\ ~ HasPendingReport(state, t) /\ old.followUp # "pending"
        /\ DependenciesMet(state, t) /\ job.obs.accepted \in Nat
        /\ Claiming(t) \/ HeldBefore(t) \/ ResourcesFree(state, t)
    BY <1>0, <1>1, OrdinaryFacts
  <1>3. job.obs.phase # "quiescent"
    BY <1>1 DEF KernelInv, ObsInv
  <1>4. IsRun(old) /\ t \in Ticket /\ IsState(state) /\ after = "idle"
    BY <1>0, <1>2 DEF JobRow
  <1>5. IsRun(bound) /\ bound.followUp \in {old.followUp, "none"}
    BY <1>4, WithBindingView
  <1>6. IsRun(accepted) /\ accepted.followUp = bound.followUp
    <2> HIDE DEF bound
    <2> QED
      BY <1>2, <1>5 DEF IsRun, RunFields
  <1>7. /\ IsRun(next) /\ next.followUp = accepted.followUp
        /\ \/ next.phase = "decision" /\ ~ next.slot
           \/ next.phase = job.obs.phase /\ (next.slot <=> ObservedSlot(job.obs))
    <2> HIDE DEF accepted
    <2> QED
      BY <1>6, ObservedView
  <1>8. PICK run : /\ state' = SetRun(s, t, run)
                   /\ run \in {next, Progressed(next)}
    BY <1>0 DEF Settle
  <1> HIDE DEF next
  <1>9. IsRun(run) /\ SameView(next, run)
    BY <1>7, <1>8, ProgressedView DEF SameView
  <1>10. /\ run.followUp # "pending" /\ run.phase # "quiescent"
         /\ run.phase = "completed" => ~ run.slot
         /\ run.phase \in SlotPhases => run.slot
    BY <1>2, <1>3, <1>5, <1>6, <1>7, <1>9 DEF SameView, ObservedSlot, SlotPhases
  <1>11. /\ IsState(s) /\ s.runs = state.runs /\ s.reports = state.reports
         /\ s.resolved = state.resolved
         /\ DOMAIN s.effects = DOMAIN state.effects \cup {job.act}
    BY <1>4 DEF SetEffect, IsState, StateFields
  <1> HIDE DEF s
  <1>12. /\ state'.runs = [state.runs EXCEPT ![t] = run] /\ SameReports
         /\ state'.effects = s.effects
    BY <1>8, <1>11 DEF SetRun, IsState, StateFields, SameReports
  <1>13. RowShape' /\ OnlyRun(t) /\ state'.runs[t] = run
    BY <1>4, <1>9, <1>12, RunWritten DEF KernelInv
  <1>14. CallInv' /\ ObsInv' /\ WorkInv'
    BY <1>1, <1>2, <1>4, <1>12, <1>13, OthersStayStopped, LoopPos DEF KernelInv
  <1> QED
    BY <1>1, <1>2, <1>4, <1>10, <1>11, <1>12, <1>13, <1>14, RunStep

------------------------------------------------------------------------------
(* What a job makes of a stale observation.                                *)

LEMMA StaleCandidateKeeps ==
    ASSUME Constants, KernelInv, LedgerInv, StaleCandidate PROVE Keeps
  <1>0. PICK t : t = job.ticket
    OBVIOUS
  <1> DEFINE old == state.runs[t]
             saved == WithCandidate(old, job.obs.candidate)
  <1>1. /\ pc = "apply" /\ job.act.kind = "stale_readback" /\ pc' = "record"
        /\ job' = job /\ call' = call /\ todo' = todo /\ after' = after
        /\ performed' = performed
    BY DEF StaleCandidate, Goto
  <1>2. JobRow /\ IsRun(old)
    BY <1>0, <1>1, JobRowHolds DEF WorkLabels, JobLabels, JobRow
  <1>3. /\ job.obs.candidate \in Nat
        /\ job.obs.candidate # 0 => job.obs.phase = "CANDIDATE_RECEIVED"
    BY <1>1 DEF KernelInv, ObsInv
  <1>4. JobGoes
    BY <1>1, <1>2 DEF JobGoes, JobRow, WorkLabels, JobLabels
  <1>5. ~ IsOrdinary /\ IsOrdinary' = IsOrdinary
    BY <1>1 DEF IsOrdinary, SemanticKinds
  <1>6. ObsInv'
    BY <1>1, <1>5 DEF KernelInv, ObsInv
  <1>7. /\ MayExceed => MayExceed'
        /\ job.obs.candidate # 0 => MayExceed'
    BY <1>1, <1>3, <1>5 DEF MayExceed
  <1>8. /\ IsRun(saved) /\ saved.phase = old.phase /\ saved.slot = old.slot
        /\ saved.followUp = old.followUp
    BY <1>2, <1>3, WithCandidateView
  <1>9. PICK run : /\ \/ state' = state
                      \/ job.obs.candidate # 0 /\ state' = SetRun(state, t, run)
                   /\ run \in {saved, Progressed(saved)}
    BY <1>0 DEF StaleCandidate
  <1> HIDE DEF saved
  <1>10. /\ IsRun(run) /\ run.phase = old.phase /\ run.slot = old.slot
         /\ run.followUp = old.followUp
    BY <1>8, <1>9, ProgressedView DEF SameView
  <1> QED
    BY <1>0, <1>1, <1>4, <1>6, <1>7, <1>9, <1>10, ReceiptStep

\* The receipt of the readback.
LEMMA RecordStaleKeeps ==
    ASSUME Constants, KernelInv, LedgerInv, RecordStale PROVE Keeps
  <1>1. /\ pc \in {"record", "apply"} /\ pc' = "settle" /\ job' = job
        /\ call' = call /\ todo' = todo /\ after' = after /\ performed' = performed
    BY DEF RecordStale, Recording, Goto
  <1>2. JobRow
    BY <1>1, JobRowHolds DEF WorkLabels, JobLabels
  <1>3. JobGoes
    BY <1>1, <1>2 DEF JobGoes, JobRow, WorkLabels, JobLabels
  <1>4. ~ IsOrdinary /\ IsOrdinary' = IsOrdinary
    BY <1>1 DEF RecordStale, Recording, KernelInv, ObsInv, FencedKinds, IsOrdinary,
                SemanticKinds
  <1>5. ObsInv' /\ (MayExceed => MayExceed')
    BY <1>1, <1>4 DEF KernelInv, ObsInv, MayExceed
  <1>6. /\ state'.runs = state.runs /\ SameReports
        /\ DOMAIN state.effects \subseteq DOMAIN state'.effects
    BY <1>2 DEF RecordStale, JobRow, IsState, StateFields, SetEffect, SameReports
  <1>7. /\ RowShape' /\ OnlyRun(job.ticket)
        /\ SameView(state.runs[job.ticket], state'.runs[job.ticket])
    BY <1>6 DEF KernelInv, RowShape, SameReports, OnlyRun, SameView
  <1> QED
    BY <1>1, <1>3, <1>5, <1>6, <1>7, HiddenJobStep

\* A stale job ends with a Work Run in a slot phase, which holds its Slot.
LEMMA StaleSettleKeeps ==
    ASSUME Constants, KernelInv, LedgerInv, NEW t, t = job.ticket,
           pc = "settle", job.act.kind \in StaleKinds,
           NEW run, IsRun(run), state' = SetRun(state, t, run),
           Loop(state', t, TRUE), performed' = performed,
           run.phase # "quiescent",
           run.phase = "completed" => ~ run.slot /\ run.followUp # "pending",
           run.phase \in SlotPhases => run.slot,
           run.followUp = "pending" => run.seen <= CandidateLimit
    PROVE  Keeps
  <1>1. pc \in WorkLabels /\ job.act.kind # "stale_follow_up"
    BY DEF WorkLabels, JobLabels, StaleKinds
  <1>2. JobRow
    BY <1>1, JobRowHolds
  <1>3. /\ ~ HasPendingReport(state, t) /\ DependenciesMet(state, t)
        /\ state.runs[t].phase \in SlotPhases
    BY <1>1 DEF KernelInv, WorkInv
  <1>4. /\ state.runs[t].slot /\ state.runs[t].phase # "completed" /\ Claiming(t)
    BY <1>2, <1>3
    DEF JobRow, RunInv, Claiming, SlotPhases, TerminalPhases, QuiescentPhases
  <1>5. /\ RowShape' /\ OnlyRun(t) /\ state'.runs[t] = run /\ SameReports
        /\ state'.effects = state.effects
    BY <1>2, SetRunWrites DEF KernelInv, JobRow
  <1>6. CallInv' /\ ObsInv' /\ WorkInv'
    BY <1>2, <1>3, <1>5, OthersStayStopped, LoopPos DEF KernelInv, JobRow
  <1> QED
    BY <1>2, <1>3, <1>4, <1>5, <1>6, RunStep DEF JobRow

LEMMA SettleMechanicalKeeps ==
    ASSUME Constants, KernelInv, LedgerInv, SettleMechanical PROVE Keeps
  <1>0. PICK t : t = job.ticket
    OBVIOUS
  <1> DEFINE old == state.runs[t]
             run == [old EXCEPT !.last = job.act]
             new == IF BudgetExhausted(run)
                    THEN [Exhausted(run) EXCEPT !.stale = "none", !.disposed = TRUE]
                    ELSE Mechanical(run, job.obs.phase)
  <1>1. /\ pc = "settle" /\ job.act.kind = "stale_readback" /\ performed' = performed
        /\ job.act.kind \in StaleKinds /\ job.obs.phase # "AMBIGUOUS_RUNNING"
        /\ state' = SetRun(state, t, new) /\ Loop(state', t, TRUE)
    BY <1>0 DEF SettleMechanical, world, StaleKinds
  <1>2. JobRow /\ IsRun(old) /\ old.followUp # "pending"
    BY <1>0, <1>1, JobRowHolds DEF KernelInv, WorkInv, WorkLabels, JobLabels, JobRow
  <1>3. job.obs.phase \in StaleStates \ {"AMBIGUOUS_RUNNING"}
    BY <1>1 DEF KernelInv, ObsInv
  <1>4. IsRun(run) /\ run.followUp = old.followUp
    BY <1>2 DEF IsRun, RunFields
  <1> HIDE DEF run
  <1>5. CASE BudgetExhausted(run)
    <2>1. /\ IsRun(new) /\ new.phase = "decision" /\ new.followUp = old.followUp
      <3> DEFINE stopped == Exhausted(run)
      <3>1. /\ IsRun(stopped) /\ stopped.phase = "decision"
            /\ stopped.followUp = old.followUp
        BY <1>4, ExhaustedView
      <3>2. new = [stopped EXCEPT !.stale = "none", !.disposed = TRUE]
        BY <1>5
      <3> HIDE DEF stopped, new
      <3> QED
        BY <3>1, <3>2 DEF IsRun, RunFields
    <2> HIDE DEF new
    <2> QED
      BY <1>0, <1>1, <1>2, <2>1, StaleSettleKeeps DEF SlotPhases
  <1>6. CASE ~ BudgetExhausted(run)
    <2>1. /\ IsRun(new) /\ new.followUp = old.followUp
          /\ \/ new.phase = "completed" /\ ~ new.slot
             \/ new.phase = "wait"
             \/ new.phase = "candidate_checks" /\ new.slot
             \/ new.phase = "runtime_unavailable"
      BY <1>3, <1>4, <1>6, MechanicalView
    <2> HIDE DEF new
    <2> QED
      BY <1>0, <1>1, <1>2, <2>1, StaleSettleKeeps DEF SlotPhases
  <1> QED
    BY <1>5, <1>6

LEMMA SettleDiagnosisKeeps ==
    ASSUME Constants, KernelInv, LedgerInv, SettleDiagnosis PROVE Keeps
  <1>0. PICK t : t = job.ticket
    OBVIOUS
  <1> DEFINE old == state.runs[t]
             run == [old EXCEPT !.last = job.act]
             new == Diagnosed(run, job.obs.phase)
  <1>1. /\ pc = "settle" /\ job.act.kind = "stale_diagnosis" /\ performed' = performed
        /\ job.act.kind \in StaleKinds
        /\ state' = SetRun(state, t, new) /\ Loop(state', t, TRUE)
    BY <1>0 DEF SettleDiagnosis, world, StaleKinds
  <1>2. ~ MayExceed
    BY <1>1 DEF MayExceed, IsOrdinary, SemanticKinds
  <1>3. JobRow /\ IsRun(old) /\ old.seen <= CandidateLimit
    BY <1>0, <1>1, <1>2, JobRowHolds
    DEF KernelInv, WorkInv, WorkLabels, JobLabels, JobRow
  <1>4. IsRun(run) /\ run.seen = old.seen
    BY <1>3 DEF IsRun, RunFields
  <1> HIDE DEF run
  <1>5. /\ IsRun(new) /\ new.seen = old.seen
        /\ \/ new.phase = "decision" /\ ~ new.slot
           \/ new.phase = "running" /\ new.slot
    BY <1>4, DiagnosedView
  <1> HIDE DEF new
  <1> QED
    BY <1>0, <1>1, <1>3, <1>5, StaleSettleKeeps DEF SlotPhases

\* A follow-up is the one job whose Work Run may be stopped; it leaves it so.
LEMMA SettleFollowUpKeeps ==
    ASSUME Constants, KernelInv, LedgerInv, SettleFollowUp PROVE Keeps
  <1>0. PICK t : t = job.ticket
    OBVIOUS
  <1> DEFINE old == state.runs[t]
             run == [old EXCEPT !.last = job.act]
             new == FollowedUp(run)
  <1>1. /\ pc = "settle" /\ performed' = performed
        /\ state' = SetRun(state, t, new) /\ Loop(state', t, TRUE)
    BY <1>0 DEF SettleFollowUp, world
  <1>2. /\ JobRow /\ t \in Ticket /\ IsRun(old) /\ RunInv(t)
        /\ DependenciesMet(state, t) /\ old.phase # "completed"
    BY <1>0, <1>1, JobRowHolds
    DEF KernelInv, WorkInv, WorkLabels, JobLabels, JobRow
  <1>3. /\ IsRun(run) /\ run.phase = old.phase /\ run.slot = old.slot
    BY <1>2 DEF IsRun, RunFields
  <1> HIDE DEF run
  <1>4. /\ IsRun(new) /\ new.phase = old.phase /\ new.slot = old.slot
        /\ new.followUp = "done"
    BY <1>3, FollowedUpView
  <1> HIDE DEF new
  <1>5. /\ RowShape' /\ OnlyRun(t) /\ state'.runs[t] = new /\ SameReports
        /\ state'.effects = state.effects
    BY <1>1, <1>2, <1>4, SetRunWrites DEF KernelInv, JobRow
  <1>6. \A u : HasPendingReport(state', u) <=> HasPendingReport(state, u)
    BY <1>5, SamePending
  <1>7. RowInv'
    BY <1>1, <1>2, <1>4, <1>5, <1>6, RowStep DEF KernelInv, Constants, RunInv
  <1>8. CapacityInv'
    BY <1>2, <1>4, <1>5, CapacityStep DEF KernelInv, Constants
  <1>9. PendingKept
    BY <1>2, <1>4, <1>5, OthersStayStopped DEF KernelInv
  <1>10. CallInv' /\ ObsInv' /\ WorkInv'
    BY <1>1, <1>2, <1>5, <1>9, LoopPos DEF KernelInv, JobRow
  <1>11. ReleaseStep /\ AdmissionStep
    BY <1>4, <1>5, <1>9, StoppedReleaseNothing, NoClaimAdmits DEF OnlyRun, Claiming
  <1> QED
    BY <1>5, <1>7, <1>8, <1>10, <1>11 DEF KernelInv, Keeps

\* A deadline is read at the next scan.
LEMMA DeadlineKeeps ==
    ASSUME Constants, KernelInv, LedgerInv, NEW t \in Ticket, DeadlinePasses(t)
    PROVE  Keeps
  <1> DEFINE run == [state.runs[t] EXCEPT !.stale = "due"]
  <1>1. /\ state'.runs = [state.runs EXCEPT ![t] = run] /\ SameReports
        /\ state'.effects = state.effects
        /\ pc' = pc /\ call' = call /\ job' = job /\ todo' = todo /\ after' = after
        /\ performed' = performed
    BY DEF DeadlinePasses, LedgerInv, IsState, StateFields, SameReports
  <1>2. IsRun(run) /\ SameView(state.runs[t], run)
    BY DEF KernelInv, RowShape, IsRun, RunFields, SameView
  <1> HIDE DEF run
  <1>3. RowShape' /\ OnlyRun(t) /\ state'.runs[t] = run
    BY <1>1, <1>2, RunWritten DEF KernelInv
  <1>4. SameViews
    BY <1>2, <1>3 DEF SameViews, SameView, OnlyRun
  <1>5. CallInv'
    <2>1. PendingKept
      BY <1>4, SameViewsKeepPending DEF KernelInv
    <2> QED
      BY <1>1, <2>1, SamePending DEF KernelInv, CallInv, SameReports, PendingKept
  <1>6. ObsInv'
    BY <1>1 DEF KernelInv, ObsInv, IsOrdinary
  <1>7. WorkInv'
    <2>1. SUFFICES ASSUME pc \in WorkLabels PROVE WorkInv'
      BY <1>1 DEF WorkInv
    <2>2. \A u \in Ticket : /\ state'.runs[u].phase = state.runs[u].phase
                            /\ state'.runs[u].slot = state.runs[u].slot
                            /\ state'.runs[u].followUp = state.runs[u].followUp
                            /\ state'.runs[u].seen = state.runs[u].seen
      BY <1>4 DEF SameViews, SameView
    <2>3. job.ticket \in Ticket
      BY <2>1 DEF KernelInv, WorkInv
    <2>4. /\ DependenciesMet(state, job.ticket) => DependenciesMet(state', job.ticket)
          /\ ResourcesFree(state, job.ticket) => ResourcesFree(state', job.ticket)
      BY <2>2, <2>3
      DEF DependenciesMet, ResourcesFree, Constants, PlanAssumption
    <2>5. Held(state') = Held(state)
      BY <2>2 DEF Held
    <2>6. SlotFree(state') <=> SlotFree(state)
      BY <2>5 DEF SlotFree
    <2>7. /\ HasPendingReport(state', job.ticket) <=> HasPendingReport(state, job.ticket)
          /\ MayExceed' <=> MayExceed
          /\ IsOrdinary' <=> IsOrdinary
      BY <1>1, SamePending DEF MayExceed, IsOrdinary
    <2> QED
      BY <1>1, <2>1, <2>2, <2>3, <2>4, <2>6, <2>7 DEF KernelInv, WorkInv
  <1> QED
    BY <1>1, <1>3, <1>4, <1>5, <1>6, <1>7, HiddenStep

------------------------------------------------------------------------------
(* The theorems.                                                           *)

LEMMA ConstantsHold == Constants
  BY TicketAssumption, PlanAssumption, BoundAssumption, ScenarioAssumption DEF Constants

LEMMA InitKernelInv == Init => KernelInv
  <1> SUFFICES ASSUME Init PROVE KernelInv
    OBVIOUS
  <1>1. /\ state.runs = [t \in Ticket |-> NewRun] /\ state.effects = <<>>
        /\ state.reports = {} /\ state.resolved = {} /\ performed = {}
        /\ pc = "idle" /\ call = NoCall /\ todo = {} /\ after = "idle"
    BY DEF Init, NewCampaign
  <1>2. \A t \in Ticket :
          /\ IsRun(state.runs[t]) /\ state.runs[t].phase = "pending"
          /\ ~ state.runs[t].slot /\ state.runs[t].followUp = "none"
    <2>1. /\ IsRun(NewRun) /\ NewRun.phase = "pending"
          /\ ~ NewRun.slot /\ NewRun.followUp = "none"
      BY DEF NewRun, IsRun, RunFields
    <2> QED
      BY <1>1, <2>1
  <1>3. RowShape
    BY <1>1, <1>2 DEF RowShape
  <1>4. RowInv
    BY <1>1, <1>2
    DEF RowInv, RunInv, HasPendingReport, PendingReports, Started, Performed,
        StoppablePhases, SlotPhases, QuiescentPhases
  <1>5. CapacityInv
    <2>1. Bounded = {}
      BY <1>2 DEF Bounded, Held
    <2> QED
      BY <2>1, FS_EmptySet, BoundAssumption DEF CapacityInv
  <1>6. CallInv /\ ObsInv /\ WorkInv
    BY <1>1 DEF CallInv, ObsInv, WorkInv, WorkLabels, JobLabels, NoCall, PendingReports
  <1> QED
    BY <1>3, <1>4, <1>5, <1>6 DEF KernelInv

LEMMA NextKeeps == KernelInv /\ LedgerInv /\ [Next]_vars => Keeps
  <1> SUFFICES ASSUME KernelInv, LedgerInv, [Next]_vars PROVE Keeps
    OBVIOUS
  <1>0. Constants
    BY ConstantsHold
  <1>1. CASE UNCHANGED vars
    <2>1. state' = state /\ performed' = performed
      BY <1>1 DEF vars
    <2>2. CallInv'
      BY <1>1 DEF vars, KernelInv, CallInv
    <2>3. ObsInv' /\ WorkInv'
      BY <1>1 DEF vars, KernelInv, ObsInv, WorkInv, MayExceed, IsOrdinary
    <2> QED
      BY <1>0, <2>1, <2>2, <2>3, IdleStep
  <1>2. CASE AdvanceSteps
    <2>1. CASE \E r \in Report :
                  ReconcileQuiesce(r) \/ ReconcileRelease(r) \/ ReconcileSkip(r)
      BY <1>0, <2>1, ReconcileKeeps
    <2>2. CASE \E t \in Ticket :
                  StartExhausted(t) \/ StartFollowUp(t) \/ StartStale(t) \/ StartOrdinary(t)
      BY <1>0, <2>2, StartExhaustedKeeps, ScanStartKeeps
    <2>3. CASE ReconcileEnd \/ TakeReport \/ ApplyResume
      BY <1>0, <2>3, AdvanceKeeps, TakeReportKeeps, ApplyResumeKeeps
    <2>4. CASE \/ \E kind \in Classifications : Classify(kind)
               \/ ClassificationConflict \/ NotResumed \/ RegisterWake \/ Return
      BY <1>0, <2>4, ClassificationKeeps
    <2>5. CASE StartDiagnosis \/ BindRequest \/ Intent \/ ReadbackNone
      BY <1>0, <2>5, StartDiagnosisKeeps, BindRequestKeeps, IntentKeeps, ReadbackNoneKeeps
    <2>6. CASE \/ \E obs \in Observations : ReadbackFound(obs) \/ ExecuteAnswered(obs)
               \/ ExecuteNone
      BY <1>0, <2>6, PerformKeeps
    <2>7. CASE RejectBinding \/ RejectAccepted \/ RejectReceipt
      BY <1>0, <2>7, RaiseKeeps DEF RejectBinding, RejectAccepted, RejectReceipt
    <2>8. CASE ApplyReport \/ SettleReport \/ ApplyCandidate \/ Settle
      BY <1>0, <2>8, ApplyReportKeeps, SettleReportKeeps, ApplyCandidateKeeps, SettleKeeps
    <2>9. CASE \/ StaleCandidate \/ RecordStale \/ SettleMechanical
               \/ SettleDiagnosis \/ SettleFollowUp
      BY <1>0, <2>9, StaleCandidateKeeps, RecordStaleKeeps, SettleMechanicalKeeps,
         SettleDiagnosisKeeps, SettleFollowUpKeeps
    <2> QED
      BY <1>2, <2>1, <2>2, <2>3, <2>4, <2>5, <2>6, <2>7, <2>8, <2>9 DEF AdvanceSteps
  <1>3. CASE \/ \E wake \in Wake \cup {NoWake}, report \in Report \cup {NoReport} :
                   Advance(wake, report)
      BY <1>0, <1>3, AdvanceKeeps
  <1>4. CASE ExecuteLost
    BY <1>0, <1>4, PerformKeeps
  <1>5. CASE Crash
    BY <1>0, <1>5, RaiseKeeps DEF Crash
  <1>6. CASE \E t \in Ticket : DeadlinePasses(t)
    BY <1>0, <1>6, DeadlineKeeps
  <1> QED
    BY <1>1, <1>2, <1>3, <1>4, <1>5, <1>6 DEF Next

LEMMA KernelHolds == Spec => [](KernelInv /\ LedgerInv)
<1>1. Init => KernelInv /\ LedgerInv
  BY InitKernelInv, InitLedgerInv
<1>2. KernelInv /\ LedgerInv /\ [Next]_vars => (KernelInv /\ LedgerInv)'
  BY NextKeeps, NextLedgerInv DEF Keeps
<1> QED
  BY <1>1, <1>2, PTL DEF Spec

\* _reconcile_plan_invalidations never meets a record whose Work Run it cannot
\* stop.
THEOREM ReportsCanBeReconciled == Spec => []AlwaysReconcilable
<1>1. KernelInv => AlwaysReconcilable
  BY TicketAssumption DEF KernelInv, RowShape, RowInv, RunInv, AlwaysReconcilable,
     PendingReports, HasPendingReport, Report
<1> QED
  BY <1>1, KernelHolds, PTL

\* Nothing but a stale follow-up is executed for a Work Run with an unresolved
\* report.
THEOREM StoppedRunsPerformNothing == Spec => []InvalidationFences
<1>1. KernelInv => InvalidationFences
  BY DEF KernelInv, WorkInv, WorkLabels, JobLabels, InvalidationFences
<1> QED
  BY <1>1, KernelHolds, PTL

\* Nothing is executed for a Work Run whose Candidate budget is exhausted.
THEOREM ExhaustedRunsPerformNothing == Spec => []BudgetStopsEffects
<1>1. KernelInv => BudgetStopsEffects
  BY DEF KernelInv, WorkInv, WorkLabels, JobLabels, MayExceed, BudgetStopsEffects
<1> QED
  BY <1>1, KernelHolds, PTL

\* _next_due_run, the Intent and the deliveries keep the checked Slots within
\* the Capacity.
THEOREM CheckedSlotsAreBounded == Spec => []SlotBound
<1>1. KernelInv => SlotBound
  BY DEF KernelInv, CapacityInv, Bounded, SlotBound
<1> QED
  BY <1>1, KernelHolds, PTL

PerformedTickets == \A a \in performed : a.ticket \in Ticket

LEMMA NextPerformedTickets ==
    ASSUME KernelInv, LedgerInv, PerformedTickets, [Next]_vars
    PROVE  PerformedTickets'
  <1>1. CASE performed' = performed
    BY <1>1 DEF PerformedTickets
  <1>2. CASE pc = "execute" /\ Perform
    BY <1>2 DEF PerformedTickets, Perform, KernelInv, WorkInv, WorkLabels, JobLabels
  <1>3. performed' = performed \/ (pc = "execute" /\ Perform)
    <2>1. CASE UNCHANGED vars
      BY <2>1 DEF vars
    <2>2. CASE AdvanceSteps
      BY <2>2, Zenon DEF AdvanceSteps, ReconcileQuiesce, ReconcileRelease, ReconcileSkip,
         ReconcileEnd, TakeReport, RecordReport, Raise, Classify,
         ClassificationConflict, ApplyResume, NotResumed, RegisterWake, Return,
         StartExhausted, StartFollowUp, StartStale, StartOrdinary, Start,
         BindRequest, Intent, ReadbackNone, ReadbackFound, ExecuteAnswered,
         ExecuteNone, RejectBinding, ApplyReport, SettleReport, ApplyCandidate,
         RejectAccepted, Settle, StaleCandidate, RejectReceipt, RecordStale,
         SettleMechanical, StartDiagnosis, SettleDiagnosis, SettleFollowUp, world
    <2>3. CASE \/ \E wake \in Wake \cup {NoWake}, report \in Report \cup {NoReport} :
                     Advance(wake, report)
               \/ ExecuteLost \/ Crash \/ \E t \in Ticket : DeadlinePasses(t)
      BY <2>3 DEF Advance, ExecuteLost, Crash, Raise, DeadlinePasses
    <2> QED
      BY <2>1, <2>2, <2>3 DEF Next
  <1> QED
    BY <1>1, <1>2, <1>3

\* A semantic effect was performed only for Tickets whose blockers are
\* completed, and those stay so.
THEOREM BlockersAreCompletedFirst == Spec => []DependencyOrder
<1>1. Init => PerformedTickets
  BY DEF Init, PerformedTickets
<1>2. KernelInv /\ LedgerInv /\ PerformedTickets /\ [Next]_vars => PerformedTickets'
  BY NextPerformedTickets
<1>3. KernelInv /\ PerformedTickets => DependencyOrder
  BY DEF KernelInv, RowInv, RunInv, Started, Performed, PerformedTickets,
     DependenciesMet, TerminalPhases, DependencyOrder
<1> QED
  BY <1>1, <1>2, <1>3, KernelHolds, PTL DEF Spec

\* The Slot of an invalidated Work Run is released only from quiescent.
THEOREM ReleasedWhenQuiescent == Spec => QuiescentBeforeRelease
<1>1. KernelInv /\ LedgerInv /\ [Next]_vars => ReleaseStep
  BY NextKeeps DEF Keeps
<1>2. ReleaseStep =>
        [\A t \in Ticket :
          /\ HasPendingReport(state, t)
          /\ state.runs[t].slot /\ ~ state'.runs[t].slot
          => state.runs[t].phase = "quiescent"]_vars
  BY DEF ReleaseStep
<1> QED
  BY <1>1, <1>2, KernelHolds, PTL DEF Spec, QuiescentBeforeRelease

\* Two Work Runs with a common Exclusive Resource start together only when an
\* interrupted admission left one of them a Slot.
THEOREM AdmissionIsExclusive == Spec => ExclusiveAdmission
<1>1. KernelInv /\ LedgerInv /\ [Next]_vars => AdmissionStep
  BY NextKeeps DEF Keeps
<1>2. AdmissionStep =>
        [\A t, u \in Ticket :
          /\ t # u
          /\ Resources[t] \cap Resources[u] # {}
          /\ ~ Claiming(t) /\ Claiming(t)' /\ Claiming(u)
          => HeldBefore(t)]_vars
  BY DEF AdmissionStep
<1> QED
  BY <1>1, <1>2, KernelHolds, PTL DEF Spec, ExclusiveAdmission

==============================================================================
