# GWO V8: the Campaign runtime in TLA+

This directory is a verification development of the V8 runtime of
github-work-orchestrator (`skills/orchestrator/scripts/gwo_v8/`). It models the
parts of the system that decide what happens next and make it durable: the
ExecutionKernel with its Campaign row and its replanning, the effect owner with
its claims, BatchIntegrator, PlanControl, RuntimeGateway and the Campaign Watchdog.
Paths below are relative to `gwo_v8/` unless they start with `docs/` or `tests/`.

## 1. The system

A Campaign is a set of Tickets planned in one Plan Revision. ExecutionKernel
gives Tickets to Workers under a Worker Slot limit, native dependencies and
Exclusive Resources, follows every Work Run through Candidate checks, review and
delivery, and stops a Work Run whose plan is reported invalid. It calls Workers
and Git only through the effect owner (`WorkRunEffects`), always in the order:
intent durable, readback, then execute. An invalid plan is replaced by a successor
revision, which PlanControl derives or a human Decision approves.

| component | state | operations | talks to |
|---|---|---|---|
| ExecutionKernel (`execution_kernel.py`) | one SQLite row per Campaign: runs, effects, reports, classifications, wakes, gates, budgets, lineage; an in-process lock and version cache | `advance`, `inspect`, `watchdog_snapshot` | PlanControl, WorkRunEffects |
| ProductionWorkRunEffects (`production_effects.py`) | claim ledger, recorded observations | `readback`, `execute`, `bind_batch_delivery_request_digest` | RuntimeGateway, CandidateGate, BatchIntegrator |
| RuntimeGateway (`runtime_gateway.py`) | its journal of observations; the adapter's journal of actions, claims and Workspace intents | `progress`, `transition`, stale readback, diagnosis, follow-up | Paseo CLI and daemon |
| CandidateGate (`candidate_gate.py`) | Candidate receipts, review and repair Evidence | `gate_candidate`, `verify_repair`, `replay_plan_invalidation` | Git, RuntimeGateway |
| BatchIntegrator (`batch_integrator.py`, store, drivers) | Batch actions by phase and version, preparations, hosted results, the Integration Lease | `prepare`, `readback`, `execute` | Git, GitHub, CI |
| PlanControl (`plan_control.py`, hosts) | attempts, reservations, revisions, activations, claims on Tickets, Decisions: one control ref | `start`, `read_active`, `classify_plan_invalidations`, `activate_successor`, `advance_human_decision` | planner, GitHub |
| Human gate and successor revisions (`human_gate.py`, `successor_plan.py`, parts of `execution_kernel.py`) | gate phase, replan budgets, transitions and archived revisions in the Campaign row | part of `advance` | PlanControl, tracker |
| Campaign Watchdog (`campaign_watchdog.py`) | cursors, wakes on record and pending, due queue, due claims, one OS lock per due Campaign | `run_once`, `rebuild_due_queue` | ExecutionKernel, event sources |
| Production composition (`production_host.py`, `production_activation.py`, `entry.py`) | configuration | wires the modules, calls `advance` | all |
| Activation, transition, cutover (`activation.py`, `transition.py`, `cutover_guard.py`, `reconstruction.py`) | writer generation, cutover journal | hand-over between writers | GitHub, SQLite |
| V2 kernel and V6 orchestrator (`kernel.py`, `runtime.py`, `goal_driver.py`, `orch*.py`), `scripts/` | their own stores | predecessors; release tooling | |

What makes each of them correct, and what is hard about it:

* **ExecutionKernel store.** Several processes save one row by compare-and-swap
  on a version. Hard: conflicts, a process that dies after its write, and
  readers that share the version cache with a running advance. Correct: no
  acknowledged fact is lost, no stale document is saved, but for the reads that
  refresh the cache of a running advance (section 5).
* **ExecutionKernel scheduling.** Every save is a point where the process may
  die; what was executed is then known only to the effect owner. Hard: six scans
  with different conditions, receipts, resumes, wakes seen twice, stale
  deadlines, reports that arrive during an effect. Correct: Slots, resources and
  dependencies are respected, nothing is executed without intent or after its
  readback, an advance ends, or goes round a loop that can be named (section 5).
* **Successor revisions.** Two stores move from one revision to the next, one
  write at a time. Hard: a death between intent, activation, claims and migration; two
  kinds of successor that share one row; budgets that outlive the revisions they
  count. Correct: nothing is activated that the row did not announce, nothing on
  human authority without a durable approval, no more successors than the Policy
  allows, and a row left behind catches up.
* **ProductionWorkRunEffects.** Providers are called outside the transactions,
  claims outlive the calls that took them and are taken over when they are old.
  Hard: a slow owner and its successor, a death between claim and record, a
  failure that keeps the claim. Correct: one owner per open action, receipts and
  claims agree, what was recorded stays, an interrupted action is recovered.
* **RuntimeGateway.** A provider effect is dispatched under a durable one-shot
  claim and proved by a readback. Hard: CLI calls that time out and land later,
  deaths after the dispatch, two processes on one action. Correct: one Workspace
  and one Agent per action, every effect under way on record, the two journals
  consistent, a fenced Worker stopped.
* **CandidateGate.** Review Evidence belongs to one Candidate. Correct: nothing
  is accepted on Evidence of another subject, one repair at most.
* **BatchIntegrator.** The target branch moves on its own; a Batch fails as a
  whole and dissolves into Singletons. Hard: the lease without expiry, retries,
  a merge whose readback is refused. Correct: integrations are serial and rest on
  evidence, a Candidate is merged once, nothing but a death leaves the lease behind.
* **PlanControl.** Calls of many processes interleave on one ref. Hard: recovery
  of a call that died after any transaction, reservations that outlive their use,
  a writer that drains. Correct: a Ticket has one Campaign, revisions form a
  chain, what was committed can be rolled forward.
* **Watchdog.** Several processes drain one queue of wakes and claim due Campaigns
  from snapshots that may be old. Hard: what a run that failed leaves behind in
  wakes, locks, claims and leases. Correct: no wake is lost, one process at a time
  serves a due Campaign, and what is due is advanced in the end.

## 2. Modules

| module | models |
|---|---|
| `KernelStore` | `_load`, `_read_state`, `_save_state`, `_save`, unlocked readers, restarts |
| `EffectLedger` | abstract: what the kernel promises the effect owner |
| `WorkRun` | the Work Run record, `_next_due_run` and the decisions that need no effect |
| `ExecutionKernel` | `advance` on one revision: one action per save or external call; implements `EffectLedger` |
| `SuccessorRevision` | `advance` from one revision to the next: reports, budgets, classification, human gate, activation, migration |
| `ClaimLedger` | `ProductionWorkRunEffects.readback` and `execute`: claims, receipts, takeovers |
| `BatchDelivery` | `BatchIntegrator`: formation, preparation, delivery steps, retries, Singletons, lease |
| `PlanControl` | `start`, `activate_successor`, `classify_plan_invalidations`: one action per repository transaction |
| `RuntimeBinding` | `RuntimeGateway.progress` and `transition` on one action, the Paseo adapter, the CLI and the daemon |
| `Watchdog` | `CampaignWatchdog.run_once` of several processes: wakes, cursor, due queue, due locks and claims |
| `MC*` | definitions for TLC: plans, asks, symmetry |
| `*_proof` | theorems about `KernelStore`, `ExecutionKernel`, `SuccessorRevision`, `ClaimLedger`, `BatchDelivery`, `PlanControl`, `RuntimeBinding`, `Watchdog` |

How the modules meet: `ExecutionKernel` keeps one revision fixed and
`SuccessorRevision` takes its Work Runs as four phases; both start `advance` with
the same reconciliation. The effect owner of `ExecutionKernel` answers anything;
`ClaimLedger` shows that what it answers once it always answers
(`AnswersDurable`). RuntimeGateway and BatchIntegrator are one step each there;
`RuntimeBinding` and `BatchDelivery` have their transactions. Of an activation
`SuccessorRevision` has the two transactions that a later advance can tell apart, the
activation and the claims; `PlanControl` has them all. `Watchdog` is what calls
`advance` again and again, which the liveness of `ClaimLedger` and
`SuccessorRevision` assumes; there `advance` is one step that sets the next due time.
`ClaimLedger` also decides whether a delivery is executed again, which `BatchDelivery`
therefore does not assume.

### KernelStore

`row` is the SQLite row (version 0: none), `cache[k]` is `_campaign_row_versions`
of kernel object `k`, `mem[k]` the document its advance works on, `peek[k]` a
read by `inspect` or `watchdog_snapshot` between its SELECT and its assignment
to the cache. The document is a set of facts. A save compares `cache[k]` with
`row.version`, as the SQL does; a refused save reads back and either finds its
own document or raises `EXECUTION_STORE_CAS_CONFLICT`. `base`, `acknowledged`,
`refreshed` (the cached version came from an unlocked read) and `overrun` (what saves
over such a version have dropped) are ghosts. `Restart` forgets everything but the row.

### WorkRun and ExecutionKernel

`state` is the durable row. `state.runs[t]` has one field for each field of a
run that a decision reads (the record `Run` names the Python keys);
`state.effects[a]` is `intent`, `attempted` (`execute_attempted`) or
`read_back`, with the receipt of stale actions. `pc` walks through `advance`:

    reconcile -> report -> classify -> wake -> scan -> (bind) -> intent
      -> readback -> execute -> apply -> (record) -> settle -> scan ...

| code | actions |
|---|---|
| `_reconcile_plan_invalidations` | `Advance`, `ReconcileQuiesce`, `ReconcileRelease`, `ReconcileSkip`, `ReconcileEnd` |
| `_apply_plan_invalidation` | `TakeReport`, `ApplyReport`, `SettleReport` |
| classification | `Classify`, `ClassificationConflict`, `ApplyResume`, `NotResumed` |
| `_next_due_run` | `Scans`, `IsNextDue`, `Return`, `StartExhausted`, `StartFollowUp`, `StartStale`, `StartOrdinary` |
| `_perform_due_effect` | `BindRequest`, `Intent`, `ReadbackFound`, `ReadbackNone`, `ExecuteAnswered`, `ExecuteLost`, `RejectBinding`, `ApplyCandidate`, `RejectAccepted`, `Settle` |
| `_perform_stale_effect`, `_perform_stale_follow_up` | `StaleCandidate`, `RejectReceipt`, `RecordStale`, `SettleMechanical`, `StartDiagnosis`, `SettleDiagnosis`, `SettleFollowUp`, `ExecuteNone` |
| time and death | `DeadlinePasses`, `ExecuteLost`, `Crash` |

A step ends at a save or at a call of the effect owner. `Crash` and every raised
`ExecutionKernelError` drop the locals (`job`, `call`, `todo`); `performed`
survives, because the effect owner has acted. Advances are one at a time
(`_campaign_lock`); several processes are the subject of `KernelStore`.

Abstractions: digests, timestamps and reasons are left out. A Candidate is the
number of its distinct commit within the Work Run, a Runtime Binding is none,
first or replacement, a deadline is none, armed or due. The effect owner answers
anything `WorkRunObservation` admits among the phases the configuration allows;
it may know nothing of an action that it has performed.

### SuccessorRevision

`active`, `claimed`, `activations`, `attempts`, `consulted`, `answers` and
`gateAttempts` are PlanControl's side, `source` is what the tracker says of the change
a Decision asks for, `row` the Campaign row: its revision, a phase per Work Run, reports
(`records`, `resolved`), the classification, the human gate, the two transitions,
`used` (`successor_revisions_used`), `spent` (the Evidence of each obligation) and
the lineage. `pc` is the next write of `advance`:

    load -> reconcile -> (report -> fence) -> classify -> settle -> apply -> human
      human -> decide -> attempt -> intent -> plan -> publish -> cross -> finalize
            -> attest -> finish -> adopt -> close -> due
      due -> activate -> finalize -> migrate -> work

| code | actions |
|---|---|
| `_load_initialize_or_reconcile_successor` | `Load`, `LoadSuccessor` |
| `_reconcile_plan_invalidations` | `Reconcile` |
| `_apply_plan_invalidation`, `_record_replan_budget_evidence` | `ReportNew`, `ReportAgain`, `ReplayReport` |
| `_classify_plan_invalidations_if_needed`, `_apply_invalidation_classification`, `_ensure_human_gate` | `SkipClassify`, `ExhaustSuccessors`, `Reclassify`, `Consult`, `Settle`, `Apply` |
| `_advance_human_gate`, `_resume_human_successor` | `Resume`, `NoChoice`, `Answer`, `Decide`, `SaveGateAttempt`, `SaveHumanIntent` |
| `PlanControl.advance_human_decision` | `PlanHuman`, `PublishHuman`, `CrossHuman`, `FinalizeClaims`, `AttestHuman` |
| `_finish_human_successor` | `FinishHuman`, `AdoptHuman`, `CloseGateAttempt` |
| `_activate_successor_if_due`, `_reconcile_successor_revision` | `SaveIntent`, `Activate`, `FinalizeClaims`, `Migrate`, `NoSuccessor` |
| `PlanControl.start` on the Tickets of the active revision | `RollForward` |
| the scan, errors, deaths, the tracker | `Work`, `Return`, `Raise`, `Crash`, `Publish` |

Every refusal of the code is the negation of an operator `May...` at its position,
and `Raise` ends the advance there. Abstractions: a Ticket has one obligation; a
Work Subject is the revision that gave it to its Ticket, and a successor changes
any set of them; an action over an Evidence set is the set. The budget checks at
activation and at approval repeat the one before classification for the same
counter and are left out. Left out as well: successors that an operator starts,
Campaigns whose row is from before the budgets, the cutover.

### ClaimLedger

`receipts` and `claims` are the two SQLite tables, `provider` is what
RuntimeGateway or BatchIntegrator knows of an action, `consumed` the actions whose
observation the kernel has saved. `replayed[h]` is `_replayed_effect`. `pc[h]` and
`call[h]` are the position and the locals of the call of execute in the advance of
host `h`:

    idle -> due -> reserve -> execute -> (progress -> gate | deliver) -> record -> answered -> due
                     |  ^
                     v  |
       stale -> (probing) -> takeover | wait

| code | actions |
|---|---|
| `ProductionGwoHost.advance` | `Begin`, `End`, `Settle` |
| `readback`, `execute` | `Replay`, `Enter` |
| `_claim_or_wait` | `Reserve`, `ReserveCached`, `ReserveHeld`, `NotRecoverable`, `Takeover`, `TakeoverLost`, `Poll`, `Deadline` |
| `_read_terminal_runtime`, `_has_authoritative_batch_readback` | `ProbeRuntime`, `ProbeReturns`, `ProbeFails`, `ProbeDelivery` |
| `_execute_semantic` | `Progress`, `ProgressReturns`, `AdoptTerminal`, `Gate` |
| `_execute_batch` | `Defer`, `Prepare`, `Deliver`, `DeliveryPending` |
| `read_stale` | `ReadStale` |
| `_record` | `Record`, `RecordRefused` |
| `_execute_claimed` on an exception | `Fail`, `FailUndispatched` |
| time, agents, hosted checks, death | `AgeAbandoned`, `AgeLive`, `Finish`, `Crash` |

A step is one transaction or one call of a port. A token is a number that no claim
and no running call compares with, in place of a UUID. Of an observation the model
keeps whether its binding still runs. `claimed_at` is one bit, older than the wait
or not; a takeover compares owner and `claimed_at`, which change together. An
exception that leaves `execute` ends the whole advance. The kernel is reduced to
its order: a delivery after a settled semantic action, a stale readback after a
running one. `ExecutionKernel` is the detailed kernel; its environment assumption,
that a readback answers with what an execute recorded, is what `AnswersDurable`
states of this module.

### BatchDelivery

`records`, `prepared`, `receipts` and `lease` are the four tables of
`_batch_integrator_store.py`, `refs` and `published` the Batch refs and published
SHAs, `checks` what the hosted suite answers next, `retried` the retry keys the
provider honours, `head` and `merged` the target branch. A request has two processes:
its owner, who has the claim of its action (ClaimLedger) and executes it, and a probe,
who finds that claim old and prepares the delivery without it to see whether it is
settled (`_has_authoritative_batch_readback`, `production_effects.py:1289-1300`).
Requests of different Campaigns meet at the target and at the lease. `orphaned` says
that the holder of the lease has died with it.

| code | actions |
|---|---|
| `form_batch_members`, `prepare` | `FormBatchMembers`, `Freeze`, `Compose`, `CreateAction` |
| `_execute_batch`, `execute` | `Deliver`, `Resume` |
| `_has_authoritative_batch_readback` | `Probe`, `PreparationEnds` |
| Singleton fallback | `QueueSingletons`, `IntendSingleton`, `BuildSingleton`, `AppendSingleton`, `FinishQueue`, `FoldSingleton` |
| local and hosted checks | `LocalCheck`, `Publish`, `HostedResult`, `PerformRetry`, `ReadPendingAgain`, `Classify` |
| integration | `AcquireLease`, `Integrate`, `VerifyTarget`, `ReleaseLease`, `BlockIdentityFailure` |
| every save | `Commit` |
| death, pushes by others, the hosted suite | `Crash`, `Push`, `Conclude` |

The version column is not counted: `overtaken` has the processes whose copy of their
request's record another process has written over since, whose compare-and-swap then
fails. Left out are combinations that no write produces: a wait with
`resume_required`, a wait with a next check, a Singleton index past the end.

### PlanControl

The eight tables of the control ref are `attempts`, `splits`, `planning`,
`pending`, `claims`, `revisions`, `activations` and `classifications`; `authority`
is the writer's status that the cutover keeps on the same ref, `outputs` what
RuntimeGateway keeps of finished Planning, `evidence` and `settled` what the kernel
reports and saves. Each action is one repository transaction (`Reserve...`,
`Save...`, `Publish`, `Activate`, `FinalizeClaims`, `Relinquish`, ...) with the
reads of immutable records that lead to it; `May...` is its guard and `Refuse` the
error it raises instead. `Abandon` ends a call after any transaction,
`LoseActivation` loses the answer of the activation, `Drain` starts the cutover.

A revision is its number: a Campaign has one attempt per predecessor and one
revision per attempt. Human Decisions, prompts, artifacts, budgets and the ledger
of Planning dispatches are left out.

### RuntimeBinding

One stable action. `journal` is the Gateway's last observation, `intent` the
adapter's Workspace intent, `action` its action record with the pending flags,
`workspaces`, `agents` and `agent` the daemon, `calls` the provider effects under
way, live or orphaned. `pc` walks through a call:

    see -> (lookup -> reserve -> create -> creating -> commit) -> note
        -> gate -> claim -> dispatch -> wait -> see -> record

| code | actions |
|---|---|
| `progress`, `transition` | `Call`, `See`, `Heading`, `Note`, `Record` |
| Workspace preparation | `Prepare`, `Lookup`, `Reserve`, `Create`, `CreateEnds`, `CreateNotDispatched`, `Commit` |
| one-shot gate and durable claims | `Gate`, `Claim`, `NotDispatched`, `Undo` |
| CLI process | `Issue`, `Succeed`, `Fail`, `Lost`, `Quiesce` |
| daemon, Worker, death | `Land`, `WriteResult`, `EndTurn`, `Die` |

A record is compared by value, as `_compare_and_set_action` does, so that the model
has the code's ABA cases. Permission responses, wake events, recovery budgets,
availability fallback, the Planning dispatch ledger, a `transition` that starts
work, the statuses a running Worker may report beyond running and finished, and the
files and digests that make a readback exact are left out.

### Watchdog

`wakes`, `pending`, `source`, `due` and `claims` are the five tables of the store,
`lock[c]` the process that has the OS lock of a due Campaign, `check[c]` the
`next_check_at` the kernel answers with, `published` the length of the event stream.
`run[p]` has the locals of `run_once`; `pc[p]` walks through it:

    idle -> drain -> read -> publish -> drain -> snapshot -> rebuild -> claim
      -> (look -> drain -> after) ... -> (survey -> finish) -> idle
    drain: (advance -> ack) ...

| code | actions |
|---|---|
| `_drain_pending_wakes`, `_pending_wake_is_current`, `_ack_pending_wake` | `Begin`, `NextWake`, `AdvanceReturns`, `Ack` |
| the event streams of `run_once` | `ReadPage`, `SkipPage`, `CursorConflict`, `PublishPage` |
| `rebuild_due_queue` | `Snapshot`, `Rebuild` |
| `_claim_due_work` | `ClaimDue` |
| the loop over due claims, `_release_due_claim`, `_ack_due_claim` | `NotDue`, `RecordDue`, `SettleClaim` |
| errors, deaths, time, leases, events | `Fail`, `Die`, `Tick`, `Expire`, `PublishEvent` |

A claim row is its owner while the lease runs: a lease holds back only the process
that still has the lock, so the rows of a dead process are dropped. The locks of one
`_claim_due_work` are taken in one step. There is one event stream; the checks of
schema, pages and snapshots are left out.

## 3. Runs

| run | instance | what it shows |
|---|---|---|
| `store` | two processes advance, one of them is inspected meanwhile, 2 facts, 3 versions | a stale document is saved, and an acknowledged fact is lost, only over a version that an unlocked read has refreshed |
| `slots` | 2 Tickets, one Slot, parking, waits, reports, deaths | the checked Slots hold, a reported run performs nothing but a follow-up and releases its Slot only when quiescent, reconciliation never finds a phase it cannot stop, an advance returns or is in a loop of section 5 |
| `plan` | 3 Tickets, one blocked, two on one workspace, 2 Slots, terminal readbacks, deaths | no semantic effect before the blocker is complete, a second holder of an Exclusive Resource only after an interrupted admission (section 5) |
| `stale` | 1 Ticket, 4 Candidates, readback, diagnosis, follow-up, delivery, deaths | the Candidate budget ends all effects, `advance` implements `EffectLedger`, an advance returns or is in a loop of section 5 |
| `claims` | 2 processes, one Work Run, one death, failure and slow owner | an open action is executed under its claim, receipts and claims agree, answers last, semantic outcomes are recorded in the end |
| `batches` | 2 Campaigns, 4 Tickets, a Batch that may be dissolved, one retry, one death, push or probe | serial and evidenced integration, no Candidate merged twice, one verdict that is true of all members, the lease is accounted for |
| `revisions` | 2 racing calls, 2 Campaigns that want one Ticket, 2 revisions | Ticket exclusivity, a chain of revisions, an active revision can be rolled forward but for the case of section 5, a draining writer begins nothing |
| `recovery` | 1 call at a time that may die, Campaigns that do not overlap, an oversized snapshot, growing Evidence | a compiled plan keeps its Tickets; a committed activation is rolled forward by a replay of the operator's start |
| `runtime` | 2 processes with different asks, late `run`, `send` and `label`, one orphaned effect | one Workspace and one Agent, effects under way are on record, the journals agree and do not go back, a fenced Worker stays stopped |
| `successors` | 1 Ticket, 2 Evidence digests, 2 successors, 1 invalidation per obligation, one death | budgets hold, activations are announced and authorized, a row left behind catches up once the Tickets are claimed |
| `watchdog` | 2 processes, 2 Campaigns due together, 1 event, one failed run or death | no wake is lost, the due lock excludes until something fails, what is due is advanced |
| `human_crossing` | violation: 1 Ticket, 1 digest, one death | see section 5 |

**Bounds.** Every bound is a constant or named in its module: `MaxVersion`,
`MaxReport`, `MaxResume`, `MaxCandidate`, `Token`, `MaxCrash`, `MaxFailure`,
`MaxSlow`, `MaxFault`, `MaxAbandon`, `MaxOrphan`, `MaxTime`, `Limit`. The instances are the
smallest in which the hazard happens: two processes for a race, two Tickets for one
Slot, a fourth Candidate for the budget of three, a second successor for a budget
that has to survive a migration, two Singletons for a fold over several calls,
two Campaigns of one claim for a lock that a failed run leaves behind,
8 tokens for every takeover a death and a slow owner can cause. Crashes of
`ExecutionKernel` and `KernelStore` are not bounded. `MaxOrphan` bounds how many
orphaned effects exist at one time, not how many there are; `Late` names the
effects that may still land after their CLI process timed out. `recovery` keeps its
Campaigns' Tickets apart, because an abandoned reservation of one Campaign may block
the other one for good, and has one call at a time: its liveness is about deaths, and
calls that race are the subject of `revisions`. Some properties have an exception in
their own statement, each a thing the code does (section 5): `AcknowledgedDurable` and
`StaleWriterFailsClosed` the refreshed version, `AdvanceReturns` the loops,
`ActiveRecoverable` and `CompiledHoldsTickets` the Campaigns in `renewed`,
`PendingEvidence` the label call that timed out. The instances contain these cases,
except that no call of `recovery` can be overtaken.

**Fairness.** `slots` and `stale` assume only that a running advance goes on; nothing
makes a caller call again. `claims` assumes that processes run, that time passes (strong
fairness of the wait's deadline, because `Poll` interrupts it), that agents and
hosted checks end; a death, a failure and a slow owner are bounded. `batches`
assumes nothing: no schedule brings back a delivery whose owner died, because its
claim stays with the dead owner (section 5). `watchdog` assumes that every process
that lives calls `run_once` again and goes on with it, and that leases run out; one
failure or death is allowed. `recovery` assumes that running calls go on and that an
operator replays the start of an active Campaign again and again; no wake does that, since
`continue_start` goes back to `start` only while there is no activation
(`plan_control_host.py:820-853`). `successors` and `human_crossing`
assume that advance runs to its end and that the Watchdog repeats it without a
report and without a choice; that an operator starts the Campaign again is possible
there and not assumed.

**Types.** Every module has a `TypeOK`. Those of `KernelStore`, `ClaimLedger`,
`BatchDelivery`, `PlanControl`, `RuntimeBinding`, `SuccessorRevision` and `Watchdog` are
proved; that of `ExecutionKernel` was checked with the constants of its runs and is left
out of them.

## 4. Proofs

All proofs are checked by TLAPS for every value of the constants that satisfies
the named assumptions.

* **KernelStore_proof.** The inductive invariant says that the version a process
  expects is the version its document was built from, unless an unlocked read has put
  it there (`CacheIsBase`), that a document or readback of the current version holds
  the whole row (`HoldsRow`), and that the row has every acknowledged fact outside
  `overrun` (`RowInv`). There is no hypothesis about who inspects: the exception is in
  the properties, and the proof shows that there is no other.
* **ExecutionKernel_proof.** `advance` implements `EffectLedger`: every step is a
  step of the ledger of one action or a stutter. The invariant relates the position
  of the advance to the durable state of the effect it is about: before `execute`
  the intent is durable, and a fenced action that was performed is either read back
  or `attempted`.

  All safety properties that the runs check follow from a second invariant,
  `KernelInv`. None of them is inductive alone, because each speaks of the moment of
  the effect, and the decision was taken at the scan, some saves before. `RowInv` says
  what the row alone shows of its history: a reported Work Run is in a phase that can
  be stopped, a Slot phase has a Slot, a completed one has none, and whatever has
  started has its blockers completed. `CallInv` says that after reconciliation every
  reported Work Run is quiescent without a Slot, `WorkInv` that what the scan found
  (dependencies, free Slot, free resources, budget, no report) still holds while the
  job lasts, and `ObsInv` what an answer can bring, the exhausting Candidate among it.
  One lemma per action shows `Keeps`: the invariant again, and the two step properties.
  From it: `BlockersAreCompletedFirst`, `CheckedSlotsAreBounded`,
  `StoppedRunsPerformNothing`, `ExhaustedRunsPerformNothing`, `ReportsCanBeReconciled`,
  `ReleasedWhenQuiescent`, `AdmissionIsExclusive`. The proof showed that three
  properties had been stated too strongly and held only in small instances; what they
  now except is code (section 5): deliveries take Slots without asking, follow-ups do
  not ask for reports, and an interrupted admission is not seen by the resource check.
* **ClaimLedger_proof.** Tokens of running calls are distinct, which makes the token
  comparisons of the SQL meaningful; from it, an open action is executed under its
  claim, receipts are where claims are completed, and what was answered is what every
  readback answers.
* **BatchDelivery_proof.** `FormationIsSound` says what `form_batch_members` returns for
  any Candidates; the loop is a recursive function, and induction over it is an argument
  by the least index at which the claim fails (`LeastNat`). The invariant `IInv` is a
  conjunction over the requests. None of the safety properties is inductive alone: that
  a merged Batch is not dissolved follows from what each record says of the provider
  (`RecordOk`: a merge has a receipt, a ref, a publication and a record that is hosted,
  complete or blocked; a dissolved record has no merge), from what a dissolved Batch
  says of its Singletons (`ParentQueue`: a Singleton has a record only if the Batch is
  dissolved, and the status of a member is that of its Singleton) and from what the
  process knows at each step (`ProcInv`: its copy is the record, the record it is about
  to write satisfies `RecordOk`, from `integrate` to `release` the lease is its own). A
  step of one request leaves the others alone (`FrameKeeps`), so one lemma per action
  is about its own request. The probe shares the records of that request: `Current`
  says when a process may still rely on its copy, and `AsideKeeps` that what the other
  process knows survives a step; a Batch that composes has no probe past `create`, which
  is why only the preparation of a conflicting Batch is written by two. The last
  invariant, `LeaseInv`, follows the holder of the lease into its death. It assumes that
  Tickets of distinct Campaigns are distinct, which `TicketsAreExclusive` shows of
  PlanControl.
* **PlanControl_proof.** `TypeCorrect`; `TicketsAreExclusive`, where exclusivity is
  inductive together with the types because every table that adds a Ticket checks
  all three tables in its own transaction; `RevisionsFormAChain` and
  `DrainingBeginsNothing`, two action properties over all transactions.
  The other three are about recovery. `ActiveRecoverable` is not inductive: a
  finalization takes every pending reservation of its Campaign away, that of a successor
  too. The invariant `Recovers` says why there is none yet. An attempt on the active
  revision, and a call that works on one, exist only once that revision was rolled
  forward (`AttemptFollows`, `CallInv`); claims never run ahead of the active revision
  (`ClaimsFollow`), so exact claims mean that its receipt is not pending any more; a
  compiled plan holds its Tickets until it is active, and what a call is about to turn
  into a receipt is still reserved. One step alone breaks it: `ReserveClaims` that makes
  the receipt of an active revision pending again. `renewed` has the Campaigns where
  that has happened, and `Recovers` holds of all others, for any number of racing calls:
  `ActivationsRollForward` and `PlansKeepTickets`, without a hypothesis.
  `OneCallRenewsNothing` says that the exception needs a race: with one `Host`, which
  may die anywhere, `renewed` stays empty (`Alone`: an attempt whose reservation was
  used is compiled, classified and not reserved).
* **RuntimeBinding_proof.** All properties of the run, none of which is inductive. What
  makes an effect happen once is that the claim of it is on record, that one process
  holds the claim, and that this process has not dispatched it; the invariant `IInv`
  says so for each effect in two parts, one of the shared state (`CreateInv`, `RunInv`,
  `SendInv`, `ArchiveInv`, `LabelInv`: how many are under way, and under which claim)
  and one of what a process knows at its position (`CreateOwn`, `RunOwn`, ...), with
  `Claims` for the one holder. The hard step is the readback, which clears claims that
  it takes for finished: `Settles` says what it may clear, and `ReadbackFacts` that it
  clears nothing whose effect is still under way. For the journal, `Backs` is what an
  observation needs of the record and the daemon, and holds also of what each call is
  about to write (`JournalOwn`), since a record never loses what is observed (`Older`).
  Steps come in four sorts with their own lemmas (`Calm`, `Amends`, `Dispatch`,
  `Outside`). No theorem has a hypothesis about which effects land late: `PendingEvidence`
  excepts the label call that its caller left at the timeout (section 5), and the
  invariant speaks of the other ones (`Fence`).
* **SuccessorRevision_proof.** The inductive invariant `IInv` has the types,
  `Position` (PlanControl is at the row's revision or one ahead of it, by an
  activation the row announced), `Classification` (a saved classification other than
  none implies that the counter is below the limit and that there is Evidence),
  `Gate`, `Authority` (a human transition rests on a saved approval and a gate
  attempt) and `At(p)`, what is known at each position of `advance`. The safety
  properties are not inductive alone: that the row never falls two revisions behind
  needs what each position knows, and that the budget holds at the migration needs
  what the classification left in the row many writes and restarts before. They hold
  whether or not the Tickets were ever claimed.
* **Watchdog_proof.** `TypeCorrect`. `NoWakeLost` needs `Stream`: every recorded wake
  lies behind the saved cursor, so what a page adds beyond it is new, and a page that
  may be published begins at that cursor. It holds with any number of failures and
  deaths. `DueLockExcludes` rests on `Claims`, which holds until something fails
  (`Orderly`): a process has the locks of all Campaigns it has claimed and not yet
  settled; every pending due wake is in the hands of the process that claimed its
  Campaign (`Served`); so no drain gets as far as advancing a due wake that is not its
  own, and the lock it may take and give back for one is never the lock of a claim.
  After a failure `Served` is false, which is the case of section 5.

Only model-checked: the full `TypeOK` of `ExecutionKernel`, and every liveness property
(`AdvanceReturns`, `SemanticRecovers`, `RollsForward`, `CatchesUp`, `DueServed`),
which is out of the prover's reach, as is ENABLED.

## 5. Where the code and its texts disagree

One run ends in a violation: `human_crossing`. advance dies between PlanControl's
activation of a human successor and the save of the row.
`execution_kernel.py:5242-5248` leaves the row "so advance() can finish the transition
from this intent", but advance calls `_reconcile_plan_invalidations` first, which
requires the active revision in every record (lines 7876-7886): each later advance
raises `EXECUTION_STORE_INVALID`, also when the Tickets were claimed. After an ordinary
activation such a death is survived (`CatchesUp`), if it came after `finalize_claims`.

The following was met while modelling and is reachable in the modules or in the code
they abstract; no run is spent on it.

* *Store.* `inspect` and `watchdog_snapshot` refresh the version cache without the
  Campaign lock (`execution_kernel.py:8989`): in a process that also advances, a
  stale document passes the compare-and-swap
  (`docs/superpowers/plans/2026-08-03-gwo-v8-production-composition.md:26`) and drops
  what was acknowledged since. Run `store` has such a process; its two properties without
  `overrun` and `refreshed` fail.
* *Scheduling.* A delivery is taken up without a capacity check (8199, against
  `docs/design/gwo-v8-lean-architecture.md:641`); a stale readback `TERMINAL`
  completes a Work Run without delivery (6686, against line 58 of the same text);
  the follow-up scan asks for no pending report; `claimed_elsewhere` (7126-7137) counts
  no pending Work Run, though an admission that a crash interrupted leaves one with its
  Slot: another Work Run on the same Exclusive Resource is admitted, and the next wake
  (7073-7080) runs the first one beside it, against
  `docs/adr/0024-separate-admission-attempt-and-runtime-binding.md:7`
  (`ExclusiveAdmission` states this exception and no other; run `plan` without it
  fails); after a crash a run whose effect was
  executed and not read back stays pending and holds its Slot; the lost execute of a
  semantic or delivery action is repeated.
* *An advance that does not return.* The loop of advance (3105-3111) goes on after every
  answered effect, and after any effect once its Work Run has consumed the wake, while
  three scans do not look at the wake: follow-ups (7017-7023), stale bindings (7066) and
  deliveries (7093-7115). A follow-up or a stale effect that gets no observation, or a
  delivery that is repeated, is then selected for ever, against the comment at 3073 ("A
  bounded full fair scan"). Worse, 7066 leaves a stale binding out only if it is both
  diagnosed and disposed, and `_perform_due_effect` (8073) takes the stale path only if
  it is not disposed: a binding with a mechanical disposition that is due again gets an
  ordinary readback, whose unchanged answer changes nothing (8521-8535) and counts as
  progress. `AdvanceReturns` allows these loops (`SelectedAgain`) and shows no other;
  run `stale` reaches them.
* *Effects.* A delivery whose hosted checks are pending has phase `wait` and no
  readback: `_execute_batch` raises, the claim stays, no later call takes it over and
  the delivery is never made (`production_effects.py:1313`; `DeliveryPending` of
  `ClaimLedger` reaches it). `tests/test_v8_batch_recovery.py:111` resumes it, one
  layer below. The claim of a stale readback has no takeover; a deferred delivery keeps
  its claim (`production_effects.py:1307`); `_read_terminal_runtime` starts an action
  that is absent.
* *Batches.* A process that dies with the Integration Lease leaves it for good: the lease
  has no expiry, only its holder's delivery can take it up, the claim of that delivery
  is taken over only for a settled record (`production_effects.py:539-544`), and the
  record is `hosted` (`batch_integrator.py:1029`). `LeaseAccounted` says that only a
  death does this and that the holder could go on; nothing says that it will. A probe
  that is slower than the owner queues the Singletons of a conflicting Batch once more
  (`batch_integrator.py:958-997`, 1596-1646) and so resets the record of a Batch already
  dissolved, even complete, to an empty queue; if the target has moved since, its
  Singletons can no longer be made. `MergedOnce` and `CompleteIsMerged` hold even so.
  `execute` tells a step that was saved from one that was not by the
  version (`batch_integrator.py:1060`): after a restart that leaves one write of the
  Singleton queue, it saves the written record again and raises
  `BATCH_ACTION_CAS_CONFLICT` once; the next call goes on.
* *PlanControl.* `reserve_planning` (`plan_control.py:1050`) does not look at the
  attempt, so a call that read it before another one compiled it makes the consumed
  Planning reservation again. A third call, which had stopped just before
  `reserve_claims`, turns it into a pending activation of the receipt that is by then
  active and finalized; finalizing it removes every pending reservation of the Campaign
  (lines 1421-1426), that of a successor between `reserve_claims` and `activate` too.
  `activate` (line 1330) does not look for it. The successor is active with neither
  claims nor a reservation, and every later start raises
  `ACTIVE_PLAN_CROSS_BINDING_INVALID` (lines 4199-4203), against
  `docs/adr/0035-use-a-durable-activation-receipt-as-the-commit-point.md:23`: "After
  the receipt, recovery only rolls forward". `renewed` names the Campaigns in this
  case; without it `ActiveRecoverable` fails with two hosts, one Campaign, two revisions
  and no Evidence, and the same calls on `InMemoryPlanRepository` end the same way. A
  death between `activate` and `finalize_claims` (3556-3570) is undone by the operator's
  start alone: until then `read_active` raises `ACTIVE_PLAN_CROSS_BINDING_INVALID`
  (4194-4199) on every advance. A pending source readback is saved once and replayed
  for ever (`plan_control.py:2289-2345`, against
  `docs/superpowers/plans/2026-08-02-gate-human-approved-scope-authority.md:443`,
  though `tests/test_v8_human_gate_plancontrol.py:352` asks for it); more than one
  Planning pass per successor when Evidence grows (3842, against
  `gwo-v8-lean-architecture.md:1076`).
* *Replanning.* A human transition stays in the row after its migration and is
  preferred (`execution_kernel.py:5298`): the next ordinary successor raises
  `CAMPAIGN_REVISION_CHANGED` on every advance, and a second human Decision
  `HUMAN_DECISION_CONFLICT`. `budget_exhausted` does not stop a successor classified
  before, whose migration drops the gate (7531). A death between the last two saves
  of a human transition meets a missing `successor_transition`. Evidence that arrives
  after a saved classification ends in `PLAN_INVALIDATION_CLASSIFICATION_CONFLICT`,
  and a replan attempt for a smaller Evidence set blocks a later approval.
* *Runtime.* A fence whose label call times out marks its claim quiesced while the label
  may still land (`runtime_gateway.py:8136`), and the next readback clears it (6724-6740):
  `PendingEvidence` excepts this call; the gate compares by value, so a
  `pending_retire` that came and went is not seen; a stop that lands late leaves
  `RUNTIME_LIFECYCLE_UNKNOWN`, a lost one keeps `pending_park` without takeover;
  `_RuntimeRecoverySignal` is not caught at line 9330.
* *Watchdog.* A drain for one Campaign's due claim delivers left-over due wakes of
  others too. Of a Campaign this process has claimed itself it already has the lock,
  which the drain takes again and gives back (`campaign_watchdog.py:576-593`): the
  later dispatch of that claim runs without it, and a second process may advance the
  Campaign at the same time, against
  `tests/test_v8_campaign_watchdog.py:489` and `:627`. It takes a run that failed or
  died with its due wake recorded; `DueExclusive` without its first conjunct shows
  it. A wake whose advance always raises ends every run at its first drain, so that
  nothing else is served; `DueServed` is checked with one failure.

## 6. Not modelled, and what comes next

* **CandidateGate** next: Candidate receipts, bounded repair, the replay of a Plan
  Invalidation. Then the
  **cutover**, whose draining status `PlanControl` already has.
* Proofs that are left: the full type invariant of `ExecutionKernel` (`RowShape` is
  what its proofs need of it; the bound of resume ordinals counts reports), and an
  abstract specification of the effect owner that `ClaimLedger` implements and
  `ExecutionKernel` assumes.
* **Canonical encoding**, prompts, schemas, digests and the GitHub, Git and Paseo
  transports are data and I/O: identities are model values, and a port is one step
  that answers, fails or dies.
* **V2 kernel, goal driver, V6 orchestrator**: the predecessors, replaced by V8.
* **Release and attestation scripts** (a third of the lines of the repository):
  sequential file and process I/O without a protocol. Together with the predecessors
  they are most of what the modules do not cover.
