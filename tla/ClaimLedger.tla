----------------------------- MODULE ClaimLedger -----------------------------
(***************************************************************************)
(* The owner of ExecutionKernel's effects, ProductionWorkRunEffects of     *)
(* gwo_v8/production_effects.py: two SQLite tables, one claim and one      *)
(* receipt per stable action, and the calls of execute that race for them. *)
(*                                                                         *)
(* Hosts are processes that advance the same Campaign.  In one advance the *)
(* kernel reads back what is due and executes what has no readback.  A     *)
(* call reserves the action by inserting its claim, enters RuntimeGateway  *)
(* or BatchIntegrator, and records receipt and completed claim in one      *)
(* transaction.  A call that fails keeps its claim, unless the error       *)
(* proves that nothing was dispatched.  A claim that is older than the     *)
(* wait is taken over when the outcome outside is proven to be terminal.   *)
(*                                                                         *)
(* provider_dispatched is left out: the source stores only NULL and 1 and  *)
(* treats them alike.                                                      *)
(***************************************************************************)
EXTENDS Integers

CONSTANTS
    Host,              \* processes that call advance
    SemanticActions,   \* semantic_execution and semantic_resume
    BatchActions,      \* batch_delivery
    StaleActions,      \* stale_readback and stale_diagnosis
    Source,            \* the semantic action a later action follows
    PendingDeliveries, \* deliveries that wait for a hosted check
    Token,             \* owner tokens (fresh UUIDs in the code)
    MaxCrash,          \* bound on the deaths of processes
    MaxFailure,        \* bound on the failures of ports
    MaxSlow            \* bound on live owners that exceed the wait

Action == SemanticActions \cup BatchActions \cup StaleActions

ASSUME KindAssumption ==
    /\ SemanticActions \cap BatchActions = {}
    /\ SemanticActions \cap StaleActions = {}
    /\ BatchActions \cap StaleActions = {}
ASSUME SourceAssumption == Source \in [BatchActions \cup StaleActions -> SemanticActions]
ASSUME TokenAssumption == Token \subseteq Nat
ASSUME BoundAssumption == MaxCrash \in Nat /\ MaxFailure \in Nat /\ MaxSlow \in Nat

VARIABLES
    receipts,   \* v8_production_effect_receipts: the recorded observation
    claims,     \* v8_production_effect_claims
    provider,   \* what RuntimeGateway or BatchIntegrator knows of an action
    consumed,   \* the actions whose observation the kernel has saved
    replayed,   \* _replayed_effect: the kind last replayed in this advance
    pc,         \* where the advance of a host stands
    call,       \* the locals of its execute
    crashes, failures, slow   \* spent bounds

tables == <<receipts, claims, consumed>>
budget == <<crashes, failures, slow>>
vars == <<tables, provider, replayed, pc, call, budget>>

NoReceipt == "none"

\* A semantic observation of a binding that still runs or parks, and any other.
Observation == {"running", "settled"}

Unclaimed == [state |-> "none"]
Completed == [state |-> "completed"]
Claim(t, old) == [state |-> "in_flight", owner |-> t, aged |-> old]
ClaimValue == {Unclaimed, Completed} \cup {Claim(t, old) : t \in Token, old \in BOOLEAN}

\* absent; started: materialised, no outcome; reported: a delivery whose checks
\* have an outcome its action does not show yet; terminal: the outcome is
\* durable and reads back.
ProviderValue == {"absent", "started", "reported", "terminal"}

NoCall == [action |-> "none"]
CallValue == [action : Action, token : Token, seen : Token, attempted : BOOLEAN,
              terminal : BOOLEAN, result : Observation \cup {NoReceipt}]
AnswerValue == [action : Action, result : Observation]

Executing == {"execute", "progress", "gate", "deliver", "record"}
Calling == {"reserve", "stale", "probing", "takeover", "wait"} \cup Executing
PcValue == {"idle", "due", "answered"} \cup Calling

ReplayValue == {"nothing", "semantic", "other"}

TypeOK ==
    /\ receipts \in [Action -> Observation \cup {NoReceipt}]
    /\ claims \in [Action -> ClaimValue]
    /\ provider \in [Action -> ProviderValue]
    /\ consumed \in SUBSET Action
    /\ replayed \in [Host -> ReplayValue]
    /\ pc \in [Host -> PcValue]
    /\ call \in [Host -> CallValue \cup AnswerValue \cup {NoCall}]
    /\ \A h \in Host :
           /\ pc[h] \in Calling => call[h] \in CallValue
           /\ pc[h] = "record" => call[h].result \in Observation
           /\ pc[h] = "answered" => call[h] \in AnswerValue
           /\ pc[h] \in {"idle", "due"} => call[h] = NoCall
    /\ crashes \in 0 .. MaxCrash
    /\ failures \in 0 .. MaxFailure
    /\ slow \in 0 .. MaxSlow

Init ==
    /\ receipts = [a \in Action |-> NoReceipt]
    /\ claims = [a \in Action |-> Unclaimed]
    /\ provider = [a \in Action |-> "absent"]
    /\ consumed = {}
    /\ replayed = [h \in Host |-> "nothing"]
    /\ pc = [h \in Host |-> "idle"]
    /\ call = [h \in Host |-> NoCall]
    /\ crashes = 0 /\ failures = 0 /\ slow = 0

------------------------------------------------------------------------------
(* Helpers.                                                                *)

Goto(h, from, to) == pc[h] = from /\ pc' = [pc EXCEPT ![h] = to]

On(h) == call[h].action

InFlight(a) == claims[a].state = "in_flight"

\* WHERE stable_action_id = ? AND owner_token = ? AND state = 'in_flight'
Owns(h) == InFlight(On(h)) /\ claims[On(h)].owner = call[h].token

\* The tokens some claim or some running call still compares with.
InUse == {claims[a].owner : a \in {b \in Action : InFlight(b)}}
         \cup UNION {{call[h].token, call[h].seen} : h \in {g \in Host : pc[g] \in Calling}}

\* _claim_token: a new UUID; the least token nobody compares with stands for it.
IsFresh(t) == t \in Token \ InUse /\ \A u \in Token \ InUse : t =< u

\* What the kernel has to do next: an action it has not saved, after the
\* action it follows gave the observation that calls for it.
Due(a) ==
    /\ a \notin consumed
    /\ a \in BatchActions =>
           Source[a] \in consumed /\ receipts[Source[a]] = "settled"
    /\ a \in StaleActions =>
           Source[a] \in consumed /\ receipts[Source[a]] = "running"

ReplayKind(a) == IF a \in SemanticActions THEN "semantic" ELSE "other"

\* The exception that leaves execute also leaves the kernel and advance
\* (_end_public_advance); what the tables say of the claim stays.
Abandon(h) ==
    /\ pc' = [pc EXCEPT ![h] = "idle"]
    /\ call' = [call EXCEPT ![h] = NoCall]
    /\ replayed' = [replayed EXCEPT ![h] = "nothing"]
    /\ UNCHANGED <<tables, provider>>

------------------------------------------------------------------------------
(* The advance around the calls.                                           *)

Begin(h) ==
    /\ Goto(h, "idle", "due")
    /\ \E a \in Action : Due(a)
    /\ replayed' = [replayed EXCEPT ![h] = "nothing"]
    /\ UNCHANGED <<tables, provider, call, budget>>

End(h) ==
    /\ Goto(h, "due", "idle")
    /\ ~ \E a \in Action : Due(a)
    /\ replayed' = [replayed EXCEPT ![h] = "nothing"]
    /\ UNCHANGED <<tables, provider, call, budget>>

\* An observation reaches the kernel.
Answer(h, a, observation) ==
    /\ pc' = [pc EXCEPT ![h] = "answered"]
    /\ call' = [call EXCEPT ![h] = [action |-> a, result |-> observation]]

\* A readback that finds the receipt of the action.
ReadBack(h, a) ==
    /\ receipts[a] # NoReceipt
    /\ Answer(h, a, receipts[a])
    /\ replayed' = [replayed EXCEPT ![h] = ReplayKind(a)]

\* The kernel's readback, or the one execute starts with, finds the receipt.
Replay(h, a) ==
    /\ pc[h] = "due" /\ Due(a)
    /\ ReadBack(h, a)
    /\ UNCHANGED <<tables, provider, budget>>

\* Neither finds it: the call gets its token and its deadline.
Enter(h, a) ==
    /\ Goto(h, "due", "reserve")
    /\ Due(a) /\ receipts[a] = NoReceipt
    /\ \E t \in Token :
           /\ IsFresh(t)
           /\ call' = [call EXCEPT ![h] =
                          [action |-> a, token |-> t, seen |-> t, attempted |-> FALSE,
                           terminal |-> FALSE, result |-> NoReceipt]]
    /\ UNCHANGED <<tables, provider, replayed, budget>>

\* The kernel applies the observation and saves its row.
Settle(h) ==
    /\ Goto(h, "answered", "due")
    /\ consumed' = consumed \cup {On(h)}
    /\ call' = [call EXCEPT ![h] = NoCall]
    /\ UNCHANGED <<receipts, claims, provider, replayed, budget>>

------------------------------------------------------------------------------
(* _claim_or_wait: one transaction inserts the claim if there is none and  *)
(* reads claim and receipt.                                                *)

\* The insert took place: the call owns the claim.
Reserve(h) ==
    /\ Goto(h, "reserve", "execute")
    /\ claims[On(h)] = Unclaimed
    /\ claims' = [claims EXCEPT ![On(h)] = Claim(call[h].token, FALSE)]
    /\ UNCHANGED <<receipts, consumed, provider, replayed, call, budget>>

\* Another call has published the receipt.
ReserveCached(h) ==
    /\ pc[h] = "reserve"
    /\ ReadBack(h, On(h))
    /\ UNCHANGED <<tables, provider, budget>>

\* Another call owns the claim; only an old one is looked at further.
ReserveHeld(h) ==
    /\ pc[h] = "reserve" /\ InFlight(On(h)) /\ ~Owns(h)
    /\ Goto(h, "reserve", IF claims[On(h)].aged THEN "stale" ELSE "wait")
    /\ call' = [call EXCEPT ![h].seen = claims[On(h)].owner]
    /\ UNCHANGED <<tables, provider, replayed, budget>>

\* Only a semantic action not yet asked about, or a delivery, can be recovered.
NotRecoverable(h) ==
    /\ Goto(h, "stale", "wait")
    /\ \/ On(h) \in StaleActions
       \/ On(h) \in SemanticActions /\ call[h].attempted
    /\ UNCHANGED <<tables, provider, replayed, call, budget>>

\* RuntimeGateway.progress: an absent action is prepared and started.
Materialise(a) ==
    provider' = [provider EXCEPT ![a] = IF @ = "absent" THEN "started" ELSE @]

\* _read_terminal_runtime calls progress, without owning the claim.
ProbeRuntime(h) ==
    /\ Goto(h, "stale", "probing")
    /\ On(h) \in SemanticActions /\ ~call[h].attempted
    /\ Materialise(On(h))
    /\ call' = [call EXCEPT ![h].attempted = TRUE]
    /\ UNCHANGED <<tables, replayed, budget>>

\* Mutant: the status of the Runtime is not looked at.
ProbeReturnsAnything(h) ==
    /\ Goto(h, "probing", "takeover")
    /\ UNCHANGED <<tables, provider, replayed, call, budget>>

ProbeReturns(h) ==
    /\ Goto(h, "probing", IF provider[On(h)] = "terminal" THEN "takeover" ELSE "wait")
    /\ UNCHANGED <<tables, provider, replayed, call, budget>>

\* Any exception of the readback counts as no outcome.
ProbeFails(h) ==
    /\ Goto(h, "probing", "wait")
    /\ failures < MaxFailure /\ failures' = failures + 1
    /\ UNCHANGED <<tables, provider, replayed, call, crashes, slow>>

\* BatchIntegrator.prepare persists the delivery with its composed Batch.
PrepareDelivery(a) ==
    provider' = [provider EXCEPT ![a] =
                    IF @ # "absent" THEN @
                    ELSE IF a \in PendingDeliveries THEN "started" ELSE "reported"]

\* _has_authoritative_batch_readback prepares the delivery and reads it back.
ProbeDelivery(h) ==
    /\ On(h) \in BatchActions
    /\ Goto(h, "stale", IF provider[On(h)] = "terminal" THEN "takeover" ELSE "wait")
    /\ PrepareDelivery(On(h))
    /\ UNCHANGED <<tables, replayed, call, budget>>

\* Mutant: the UPDATE compares with the caller's own token.
SeenInFlightOwn(h) == Owns(h)

\* The guard of the UPDATE that takes a claim over.
SeenInFlight(h) == InFlight(On(h)) /\ claims[On(h)].owner = call[h].seen

\* The receipt a takeover brings along matters to semantic actions only.
Takeover(h) ==
    /\ Goto(h, "takeover", "execute")
    /\ SeenInFlight(h)
    /\ claims' = [claims EXCEPT ![On(h)] = Claim(call[h].token, FALSE)]
    /\ call' = [call EXCEPT ![h] = [@ EXCEPT !.terminal = TRUE, !.seen = call[h].token]]
    /\ UNCHANGED <<receipts, consumed, provider, replayed, budget>>

TakeoverLost(h) ==
    /\ Goto(h, "takeover", "wait")
    /\ ~SeenInFlight(h)
    /\ UNCHANGED <<tables, provider, replayed, call, budget>>

Poll(h) ==
    /\ Goto(h, "wait", "reserve")
    /\ UNCHANGED <<tables, provider, replayed, call, budget>>

\* EFFECT_EXECUTION_IN_PROGRESS.
Deadline(h) ==
    /\ pc[h] = "wait"
    /\ Abandon(h)
    /\ UNCHANGED budget

------------------------------------------------------------------------------
(* _execute_claimed.                                                       *)

Progress(h) ==
    /\ Goto(h, "execute", "progress")
    /\ On(h) \in SemanticActions /\ ~call[h].terminal
    /\ Materialise(On(h))
    /\ UNCHANGED <<tables, replayed, call, budget>>

\* A completed Runtime goes to CandidateGate, any other is the observation.
ProgressReturns(h) ==
    /\ Goto(h, "progress", IF provider[On(h)] = "terminal" THEN "gate" ELSE "record")
    /\ call' = [call EXCEPT ![h].result =
                   IF provider[On(h)] = "terminal" THEN @ ELSE "running"]
    /\ UNCHANGED <<tables, provider, replayed, budget>>

\* After a takeover the Runtime is not asked again.
AdoptTerminal(h) ==
    /\ Goto(h, "execute", "gate")
    /\ On(h) \in SemanticActions /\ call[h].terminal
    /\ UNCHANGED <<tables, provider, replayed, call, budget>>

Gate(h) ==
    /\ Goto(h, "gate", "record")
    /\ call' = [call EXCEPT ![h].result = "settled"]
    /\ UNCHANGED <<tables, provider, replayed, budget>>

ReadStale(h) ==
    /\ Goto(h, "execute", "record")
    /\ On(h) \in StaleActions
    /\ call' = [call EXCEPT ![h].result = "settled"]
    /\ UNCHANGED <<tables, provider, replayed, budget>>

\* _ProductionReplayDeferred: no delivery in an advance that replayed a
\* semantic effect.  The claim is already there, and stays.
Defer(h) ==
    /\ pc[h] = "execute" /\ On(h) \in BatchActions
    /\ replayed[h] = "semantic"
    /\ Abandon(h)
    /\ UNCHANGED budget

Prepare(h) ==
    /\ Goto(h, "execute", "deliver")
    /\ On(h) \in BatchActions /\ replayed[h] # "semantic"
    /\ PrepareDelivery(On(h))
    /\ UNCHANGED <<tables, replayed, call, budget>>

\* BatchIntegrator's readback, or its execute of a delivery whose checks have
\* an outcome; either way the readback after it agrees.
Deliver(h) ==
    /\ Goto(h, "deliver", "record")
    /\ provider[On(h)] \in {"reported", "terminal"}
    /\ provider' = [provider EXCEPT ![On(h)] = "terminal"]
    /\ call' = [call EXCEPT ![h].result = "settled"]
    /\ UNCHANGED <<tables, replayed, budget>>

\* execute observes wait (HostedResultPending); a waiting delivery has no
\* readback, so the two differ: BATCH_READBACK_INVALID.
DeliveryPending(h) ==
    /\ pc[h] = "deliver" /\ provider[On(h)] = "started"
    /\ Abandon(h)
    /\ UNCHANGED budget

\* _record: receipt and completed claim in one transaction.
Record(h) ==
    /\ pc[h] = "record" /\ Owns(h)
    /\ receipts' = [receipts EXCEPT ![On(h)] = call[h].result]
    /\ claims' = [claims EXCEPT ![On(h)] = Completed]
    /\ Answer(h, On(h), call[h].result)
    /\ UNCHANGED <<consumed, provider, replayed, budget>>

\* Mutant: the receipt is kept although no claim was updated.
RecordUnclaimed(h) ==
    /\ pc[h] = "record" /\ ~Owns(h)
    /\ receipts' = [receipts EXCEPT ![On(h)] = IF @ = NoReceipt THEN call[h].result ELSE @]
    /\ pc' = [pc EXCEPT ![h] = "idle"]
    /\ call' = [call EXCEPT ![h] = NoCall]
    /\ replayed' = [replayed EXCEPT ![h] = "nothing"]
    /\ UNCHANGED <<claims, consumed, provider, budget>>

\* Mutant: a call whose record was refused still answers.
RecordRefusedAnswers(h) ==
    /\ pc[h] = "record" /\ ~Owns(h)
    /\ Answer(h, On(h), call[h].result)
    /\ UNCHANGED <<tables, provider, replayed, budget>>

\* The claim is another's by now: the transaction is rolled back.
RecordRefused(h) ==
    /\ pc[h] = "record" /\ ~Owns(h)
    /\ Abandon(h)
    /\ UNCHANGED budget

\* An exception that does not say what was dispatched keeps the claim.
Fail(h) ==
    /\ pc[h] \in Executing
    /\ failures < MaxFailure /\ failures' = failures + 1
    /\ Abandon(h)
    /\ UNCHANGED <<crashes, slow>>

\* A port that proves that nothing was dispatched: _release_claim.
FailUndispatched(h) ==
    /\ pc[h] = "execute"
    /\ failures < MaxFailure /\ failures' = failures + 1
    /\ claims' = [claims EXCEPT ![On(h)] = IF Owns(h) THEN Unclaimed ELSE @]
    /\ pc' = [pc EXCEPT ![h] = "idle"]
    /\ call' = [call EXCEPT ![h] = NoCall]
    /\ replayed' = [replayed EXCEPT ![h] = "nothing"]
    /\ UNCHANGED <<receipts, consumed, provider, crashes, slow>>

------------------------------------------------------------------------------
(* The environment.                                                        *)

\* The process dies; only the tables survive.
Crash(h) ==
    /\ pc[h] # "idle"
    /\ crashes < MaxCrash /\ crashes' = crashes + 1
    /\ Abandon(h)
    /\ UNCHANGED <<failures, slow>>

Live(a) == \E h \in Host : pc[h] \in Executing /\ On(h) = a /\ Owns(h)

\* claimed_at gets older than _EFFECT_CLAIM_WAIT_SECONDS.
Grow(a) ==
    /\ InFlight(a) /\ ~claims[a].aged
    /\ claims' = [claims EXCEPT ![a].aged = TRUE]
    /\ UNCHANGED <<receipts, consumed, provider, replayed, pc, call, crashes, failures>>

AgeAbandoned(a) == ~Live(a) /\ Grow(a) /\ UNCHANGED slow

AgeLive(a) == Live(a) /\ slow < MaxSlow /\ slow' = slow + 1 /\ Grow(a)

\* The agent ends its work, or the hosted checks have an outcome.
Finish(a) ==
    /\ provider[a] = "started"
    /\ provider' = [provider EXCEPT ![a] =
                       IF a \in SemanticActions THEN "terminal" ELSE "reported"]
    /\ UNCHANGED <<tables, replayed, pc, call, budget>>

CallSteps(h) ==
    \/ Reserve(h) \/ ReserveCached(h) \/ ReserveHeld(h) \/ NotRecoverable(h)
    \/ ProbeRuntime(h) \/ ProbeReturns(h) \/ ProbeDelivery(h)
    \/ Takeover(h) \/ TakeoverLost(h) \/ Poll(h)
    \/ Progress(h) \/ ProgressReturns(h) \/ AdoptTerminal(h) \/ Gate(h)
    \/ ReadStale(h) \/ Defer(h) \/ Prepare(h) \/ Deliver(h) \/ DeliveryPending(h)
    \/ Record(h) \/ RecordRefused(h)

AdvanceSteps(h) ==
    \/ Begin(h) \/ End(h) \/ Settle(h)
    \/ \E a \in Action : Replay(h, a) \/ Enter(h, a)

Next ==
    \/ \E h \in Host :
           \/ AdvanceSteps(h) \/ CallSteps(h) \/ Deadline(h)
           \/ ProbeFails(h) \/ Fail(h) \/ FailUndispatched(h) \/ Crash(h)
    \/ \E a \in Action : AgeAbandoned(a) \/ AgeLive(a) \/ Finish(a)

Spec == Init /\ [][Next]_vars

\* Processes keep running and the Watchdog advances again while something is
\* due; time passes; agents and hosted checks come to an end.
Fairness ==
    /\ \A h \in Host : WF_vars(AdvanceSteps(h) \/ CallSteps(h)) /\ SF_vars(Deadline(h))
    /\ \A a \in Action : WF_vars(AgeAbandoned(a)) /\ WF_vars(Finish(a))

FairSpec == Spec /\ Fairness

------------------------------------------------------------------------------
(* Properties.                                                             *)

\* A call between its claim and its record, of an action whose outcome outside
\* is still open, owns the claim, however slow it is and whoever waits for it:
\* so no two calls execute an open action.
EffectsUnderClaim ==
    \A h \in Host :
        pc[h] \in Executing => Owns(h) \/ provider[On(h)] = "terminal"

\* There is a receipt exactly where the claim is completed: neither a call
\* that lost its claim nor a failed one leaves a receipt, and no completed
\* claim is without one.
ReceiptsHaveClaim ==
    \A a \in Action : receipts[a] # NoReceipt <=> claims[a] = Completed

\* What a kernel is told about an action is what every later readback says.
AnswersDurable ==
    \A h \in Host : pc[h] = "answered" => call[h].result = receipts[On(h)]

\* The outcome of a semantic action is recorded in the end, though its first
\* owner died or failed anywhere between claim and record.
SemanticRecovers ==
    \A a \in SemanticActions :
        provider[a] = "terminal" ~> receipts[a] # NoReceipt
===============================================================================
