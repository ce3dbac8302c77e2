---------------------------- MODULE BatchDelivery ----------------------------
(***************************************************************************)
(* BatchIntegrator of gwo_v8/batch_integrator.py with its SQLite journal   *)
(* and Git driver: accepted Candidates are frozen into a Batch, composed   *)
(* against one target head, checked locally, published, checked by the     *)
(* hosted suite and integrated under the repository's Integration Lease.   *)
(* A Batch whose code fails is dissolved once into Singleton Batches.      *)
(*                                                                         *)
(* One Campaign delivers one request at a time.  The claim of its stable   *)
(* action (ClaimLedger) lets one process execute it, its owner, which may  *)
(* die between any two durable writes.  But whoever finds the claim older  *)
(* than ten seconds prepares the delivery as well, without the claim, to   *)
(* see whether it is settled (_has_authoritative_batch_readback): a probe  *)
(* beside an owner that is slow or dead, which never executes.  Requests   *)
(* of different Campaigns meet at the target and at the lease.             *)
(*                                                                         *)
(* The version column of the journal is not counted: overtaken says whose  *)
(* version of a request's record another process has written over since.   *)
(***************************************************************************)
EXTENDS Integers, Sequences, SequencesExt, FiniteSets

CONSTANTS
    Request,       \* delivery requests, one per Campaign
    Ticket,
    Offered,       \* the accepted Candidates of a request, oldest first
    Protected,     \* Tickets that require a Singleton Batch
    Incompatible,  \* pairs of Tickets that may not share a Batch
    MemberLimit,
    RetryLimit,    \* infrastructure_retry_limit
    Flaky,         \* requests whose own hosted check can fail for infrastructure
    MaxFault       \* bound on deaths of processes, pushes by others and probes

\* A request offers a Candidate at least, and a Ticket is in one Campaign only
\* (PlanControl: TicketExclusive).
ASSUME OfferedAssumption ==
    /\ Offered \in [Request -> Seq(Ticket)]
    /\ \A r \in Request : Offered[r] # <<>>
    /\ \A r, s \in Request : r # s => Range(Offered[r]) \cap Range(Offered[s]) = {}
ASSUME LimitAssumption == MemberLimit \in 1..4 /\ RetryLimit \in Nat
ASSUME BatchBoundAssumption == MaxFault \in Nat
ASSUME FlakyAssumption == Flaky \subseteq Request

Whole == "whole"
NoTarget == -1
None == "none"
ASSUME NameAssumption == Whole \notin Ticket /\ None \notin Request

Nobody == [request |-> None, ticket |-> None]

\* The stable actions: a request's own, and one per Singleton of its fallback.
Parent(r) == [request |-> r, ticket |-> Whole]
Child(r, t) == [request |-> r, ticket |-> t]
Parents == {Parent(r) : r \in Request}
Children == UNION {{Child(r, Offered[r][i]) : i \in DOMAIN Offered[r]} : r \in Request}
Action == Parents \cup Children

\* The processes of a request: the owner of its claim, and a probe.
Role == {"owner", "probe"}
Process == [request : Request, role : Role]
Owner(r) == [request |-> r, role |-> "owner"]
Prober(r) == [request |-> r, role |-> "probe"]
Other(p) == IF p.role = "owner" THEN Prober(p.request) ELSE Owner(p.request)

VARIABLES
    records,    \* v8_batch_delivery_actions
    prepared,   \* v8_batch_preparations: the requests with frozen members
    receipts,   \* v8_batch_hosted_receipts: the terminal outcome
    lease,      \* v8_batch_integration_leases: the holder, for one repository
    overtaken,  \* the processes whose version of their request's record is old
    refs,       \* the actions whose Batch ref exists
    published,  \* the actions whose Batch SHA is published
    checks,     \* what the hosted suite answers for a Batch SHA
    retried,    \* the retry keys the provider has honoured
    head,       \* the target branch: its number of commits
    merged,     \* the commit that merged an action, 0 for none
    bound,      \* the target of a request, fixed by its first use
    conflicting,\* requests whose members do not compose
    proc,       \* what a process is doing
    orphaned,   \* the holder of the lease has died with it
    faults      \* deaths, pushes and probes so far

journal == <<records, prepared, receipts, lease, overtaken>>
hosted == <<published, checks, retried, merged>>
history == <<orphaned, faults>>
vars == <<journal, refs, hosted, head, bound, conflicting, proc, history>>

Terminal == {"complete", "decision", "blocked"}
Settled == Terminal \cup {"wait"}
Phases == {"absent", "prepared", "local_checked", "published", "hosted"} \cup Settled
Statuses == {"preserved", "integrated", "resume_required", "blocked"}
Outcomes == {"pending", "passed", "code_failure", "infrastructure_failure"}

\* waits: what a wait is for.  built, intent, ready and next belong to the
\* Singleton fallback: its queue is built one intent at a time, then walked.
Record ==
    [phase : Phases, members : Seq(Ticket), target : Nat, retries : 0..RetryLimit,
     generation : 0..1, waits : {"nothing", "pending", "retry"}, built : Nat,
     intent : Nat \cup {NoTarget}, ready : BOOLEAN, next : Nat,
     status : Seq(Statuses)]

NoRecord ==
    [phase |-> "absent", members |-> <<>>, target |-> 0, retries |-> 0,
     generation |-> 0, waits |-> "nothing", built |-> 0, intent |-> NoTarget,
     ready |-> FALSE, next |-> 1, status |-> <<>>]

NewRecord(members, target) ==
    [NoRecord EXCEPT !.phase = "prepared", !.members = members, !.target = target,
                     !.status = [i \in DOMAIN members |-> "preserved"]]

\* work: the action being stepped, the request's own or one of its Singletons.
\* rec: its record as the process last read or wrote it.  next: the record the
\* step wants.  preparing: the step runs inside prepare, which execute follows.
Idle == [pc |-> "idle", work |-> Nobody, rec |-> NoRecord, next |-> NoRecord,
         preparing |-> FALSE]

Pcs == {"idle", "freeze", "compose", "create", "queue", "build", "append", "step",
        "commit", "integrate", "verify", "release", "mismatch", "fold"}

Init ==
    /\ records = [a \in Action |-> NoRecord]
    /\ prepared = {}
    /\ receipts = [a \in Action |-> "none"]
    /\ lease = Nobody /\ overtaken = {}
    /\ refs = {} /\ published = {}
    /\ checks = [a \in Action |-> "pending"]
    /\ retried = [a \in Action |-> {}]
    /\ head = 1
    /\ merged = [a \in Action |-> 0]
    /\ bound = [r \in Request |-> 0]
    /\ conflicting \in SUBSET {r \in Request : Len(Offered[r]) > 1}
    /\ proc = [p \in Process |-> Idle]
    /\ orphaned = FALSE /\ faults = 0

-------------------------------------------------------------------------------
\* Formation: the oldest Candidate is the seed, the others join it in order.

Joins(t, selected) ==
    /\ Len(selected) < MemberLimit
    /\ t \notin Protected
    /\ \A i \in DOMAIN selected : {t, selected[i]} \notin Incompatible

\* The members selected among the candidates up to each of them.
Selections(candidates) ==
    LET selected[i \in DOMAIN candidates] ==
            IF i = 1 THEN <<candidates[1]>>
            ELSE IF Joins(candidates[i], selected[i - 1])
            THEN Append(selected[i - 1], candidates[i]) ELSE selected[i - 1]
    IN  selected

FormBatchMembers(candidates) ==
    IF Head(candidates) \in Protected
    THEN <<Head(candidates)>>
    ELSE Last(Selections(candidates))

-------------------------------------------------------------------------------
\* Helpers of a process.

Work(p) == proc[p].work
Rec(p) == proc[p].rec

Goto(p, pc) == proc' = [proc EXCEPT ![p].pc = pc]

\* The call returns, or raises: nothing of it survives but what is durable.
Return(p) == proc' = [proc EXCEPT ![p] = Idle]

Propose(p, next) ==
    proc' = [proc EXCEPT ![p].pc = "commit", ![p].next = next]

\* Reading the record of its request, a process has its version; writing it
\* leaves the request's other process with an old one.
Reads(p) == overtaken' = overtaken \ {p}
Overtakes(p) ==
    overtaken' = (overtaken \ {p}) \cup {q \in {Other(p)} : proc[q].pc # "idle"}

Integrating(p) == proc[p].pc \in {"integrate", "verify", "release"}

\* A compare-and-swap inside the step: BATCH_ACTION_CAS_CONFLICT if another
\* process has written the record since it was read.
Swap(p, pc, next) ==
    IF p \in overtaken
    THEN Return(p) /\ UNCHANGED <<records, overtaken>>
    ELSE /\ records' = [records EXCEPT ![Work(p)] = next]
         /\ proc' = [proc EXCEPT ![p].pc = pc, ![p].rec = next]
         /\ Overtakes(p)

\* Where the loop of execute goes on with the record rec of action a.
StepPc(a, rec) ==
    IF rec.phase \in Terminal THEN "fold"
    ELSE IF rec.generation = 0 THEN "step"
    ELSE "build"

Resume(r, a, rec) ==
    LET child == Child(r, rec.members[rec.next])
        work == IF rec.generation = 1 /\ rec.ready THEN child ELSE a
        its == IF work = a THEN rec ELSE records[child]
    IN  [Idle EXCEPT !.pc = StepPc(work, its), !.work = work, !.rec = its]

\* prepare is done: the owner executes, a probe has seen what it wanted.
PreparationEnds(p, rec) ==
    proc' = [proc EXCEPT ![p] = IF p.role = "owner"
                                THEN Resume(p.request, Parent(p.request), rec) ELSE Idle]

-------------------------------------------------------------------------------
\* prepare

\* A failed composition leaves a prepared record without a Batch ref.
Prepared(r) ==
    /\ records[Parent(r)].phase # "absent"
    /\ records[Parent(r)].phase # "prepared" \/ Parent(r) \in refs

\* prepare, by a process that finds the request not Prepared.
Prepares(r) == [Idle EXCEPT !.pc = IF r \in prepared THEN "compose" ELSE "freeze",
                            !.work = Parent(r)]

\* An unsettled delivery is executed, once or again.  That it is executed again
\* is not assumed: its claim stays with an owner that died or left it unsettled,
\* and only a settled record lets another process take it over (ClaimLedger).
\* The request is bound to the target as it was when it was first made.
Deliver(r) ==
    /\ proc[Owner(r)].pc = "idle"
    /\ records[Parent(r)].phase \notin Terminal
    /\ bound' = [bound EXCEPT ![r] = IF @ = 0 THEN head ELSE @]
    /\ proc' = [proc EXCEPT ![Owner(r)] =
                    IF Prepared(r) THEN Resume(r, Parent(r), records[Parent(r)])
                    ELSE Prepares(r)]
    /\ Reads(Owner(r))
    /\ UNCHANGED <<records, prepared, receipts, lease, refs, hosted, head,
                   conflicting, history>>

\* The claim of the request is old: somebody prepares it too.  Once it is
\* Prepared, that writes nothing.
Probe(r) ==
    /\ proc[Prober(r)].pc = "idle" /\ faults < MaxFault
    /\ bound[r] # 0 /\ ~Prepared(r)
    /\ proc' = [proc EXCEPT ![Prober(r)] = Prepares(r)]
    /\ faults' = faults + 1
    /\ UNCHANGED <<journal, refs, hosted, head, bound, conflicting, orphaned>>

\* The members are frozen durably before anything is composed.  The request
\* determines them and the target, so a second process freezes the same.
Freeze(p) ==
    /\ proc[p].pc = "freeze"
    /\ IF head = bound[p.request]
       THEN prepared' = prepared \cup {p.request} /\ Goto(p, "compose")
       ELSE Return(p) /\ UNCHANGED prepared
    /\ UNCHANGED <<records, receipts, lease, overtaken, refs, hosted, head, bound,
                   conflicting, history>>

Frozen(r) == FormBatchMembers(Offered[r])
Conflicts(r) == r \in conflicting /\ Len(Frozen(r)) > 1

\* compose_batch merges against the frozen target and creates the Batch ref.
Compose(p) ==
    /\ proc[p].pc = "compose"
    /\ IF head = bound[p.request]
       THEN /\ refs' = IF Conflicts(p.request) THEN refs ELSE refs \cup {Parent(p.request)}
            /\ Goto(p, "create")
       ELSE Return(p) /\ UNCHANGED refs
    /\ UNCHANGED <<journal, hosted, head, bound, conflicting, history>>

\* The target is read again after composition, and the record is inserted if
\* there is none.  A composition conflict becomes a record as well: whatever
\* record stands by then, the next step dissolves it.
CreateAction(p) ==
    /\ proc[p].pc = "create"
    /\ LET r == p.request
           a == Parent(r)
           new == NewRecord(Frozen(r), bound[r])
           record == IF records[a].phase = "absent" THEN new ELSE records[a]
       IN  IF ~Conflicts(r) /\ head # bound[r]
           THEN Return(p) /\ UNCHANGED <<records, prepared, overtaken>>
           ELSE /\ records' = [records EXCEPT ![a] = record]
                /\ Reads(p)
                /\ IF Conflicts(r)
                   THEN /\ proc' = [proc EXCEPT ![p].pc = "queue", ![p].rec = record,
                                                ![p].preparing = TRUE]
                        /\ UNCHANGED prepared
                   ELSE PreparationEnds(p, record) /\ prepared' = prepared \ {r}
    /\ UNCHANGED <<receipts, lease, refs, hosted, head, bound, conflicting,
                   history>>

-------------------------------------------------------------------------------
\* Singleton fallback

\* _queue_singletons: the Batch is dissolved by a durable write of its own,
\* which starts the queue from nothing.
QueueSingletons(p) ==
    /\ proc[p].pc = "queue"
    /\ Swap(p, "build",
            [NewRecord(Rec(p).members, Rec(p).target) EXCEPT
                !.phase = "wait", !.generation = 1, !.retries = Rec(p).retries])
    /\ UNCHANGED <<prepared, receipts, lease, refs, hosted, head, bound,
                   conflicting, history>>

\* The next Singleton will be composed against the target of this moment.
IntendSingleton(p) ==
    /\ proc[p].pc = "build"
    /\ Rec(p).intent = NoTarget
    /\ Rec(p).built < Len(Rec(p).members)
    /\ Swap(p, "build", [Rec(p) EXCEPT !.intent = head])
    /\ UNCHANGED <<prepared, receipts, lease, refs, hosted, head, bound,
                   conflicting, history>>

\* The Singleton is composed and its action created, if the target has stayed
\* and the Singleton, if there is one, was composed against it.
BuildSingleton(p) ==
    /\ proc[p].pc = "build"
    /\ Rec(p).intent # NoTarget
    /\ LET t == Rec(p).members[Rec(p).built + 1]
           child == Child(p.request, t)
           new == NewRecord(<<t>>, Rec(p).intent)
       IN  IF \/ head # Rec(p).intent
              \/ records[child].phase # "absent" /\ records[child].target # head
           THEN Return(p) /\ UNCHANGED <<refs, records>>
           ELSE /\ refs' = refs \cup {child}
                /\ records' = [records EXCEPT ![child] =
                                   IF @.phase = "absent" THEN new ELSE @]
                /\ Goto(p, "append")
    /\ UNCHANGED <<prepared, receipts, lease, overtaken, hosted, head, bound,
                   conflicting, history>>

AppendSingleton(p) ==
    /\ proc[p].pc = "append"
    /\ Swap(p, "build", [Rec(p) EXCEPT !.built = @ + 1, !.intent = NoTarget])
    /\ UNCHANGED <<prepared, receipts, lease, refs, hosted, head, bound,
                   conflicting, history>>

\* The queue is complete.  execute adopts the record, or, after a restart that
\* left one version to write, takes it for unwritten and raises
\* BATCH_ACTION_CAS_CONFLICT: either way the record stands and the call ends.
FinishQueue(p) ==
    /\ proc[p].pc = "build"
    /\ Rec(p).intent = NoTarget
    /\ Rec(p).built = Len(Rec(p).members)
    /\ LET done == [Rec(p) EXCEPT !.ready = TRUE]
       IN  IF p \in overtaken
           THEN Return(p) /\ UNCHANGED <<records, prepared, overtaken>>
           ELSE /\ records' = [records EXCEPT ![Parent(p.request)] = done]
                /\ Overtakes(p)
                /\ IF proc[p].preparing
                   THEN PreparationEnds(p, done) /\ prepared' = prepared \ {p.request}
                   ELSE Return(p) /\ UNCHANGED prepared
    /\ UNCHANGED <<receipts, lease, refs, hosted, head, bound, conflicting,
                   history>>

-------------------------------------------------------------------------------
\* One delivery step: an external call, then the record it wants.

\* _classify_failure
Classify(p) ==
    IF Len(Rec(p).members) > 1
    THEN Goto(p, "queue")
    ELSE Propose(p, [Rec(p) EXCEPT !.phase = "decision", !.waits = "nothing",
                                   !.status = <<"resume_required">>])

At(p, phase) == proc[p].pc = "step" /\ Rec(p).phase = phase

\* The retry is requested under the key its durable intent names.
PerformRetry(p) ==
    /\ At(p, "wait") /\ Rec(p).waits = "retry"
    /\ LET a == Work(p)
           key == Rec(p).retries
       IN  /\ checks' = [checks EXCEPT ![a] = IF key \in retried[a] THEN @ ELSE "pending"]
           /\ retried' = [retried EXCEPT ![a] = @ \cup {key}]
    /\ Propose(p, [Rec(p) EXCEPT !.phase = "published", !.waits = "nothing"])
    /\ UNCHANGED <<journal, refs, published, merged, head, bound, conflicting,
                   history>>

ReadPendingAgain(p) ==
    /\ At(p, "wait") /\ Rec(p).waits = "pending"
    /\ Propose(p, [Rec(p) EXCEPT !.phase = "published", !.waits = "nothing"])
    /\ UNCHANGED <<journal, refs, hosted, head, bound, conflicting, history>>

LocalCheck(p) ==
    /\ At(p, "prepared")
    /\ \/ Propose(p, [Rec(p) EXCEPT !.phase = "local_checked"])
       \/ Classify(p)
       \/ Return(p)
    /\ UNCHANGED <<journal, refs, hosted, head, bound, conflicting, history>>

Publish(p) ==
    /\ At(p, "local_checked")
    /\ published' = published \cup {Work(p)}
    /\ Propose(p, [Rec(p) EXCEPT !.phase = "published"])
    /\ UNCHANGED <<journal, refs, checks, retried, merged, head, bound,
                   conflicting, history>>

\* A terminal receipt is adopted; else the provider is asked, and its passed
\* or code_failure is persisted before it is used.
Outcome(a) == IF receipts[a] # "none" THEN receipts[a] ELSE checks[a]

\* Mutant: only a failure is worth a receipt.
PersistedFailures(outcome, receipt) ==
    IF outcome = "code_failure" THEN outcome ELSE receipt

Persisted(outcome, receipt) ==
    IF outcome \in {"passed", "code_failure"} THEN outcome ELSE receipt

RetryLeft(retries) == retries < RetryLimit

HostedResult(p) ==
    /\ At(p, "published")
    /\ LET a == Work(p)
           outcome == Outcome(a)
       IN  /\ receipts' = [receipts EXCEPT ![a] = Persisted(outcome, @)]
           /\ \/ /\ outcome = "pending"
                 /\ Propose(p, [Rec(p) EXCEPT !.phase = "wait", !.waits = "pending"])
              \/ /\ outcome = "infrastructure_failure"
                 /\ IF head # Rec(p).target
                    THEN Return(p)
                    ELSE IF RetryLeft(Rec(p).retries)
                    THEN Propose(p, [Rec(p) EXCEPT !.phase = "wait", !.waits = "retry",
                                                   !.retries = @ + 1])
                    ELSE Propose(p, [Rec(p) EXCEPT !.phase = "blocked"])
              \/ outcome = "code_failure" /\ Classify(p)
              \/ /\ outcome = "passed"
                 /\ Propose(p, [Rec(p) EXCEPT !.phase = "hosted"])
    /\ UNCHANGED <<records, prepared, lease, overtaken, refs, hosted, head, bound,
                   conflicting, history>>

\* Mutant: a lease is taken from whoever holds it.
LeaseTaken(a) == TRUE

\* The lease row is inserted, or found with this very action in it.
LeaseFree(a) == lease \in {Nobody, a}

AcquireLease(p) ==
    /\ At(p, "hosted")
    /\ IF LeaseFree(Work(p))
       THEN lease' = Work(p) /\ orphaned' = FALSE /\ Goto(p, "integrate")
       ELSE Return(p) /\ UNCHANGED <<lease, orphaned>>
    /\ UNCHANGED <<records, prepared, receipts, overtaken, refs, hosted, head, bound,
                   conflicting, faults>>

\* The provider merges the pull request, unless it already has.
Integrate(p) ==
    /\ proc[p].pc = "integrate"
    /\ IF merged[Work(p)] = 0
       THEN /\ head' = head + 1
            /\ merged' = [merged EXCEPT ![Work(p)] = head + 1]
       ELSE UNCHANGED <<head, merged>>
    /\ Goto(p, "verify")
    /\ UNCHANGED <<journal, refs, published, checks, retried, bound,
                   conflicting, history>>

\* The merge commit must be the target head that is read back.
VerifyTarget(p) ==
    /\ proc[p].pc = "verify"
    /\ proc' = [proc EXCEPT ![p].pc = "release",
                    ![p].next = IF merged[Work(p)] = head
                                THEN [Rec(p) EXCEPT !.phase = "complete",
                                                    !.status = [i \in DOMAIN @ |-> "integrated"]]
                                ELSE NoRecord]
    /\ UNCHANGED <<journal, refs, hosted, head, bound, conflicting, history>>

\* Mutant: only an integration that succeeded releases.
ReleaseLeaseOnSuccess(p) ==
    /\ proc[p].pc = "release"
    /\ lease' = IF proc[p].next = NoRecord THEN lease ELSE Nobody
    /\ Goto(p, IF proc[p].next = NoRecord THEN "mismatch" ELSE "commit")
    /\ UNCHANGED <<records, prepared, receipts, overtaken, refs, hosted, head, bound,
                   conflicting, history>>

\* finally: the lease is released on either way out.
ReleaseLease(p) ==
    /\ proc[p].pc = "release"
    /\ lease' = Nobody
    /\ Goto(p, IF proc[p].next = NoRecord THEN "mismatch" ELSE "commit")
    /\ UNCHANGED <<records, prepared, receipts, overtaken, refs, hosted, head, bound,
                   conflicting, history>>

\* Mutant: an identity failure is treated like a failure of the code.
IdentityFailureDissolves(p) ==
    /\ proc[p].pc = "mismatch"
    /\ records' = [records EXCEPT ![Parent(p.request)] =
           [@ EXCEPT !.phase = "wait", !.waits = "nothing", !.generation = 1]]
    /\ Overtakes(p)
    /\ Return(p)
    /\ UNCHANGED <<prepared, receipts, lease, refs, hosted, head, bound,
                   conflicting, history>>

\* DeliveryIdentityMismatch reaches execute: the request's record is blocked,
\* be it the record of the action that failed or that action's parent.
BlockIdentityFailure(p) ==
    /\ proc[p].pc = "mismatch"
    /\ LET parent == records[Parent(p.request)]
           blocked == [i \in DOMAIN parent.status |-> "blocked"]
       IN  records' = [records EXCEPT ![Parent(p.request)] =
               [parent EXCEPT !.phase = "blocked", !.status = blocked]]
    /\ Overtakes(p)
    /\ Return(p)
    /\ UNCHANGED <<prepared, receipts, lease, refs, hosted, head, bound,
                   conflicting, history>>

\* The step's record is swapped in.  A settled record ends the loop; if it is
\* a Singleton's, its parent takes note first.  The record of a Singleton, and
\* that of a Batch which composes, has no other writer.
Commit(p) ==
    /\ proc[p].pc = "commit"
    /\ LET next == proc[p].next
           own == Work(p) = Parent(p.request)
       IN  /\ records' = [records EXCEPT ![Work(p)] = next]
           /\ IF own THEN Overtakes(p) ELSE UNCHANGED overtaken
           /\ proc' = [proc EXCEPT ![p] =
                  IF next.phase \notin Settled
                  THEN [Idle EXCEPT !.pc = "step", !.work = Work(p), !.rec = next]
                  ELSE IF own THEN Idle
                  ELSE [Idle EXCEPT !.pc = "fold", !.work = Work(p), !.rec = next]]
    /\ UNCHANGED <<prepared, receipts, lease, refs, hosted, head, bound,
                   conflicting, history>>

\* Mutant: the last Singleton speaks for all of them.
VerdictOfLast(status) == IF Last(status) = "integrated" THEN "complete" ELSE "decision"

Verdict(status) ==
    IF \A j \in DOMAIN status : status[j] = "integrated" THEN "complete" ELSE "decision"

\* _advance_singleton_queue: one Singleton's result moves the parent on.  A
\* Singleton that failed earlier counts as preserved again.
Folded(parent, child) ==
    LET i == parent.next
        kept == [j \in DOMAIN parent.status |->
                    IF j # i /\ parent.status[j] = "resume_required"
                    THEN "preserved" ELSE parent.status[j]]
        result == IF child.phase = "complete" THEN "integrated" ELSE "resume_required"
        status == [kept EXCEPT ![i] = result]
        last == i = Len(parent.members)
    IN  IF child.phase = "blocked"
        THEN [parent EXCEPT !.phase = "blocked", !.status = kept]
        ELSE IF child.phase = "wait"
        THEN [parent EXCEPT !.status = kept]
        ELSE [parent EXCEPT !.status = status, !.next = i + 1,
                            !.phase = IF last THEN Verdict(status) ELSE "wait"]

FoldSingleton(p) ==
    /\ proc[p].pc = "fold"
    /\ IF p \in overtaken
       THEN UNCHANGED <<records, overtaken>>
       ELSE /\ records' = [records EXCEPT ![Parent(p.request)] = Folded(@, Rec(p))]
            /\ Overtakes(p)
    /\ Return(p)
    /\ UNCHANGED <<prepared, receipts, lease, refs, hosted, head, bound,
                   conflicting, history>>

-------------------------------------------------------------------------------
\* The environment.

\* The holder of the lease may die with it: the row stays.
Crash(p) ==
    /\ proc[p].pc # "idle" /\ faults < MaxFault
    /\ Return(p)
    /\ orphaned' = (orphaned \/ Integrating(p))
    /\ faults' = faults + 1
    /\ UNCHANGED <<journal, refs, hosted, head, bound, conflicting>>

Push ==
    /\ faults < MaxFault
    /\ head' = head + 1 /\ faults' = faults + 1
    /\ UNCHANGED <<journal, refs, hosted, bound, conflicting, proc, orphaned>>

\* The hosted suite concludes for a published Batch SHA.
Conclude(a) ==
    /\ a \in published /\ checks[a] = "pending"
    /\ \E outcome \in Outcomes \ {"pending"} :
           /\ outcome = "infrastructure_failure" => a \in {Parent(r) : r \in Flaky}
           /\ checks' = [checks EXCEPT ![a] = outcome]
    /\ UNCHANGED <<journal, refs, published, retried, merged, head, bound,
                   conflicting, proc, history>>

Continue(p) ==
    \/ Freeze(p) \/ Compose(p) \/ CreateAction(p)
    \/ QueueSingletons(p) \/ IntendSingleton(p) \/ BuildSingleton(p)
    \/ AppendSingleton(p) \/ FinishQueue(p)
    \/ PerformRetry(p) \/ ReadPendingAgain(p) \/ LocalCheck(p) \/ Publish(p)
    \/ HostedResult(p) \/ AcquireLease(p) \/ Integrate(p) \/ VerifyTarget(p)
    \/ ReleaseLease(p) \/ BlockIdentityFailure(p) \/ Commit(p) \/ FoldSingleton(p)

Next ==
    \/ \E r \in Request : Deliver(r) \/ Probe(r)
    \/ \E p \in Process : Continue(p) \/ Crash(p)
    \/ Push
    \/ \E a \in Action : Conclude(a)

Spec == Init /\ [][Next]_vars
-------------------------------------------------------------------------------
\* Correctness.

\* The Tickets an action delivers.
Delivers(a) == {records[a].members[i] : i \in DOMAIN records[a].members}

TypeOK ==
    /\ records \in [Action -> Record]
    /\ prepared \subseteq Request
    /\ receipts \in [Action -> {"none", "passed", "code_failure"}]
    /\ lease \in Action \cup {Nobody} /\ overtaken \subseteq Process
    /\ refs \subseteq Action /\ published \subseteq Action
    /\ checks \in [Action -> Outcomes]
    /\ retried \in [Action -> SUBSET (1..RetryLimit)]
    /\ head \in Nat /\ merged \in [Action -> Nat]
    /\ bound \in [Request -> Nat] /\ conflicting \in SUBSET Request
    /\ proc \in [Process -> [pc : Pcs, work : Action \cup {Nobody}, rec : Record,
                             next : Record, preparing : BOOLEAN]]
    /\ orphaned \in BOOLEAN /\ faults \in 0..MaxFault

\* The repository-global Integration Lease serializes integration: whoever is
\* between acquire_integration_lease and its release is the recorded holder.
SerialIntegration == \A p \in Process : Integrating(p) => lease = Work(p)

\* No Candidate reaches the target twice, in its Batch and in a Singleton:
\* once a Batch is merged it is not dissolved, whatever fails afterwards.
MergedOnce ==
    \A a, b \in Action :
        merged[a] # 0 /\ merged[b] # 0 /\ a # b => Delivers(a) \cap Delivers(b) = {}

\* What is merged has its own durable passed receipt: no receipt of another
\* Batch SHA, no unpersisted answer and no infrastructure failure will do.
MergedWithEvidence ==
    \A a \in Action : merged[a] # 0 =>
        a \in published /\ a \in refs /\ receipts[a] = "passed"

\* A complete request has every member on the target, by the Batch itself or
\* by the member's own Singleton; a member handed back for code is on neither.
CompleteIsMerged ==
    \A r \in Request : \A i \in DOMAIN records[Parent(r)].members :
        LET record == records[Parent(r)]
            onTarget == \/ merged[Parent(r)] # 0
                        \/ merged[Child(r, record.members[i])] # 0
        IN  /\ record.phase = "complete" => onTarget
            /\ record.status[i] = "integrated" => onTarget
            /\ record.status[i] = "resume_required" => ~onTarget

\* A lease row is accounted for: its holder is integrating, or it died while it
\* was and its action is still hosted, so that this action's next execution finds
\* the row its own and goes on.  No way out of an integration, and no settled
\* action, leaves the lease behind.  What a death leaves stays until then: the
\* row has no expiry, and nothing says that the action is executed again.
LeaseAccounted ==
    lease # Nobody =>
        IF orphaned THEN records[lease].phase = "hosted"
        ELSE \E p \in Process : Integrating(p) /\ Work(p) = lease
===============================================================================
