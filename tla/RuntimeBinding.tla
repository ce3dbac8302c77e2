---------------------------- MODULE RuntimeBinding ----------------------------
(***************************************************************************)
(* One stable action of RuntimeGateway (gwo_v8/runtime_gateway.py): the    *)
(* Gateway's own journal, the Paseo adapter's journal and the Paseo daemon *)
(* behind it.                                                              *)
(*                                                                         *)
(* Processes call progress and transition.  A call observes, prepares the  *)
(* Workspace, issues one command and reads it back.  The adapter grants a  *)
(* provider effect by a durable claim on the action record (pending_start, *)
(* pending_resume, ...) that must match the record the call observed, and  *)
(* only then runs the CLI.  A call may die anywhere; the CLI may not       *)
(* start, fail before or after its effect, or time out, and a timed-out or *)
(* orphaned effect may land later.                                         *)
(*                                                                         *)
(* One action is one journal transaction, one provider readback or one end *)
(* of a CLI process.  Permission responses, wake events, recovery budgets, *)
(* availability fallback and the Planning dispatch ledger are left out, as *)
(* are the files and digests that make a readback exact.                   *)
(***************************************************************************)
EXTENDS FiniteSets, Integers

CONSTANTS
    Process,
    Asks,   \* what each process asks of the action
    Late,      \* effects that may land after their CLI process timed out
    MaxOrphan  \* bound on effects whose caller is gone at a time

Ops == {"progress", "resume", "park", "fence", "retire"}
Effects == {"create", "run", "send", "stop", "label", "archive"}

Materializing == {"create", "run"}

ASSUME AsksAssumption == Asks \in [Process -> SUBSET Ops]
ASSUME LateAssumption == Late \subseteq Effects
ASSUME BoundAssumption == MaxOrphan \in Nat

VARIABLES
    journal,      \* the last observation the Gateway recorded
    intent,       \* workspace_intents: phase of the action's Workspace intent
    action,       \* the adapter's durable action record
    workspaces,   \* Workspaces under the action's slug
    agents,       \* Agents under the action's labels
    agent,        \* the first of them
    calls,        \* provider effects dispatched and not landed
    dispatched,   \* how many times a materializing effect was dispatched
    pc, call      \* where a call stands, and its locals

provider == <<workspaces, agents, agent>>
durable == <<journal, intent, action>>
vars == <<durable, provider, calls, dispatched, pc, call>>

Nobody == "nobody"
ASSUME NobodyAssumption == Nobody \notin Process

BoundLife == {"running", "parked", "completed", "retired"}
Phases == {"none", "recorded", "create_pending"}

Recordable == {"none", "prepared"} \cup BoundLife
JournalValue == [life : Recordable, fenced : BOOLEAN]

ActionValue ==
    [present : BOOLEAN, start : BOOLEAN, bound : BOOLEAN, resume : BOOLEAN,
     park : BOOLEAN, parked : BOOLEAN, fence : Process \cup {Nobody},
     quiesced : BOOLEAN, fenced : BOOLEAN, retire : BOOLEAN, output : BOOLEAN]

AgentValue == [busy : BOOLEAN, archived : BOOLEAN, label : BOOLEAN, result : BOOLEAN]

\* The caller of an effect waits for its CLI process, has died, or saw it end
\* without success and went on.
CallValue == [kind : Effects, by : Process, caller : {"waits", "dead", "left"}]

Absent ==
    [present |-> FALSE, start |-> FALSE, bound |-> FALSE, resume |-> FALSE,
     park |-> FALSE, parked |-> FALSE, fence |-> Nobody, quiesced |-> FALSE,
     fenced |-> FALSE, retire |-> FALSE, output |-> FALSE]

Local ==
    [op : Ops, stage : {"first", "again", "after"}, entry : JournalValue,
     seen : ActionValue, life : Recordable, phase : Phases]

Idle == [op |-> "progress", stage |-> "first", entry |-> [life |-> "none", fenced |-> FALSE],
         seen |-> Absent, life |-> "none", phase |-> "none"]

Stages == {"idle", "see", "prepare", "lookup", "reserve", "create", "creating",
           "commit", "note", "gate", "claim", "dispatch", "undo", "wait", "quiesce",
           "record"}

Init ==
    /\ journal = [life |-> "none", fenced |-> FALSE]
    /\ intent = "none"
    /\ action = Absent
    /\ workspaces = 0
    /\ agents = 0
    /\ agent = [busy |-> FALSE, archived |-> FALSE, label |-> FALSE, result |-> FALSE]
    /\ calls = {}
    /\ dispatched = [e \in Materializing |-> 0]
    /\ pc = [p \in Process |-> "idle"]
    /\ call = [p \in Process |-> Idle]

----------------------------------------------------------------------------
(* What one readback of the daemon says of an action record.               *)

\* The fence flags once the label readback is joined with them.
FenceSettled(a) ==
    IF \/ agent.label /\ a.fence # Nobody
       \/ ~agent.label /\ ~a.fenced /\ a.quiesced
    THEN [a EXCEPT !.fenced = agent.label, !.fence = Nobody, !.quiesced = FALSE]
    ELSE a

Lifecycle(a) ==
    CASE agent.archived -> "retired"
      [] ~agent.archived /\ (agent.result \/ a.output) -> "completed"
      [] ~agent.archived /\ ~(agent.result \/ a.output) /\ agent.busy -> "running"
      [] OTHER -> IF a.resume THEN "pending"
                  ELSE IF a.park \/ a.parked THEN "parked" ELSE "unknown"

Verdict(a) ==
    CASE ~a.present -> "absent"
      [] a.present /\ agents = 0 ->
            IF a.bound THEN "missing" ELSE IF a.start THEN "pending" ELSE "prepared"
      [] a.present /\ agents > 0 ->
            IF agents > 1 \/ agent.label # FenceSettled(a).fenced THEN "ambiguous"
            ELSE Lifecycle(a)

\* The record a readback leaves, when it is valid.
Reconciled(a) ==
    LET life == Verdict(a)
        f == [FenceSettled(a) EXCEPT !.bound = TRUE, !.start = FALSE]
    IN  CASE life = "retired" -> [f EXCEPT !.retire = FALSE]
          [] life = "completed" ->
                [f EXCEPT !.output = TRUE, !.park = FALSE, !.resume = FALSE, !.parked = FALSE]
          [] life = "running" ->
                IF a.resume \/ a.parked
                THEN [f EXCEPT !.resume = FALSE, !.parked = FALSE] ELSE f
          [] life = "parked" -> [f EXCEPT !.park = FALSE, !.parked = TRUE]
          [] OTHER -> a

----------------------------------------------------------------------------
(* The Gateway's calls.                                                    *)

Goto(p, s) == pc' = [pc EXCEPT ![p] = s]

\* A call returns or raises.
Finish(p) == Goto(p, "idle") /\ call' = [call EXCEPT ![p] = Idle]

Continue(p, s, c) == Goto(p, s) /\ call' = [call EXCEPT ![p] = c]

\* An observation reads the action record first ...
Look(p, c) == Continue(p, "see", [c EXCEPT !.seen = action'])

Readback(p) == Look(p, [call[p] EXCEPT !.stage = "after"])

\* progress(subject) or transition(stable_action_id, command).
Call(p, op) ==
    /\ pc[p] = "idle"
    /\ UNCHANGED <<durable, provider, calls, dispatched>>
    /\ Look(p, [Idle EXCEPT !.op = op, !.entry = journal])

\* The command's effect that its readback must prove.
Proves(op, life, a) ==
    CASE op \in {"progress", "resume"} -> life \in {"running", "completed"}
      [] op = "park" -> life = "parked"
      [] op = "fence" -> a.fenced
      [] op = "retire" -> life = "retired"

\* Where a call goes with the observation it made.
Heading(c, life, a) ==
    CASE c.stage = "after" ->
            IF life \in BoundLife /\ Proves(c.op, life, a) THEN "record" ELSE "idle"
      [] c.stage # "after" /\ life = "absent" ->
            IF c.op = "progress" /\ c.stage = "first" /\ c.entry.life = "none"
            THEN "prepare" ELSE "idle"
      [] c.stage # "after" /\ life = "prepared" ->
            IF c.op = "progress" /\ c.entry.life \notin BoundLife THEN "note" ELSE "idle"
      [] c.stage # "after" /\ life \in BoundLife ->
            CASE c.op = "progress" ->
                    IF life \in {"running", "completed"} /\ c.entry.life = "none"
                    THEN "idle" ELSE "record"
              [] c.op = "resume" ->
                    IF life = "parked" /\ ~a.fenced THEN "note" ELSE "idle"
              [] OTHER -> "gate"
      [] OTHER -> "idle"

\* What a call still needs of an observation.
Carried(c, next, life, a) ==
    CASE next = "prepare" -> [c EXCEPT !.seen = Absent]
      [] next = "record" -> [Idle EXCEPT !.entry = c.entry, !.life = life, !.seen.fenced = a.fenced]
      [] OTHER -> [c EXCEPT !.stage = "first", !.seen = a, !.life = life]

\* Mutant: an observation does not save what its readback settles.
SeeOnly(p) ==
    LET a == call[p].seen
        r == Reconciled(a)
        next == Heading(call[p], Verdict(a), r)
    IN  /\ pc[p] = "see"
        /\ IF next = "idle" THEN Finish(p)
           ELSE Continue(p, next, Carried(call[p], next, Verdict(a), r))
        /\ UNCHANGED <<durable, provider, calls, dispatched>>

\* ... then the daemon, and saves what the readback settles if the record
\* is still the one it read.
See(p) ==
    LET a == call[p].seen
        r == Reconciled(a)
        lost == r # a /\ action # a
        life == IF lost THEN "changed" ELSE Verdict(a)
        next == Heading(call[p], life, r)
    IN  /\ pc[p] = "see"
        /\ action' = IF lost THEN action ELSE IF r # a THEN r ELSE action
        /\ IF next = "idle" THEN Finish(p)
           ELSE Continue(p, next, Carried(call[p], next, life, r))
        /\ UNCHANGED <<journal, intent, provider, calls, dispatched>>

Observation(p) == [life |-> call[p].life, fenced |-> call[p].seen.fenced]

\* _record_observation, by compare-and-swap on the snapshot.
Note(p) ==
    /\ pc[p] = "note"
    /\ IF journal = call[p].entry
       THEN /\ journal' = Observation(p)
            /\ Continue(p, "gate", [call[p] EXCEPT !.entry = Observation(p)])
       ELSE journal' = journal /\ Finish(p)
    /\ UNCHANGED <<intent, action, provider, calls, dispatched>>

\* Mutant: an observation is recorded over whatever the journal holds.
RecordBlind(p) ==
    /\ pc[p] = "record"
    /\ journal' = Observation(p)
    /\ Finish(p)
    /\ UNCHANGED <<intent, action, provider, calls, dispatched>>

Record(p) ==
    /\ pc[p] = "record"
    /\ journal' = IF journal = call[p].entry THEN Observation(p) ELSE journal
    /\ Finish(p)
    /\ UNCHANGED <<intent, action, provider, calls, dispatched>>

----------------------------------------------------------------------------
(* Preparing the Workspace.                                                *)

Receipt(p) ==
    Look(p, [call[p] EXCEPT !.stage = "again", !.phase = "none"])

Prepare(p) ==
    /\ pc[p] = "prepare"
    /\ UNCHANGED <<journal, action, provider, calls, dispatched>>
    /\ IF action.present
       THEN intent' = intent /\ Receipt(p)
       ELSE /\ intent' = IF intent = "none" THEN "recorded" ELSE intent
            /\ Continue(p, "lookup", [call[p] EXCEPT !.phase = intent'])

Lookup(p) ==
    /\ pc[p] = "lookup"
    /\ IF agents > 0 \/ workspaces > 1 THEN Finish(p)
       ELSE IF workspaces = 1 THEN Continue(p, "commit", call[p])
       ELSE IF call[p].phase = "create_pending" THEN Finish(p)
       ELSE Continue(p, "reserve", call[p])
    /\ UNCHANGED <<durable, provider, calls, dispatched>>

\* claim_create: one process may ask for the Workspace, once.
Reserve(p) ==
    /\ pc[p] = "reserve"
    /\ IF intent = "recorded"
       THEN /\ intent' = "create_pending"
            /\ Continue(p, "create", [call[p] EXCEPT !.phase = "create_pending"])
       ELSE intent' = intent /\ Finish(p)
    /\ UNCHANGED <<journal, action, provider, calls, dispatched>>

Dispatch(p, kind) ==
    /\ calls' = calls \cup {[kind |-> kind, by |-> p, caller |-> "waits"]}
    /\ dispatched' = [e \in Materializing |-> dispatched[e] + (IF e = kind THEN 1 ELSE 0)]

Create(p) ==
    /\ pc[p] = "create"
    /\ Dispatch(p, "create")
    /\ Continue(p, "creating", call[p])
    /\ UNCHANGED <<durable, provider>>

\* The CLI process never started: the Workspace may be asked for again.
CreateNotDispatched(p) ==
    /\ pc[p] = "create"
    /\ intent' = IF intent = "create_pending" THEN "recorded" ELSE intent
    /\ Finish(p)
    /\ UNCHANGED <<journal, action, provider, calls, dispatched>>

Pending(p) == {c \in calls : c.by = p /\ c.caller = "waits"}

\* A call leaves its effect behind, to land later or never.
Abandon(p, kinds, why) ==
    LET orphans == {[c EXCEPT !.caller = why] : c \in {d \in Pending(p) : d.kind \in kinds}}
    IN  /\ calls' = (calls \ Pending(p)) \cup orphans
        /\ Cardinality({c \in calls' : c.caller # "waits"}) <= MaxOrphan

\* The CLI process ends without success; its effect may be yet to land.
Lost(p) == Abandon(p, Late, "left") \/ Abandon(p, {}, "left")

CreateEnds(p) ==
    /\ pc[p] = "creating"
    /\ \/ Pending(p) = {} /\ calls' = calls
       \/ Lost(p)
    /\ IF workspaces = 1 THEN Continue(p, "commit", call[p]) ELSE Finish(p)
    /\ UNCHANGED <<durable, provider, dispatched>>

Commit(p) ==
    /\ pc[p] = "commit"
    /\ \/ /\ action.present
          /\ intent' = "none"
          /\ action' = action
          /\ Receipt(p)
       \/ /\ ~action.present /\ intent = call[p].phase
          /\ intent' = "none"
          /\ action' = [action EXCEPT !.present = TRUE]
          /\ Receipt(p)
       \/ /\ ~action.present /\ intent # call[p].phase
          /\ UNCHANGED <<intent, action>>
          /\ Finish(p)
    /\ UNCHANGED <<journal, provider, calls, dispatched>>

----------------------------------------------------------------------------
(* Commands of the adapter.                                                *)

EffectOf(op) ==
    CASE op = "progress" -> "run" [] op = "resume" -> "send" [] op = "park" -> "stop"
      [] op = "fence" -> "label" [] op = "retire" -> "archive"

\* The effect holds already: a receipt without a provider call.
Holds(op, life, a) ==
    \/ op = "park" /\ life = "parked"
    \/ op = "fence" /\ a.fenced
    \/ op = "retire" /\ life = "retired"

Refused(op, life, a) ==
    \/ op = "park" /\ life \in {"completed", "retired"}
    \/ op = "fence" /\ a.fence # Nobody

\* The one-shot gate: the record and the readback must still be what the
\* Gateway observed.
Gate(p) ==
    LET c == call[p]
        r == Reconciled(c.seen)
    IN  /\ pc[p] = "gate"
        /\ action' = IF action = c.seen THEN r ELSE action
        /\ IF action # c.seen \/ r # c.seen \/ Verdict(c.seen) # c.life
              \/ Refused(c.op, c.life, c.seen)
           THEN Finish(p)
           ELSE IF Holds(c.op, c.life, c.seen) THEN Readback(p)
           ELSE Continue(p, "claim", [c EXCEPT !.life = "none"])
        /\ UNCHANGED <<journal, intent, provider, calls, dispatched>>

\* Mutant: a resume is claimed without its flag.
ClaimedSilently(p, op, a) ==
    CASE op = "progress" -> [a EXCEPT !.start = TRUE]
      [] op = "resume" -> [a EXCEPT !.park = FALSE]
      [] op = "park" -> [a EXCEPT !.park = TRUE, !.resume = FALSE]
      [] op = "fence" -> [a EXCEPT !.fence = p, !.quiesced = FALSE]
      [] op = "retire" -> [a EXCEPT !.retire = TRUE]

Claimed(p, op, a) ==
    CASE op = "progress" -> [a EXCEPT !.start = TRUE]
      [] op = "resume" -> [a EXCEPT !.park = FALSE, !.resume = TRUE]
      [] op = "park" -> [a EXCEPT !.park = TRUE, !.resume = FALSE]
      [] op = "fence" -> [a EXCEPT !.fence = p, !.quiesced = FALSE]
      [] op = "retire" -> [a EXCEPT !.retire = TRUE]

Owned(op, a) ==
    \/ op = "progress" /\ a.start
    \/ op = "resume" /\ a.resume
    \/ op = "park" /\ a.park
    \/ op = "fence" /\ a.fence # Nobody
    \/ op = "retire" /\ a.retire

\* Mutant: the claim does not compare the record with the one observed.
ClaimUnseen(p) ==
    LET c == call[p]
    IN  /\ pc[p] = "claim"
        /\ IF ~Owned(c.op, action)
           THEN /\ action' = Claimed(p, c.op, action)
                /\ Continue(p, "dispatch", [c EXCEPT !.seen = action'])
           ELSE action' = action /\ Finish(p)
        /\ UNCHANGED <<journal, intent, provider, calls, dispatched>>

\* _claim_record_update.
Claim(p) ==
    LET c == call[p]
    IN  /\ pc[p] = "claim"
        /\ IF action = c.seen /\ ~Owned(c.op, action)
           THEN /\ action' = Claimed(p, c.op, action)
                /\ Continue(p, "dispatch", [c EXCEPT !.seen = action'])
           ELSE action' = action /\ Finish(p)
        /\ UNCHANGED <<journal, intent, provider, calls, dispatched>>

Issue(p) ==
    /\ pc[p] = "dispatch"
    /\ Dispatch(p, EffectOf(call[p].op))
    /\ Continue(p, "wait", [call[p] EXCEPT !.seen = Absent])
    /\ UNCHANGED <<durable, provider>>

NotDispatched(p) ==
    /\ pc[p] = "dispatch"
    /\ Goto(p, "undo")
    /\ UNCHANGED <<durable, provider, calls, dispatched, call>>

\* _restore_claim_not_dispatched.
Restored(op, a) ==
    CASE op = "progress" -> [a EXCEPT !.start = FALSE]
      [] op = "resume" -> [a EXCEPT !.resume = FALSE]
      [] op = "park" -> [a EXCEPT !.park = FALSE]
      [] op = "fence" -> [a EXCEPT !.fence = Nobody]
      [] op = "retire" -> [a EXCEPT !.retire = FALSE]

Undo(p) ==
    /\ pc[p] = "undo"
    /\ IF action = call[p].seen
       THEN action' = Restored(call[p].op, action) /\ Readback(p)
       ELSE action' = action /\ Finish(p)
    /\ UNCHANGED <<journal, intent, provider, calls, dispatched>>

Succeed(p) ==
    /\ pc[p] = "wait"
    /\ Pending(p) = {}
    /\ UNCHANGED <<durable, provider, calls, dispatched>>
    /\ Readback(p)

\* Mutant: a timeout is taken for a call that was never dispatched.
FailRestores(p) ==
    /\ pc[p] = "wait"
    /\ Lost(p)
    /\ action' = IF call[p].op = "fence" THEN action ELSE Restored(call[p].op, action)
    /\ UNCHANGED <<journal, intent, provider, dispatched>>
    /\ IF call[p].op = "fence" THEN Continue(p, "quiesce", call[p])
       ELSE Readback(p) \/ Finish(p)

\* A timeout is read back, another failure raised; a failed fence first
\* proves that its call has returned.
Fail(p) ==
    /\ pc[p] = "wait"
    /\ Lost(p)
    /\ UNCHANGED <<durable, provider, dispatched>>
    /\ IF call[p].op = "fence" THEN Continue(p, "quiesce", call[p])
       ELSE Readback(p) \/ Finish(p)

\* _mark_fence_claim_quiesced.
Quiesce(p) ==
    /\ pc[p] = "quiesce"
    /\ action' = IF action.fence = p /\ ~action.fenced
                 THEN [action EXCEPT !.quiesced = TRUE] ELSE action
    /\ Readback(p) \/ Finish(p)
    /\ UNCHANGED <<journal, intent, provider, calls, dispatched>>

----------------------------------------------------------------------------
(* Deaths, the daemon and the Agent.                                       *)

\* The process dies; the effect it dispatched may still land.
Die(p) ==
    /\ pc[p] # "idle"
    /\ Abandon(p, Effects, "dead") \/ Abandon(p, {}, "dead")
    /\ Finish(p)
    /\ UNCHANGED <<durable, provider, dispatched>>

Land(c) ==
    /\ c \in calls
    /\ calls' = calls \ {c}
    /\ workspaces' = IF c.kind = "create" THEN workspaces + 1 ELSE workspaces
    /\ agents' = IF c.kind = "run" THEN agents + 1 ELSE agents
    /\ agent' = [agent EXCEPT
                   !.busy = IF agent.archived THEN @
                            ELSE IF c.kind \in {"run", "send"} THEN TRUE
                            ELSE IF c.kind \in {"stop", "archive"} THEN FALSE ELSE @,
                   !.archived = @ \/ c.kind = "archive",
                   !.label = @ \/ c.kind = "label"]
    /\ UNCHANGED <<durable, dispatched, pc, call>>

\* The Agent writes its result and stops, or ends its turn without one.
WriteResult ==
    /\ agent.busy /\ ~agent.result
    /\ agent' = [agent EXCEPT !.result = TRUE, !.busy = FALSE]
    /\ UNCHANGED <<durable, workspaces, agents, calls, dispatched, pc, call>>

EndTurn ==
    /\ agent.busy
    /\ agent' = [agent EXCEPT !.busy = FALSE]
    /\ UNCHANGED <<durable, workspaces, agents, calls, dispatched, pc, call>>

Step(p) ==
    \/ \E op \in Asks[p] : Call(p, op)
    \/ See(p) \/ Note(p) \/ Record(p)
    \/ Prepare(p) \/ Lookup(p) \/ Reserve(p) \/ Create(p) \/ CreateNotDispatched(p)
    \/ CreateEnds(p) \/ Commit(p)
    \/ Gate(p) \/ Claim(p) \/ Issue(p) \/ NotDispatched(p) \/ Undo(p)
    \/ Succeed(p) \/ Fail(p) \/ Quiesce(p)
    \/ Die(p)

Next ==
    \/ \E p \in Process : Step(p)
    \/ \E c \in calls : Land(c)
    \/ WriteResult
    \/ EndTurn

Spec == Init /\ [][Next]_vars

----------------------------------------------------------------------------
(* Properties.                                                             *)

TypeOK ==
    /\ journal \in JournalValue
    /\ intent \in Phases
    /\ action \in ActionValue
    /\ workspaces \in Nat /\ agents \in Nat
    /\ agent \in AgentValue
    /\ calls \subseteq CallValue
    /\ dispatched \in [Materializing -> Nat]
    /\ pc \in [Process -> Stages]
    /\ call \in [Process -> Local]

\* An action never gets a second Workspace or a second Agent: whatever is
\* lost, late or raced, each is asked for at most once.
OneMaterialization == dispatched["create"] <= 1 /\ dispatched["run"] <= 1

\* An effect that may still land is on record: the claim that dispatched it
\* stands, so nobody dispatches it again or takes the readback as final, or
\* what it would do is done already.  Excepted is a stop, which no readback
\* waits for, and a label call that timed out: its caller marks the claim of
\* the fence quiesced, the next readback clears it, and the label may land
\* after that.
Awaited(c) ==
    CASE c.kind = "create" -> intent = "create_pending"
      [] c.kind = "run" -> action.start
      [] c.kind = "send" -> action.resume
      [] c.kind = "archive" -> action.retire \/ agent.archived
      [] c.kind = "label" -> c.caller = "left" \/ action.fence # Nobody \/ agent.label
      [] c.kind = "stop" -> TRUE
PendingEvidence == \A c \in calls : Awaited(c)

\* The Gateway's journal says nothing the adapter and the daemon do not
\* back.
JournalBacked ==
    /\ journal.life # "none" => action.present
    /\ journal.life \in BoundLife => action.bound
    /\ journal.life = "completed" => action.output
    /\ journal.life = "retired" => agent.archived
    /\ journal.fenced => action.fenced /\ agent.label

Rank == [none |-> 0, prepared |-> 1, running |-> 2, parked |-> 2, completed |-> 3, retired |-> 4]

\* Concurrent calls never take the journal back: an observation is recorded
\* only over the one its call started from.
JournalForward ==
    [][Rank[journal.life] <= Rank[journal'.life] /\ (journal.fenced => journal'.fenced)]_journal

\* A fenced binding whose record shows no resume in flight stays stopped.
FencedStaysStopped ==
    [][action.fenced /\ ~action.resume /\ ~agent.busy => ~agent'.busy]_agent
==============================================================================
