------------------------ MODULE RuntimeBinding_proof ------------------------
(***************************************************************************)
(* What RuntimeBinding keeps for every set of processes, whatever each of  *)
(* them asks, whichever effects land late and however often calls die.     *)
(*                                                                         *)
(* The invariant IInv follows the effects.  For each there is a part of    *)
(* the shared state (CreateInv, RunInv, SendInv, ArchiveInv, LabelCalls),  *)
(* which ties the effects under way to the claim on record, and a part of  *)
(* what a process knows at its position (CreateOwn, RunOwn, ...); Claims   *)
(* says that a claim is held by one process.  Backs and JournalOwn tie the *)
(* journal, and what a call carries to it, to the record and the daemon.   *)
(*                                                                         *)
(* Steps are of four sorts, with one set of lemmas each: a step that only  *)
(* settles the record by a readback (Calm), one that writes the record     *)
(* (Amends), one that dispatches an effect (Dispatch), and one of the      *)
(* daemon or the Agent (Outside).                                          *)
(*                                                                         *)
(* The parts about the fence hold until the first label lands, and say     *)
(* nothing of a label call that timed out: its caller gives up the claim.  *)
(***************************************************************************)
EXTENDS RuntimeBinding, TLAPS

------------------------------------------------------------------------------
(* The invariant.                                                          *)

\* p has the durable claim of op and has not dispatched its effect.
Holding(p, op) == pc[p] \in {"dispatch", "undo"} /\ call[p].op = op

\* p has observed the record for op and not claimed it yet.
Choosing(p, op) == pc[p] \in {"note", "gate", "claim"} /\ call[p].op = op

\* p works on a command of the adapter.
Commanding(p) == pc[p] \in {"note", "gate", "claim", "dispatch", "undo", "wait", "quiesce"}

Flight(kind) == \E c \in calls : c.kind = kind
AloneInFlight(kind) == \A c, d \in calls : c.kind = kind /\ d.kind = kind => c = d
AloneHolding(op) == \A p, q \in Process : Holding(p, op) /\ Holding(q, op) => p = q

\* One Workspace: it was asked for once, under the intent, and the record of
\* the action is made when it exists.
CreateInv ==
    /\ workspaces \in {0, 1} /\ dispatched["create"] \in {0, 1}
    /\ workspaces = 1 => dispatched["create"] = 1 /\ ~Flight("create")
    /\ Flight("create") => dispatched["create"] = 1
    /\ AloneInFlight("create")
    /\ dispatched["create"] = 1 => intent = "create_pending" \/ action.present
    /\ action.present => workspaces = 1 /\ intent = "none"
CreateOwn(p) ==
    /\ pc[p] = "create" => intent = "create_pending" /\ dispatched["create"] = 0
    /\ pc[p] = "commit" => workspaces = 1
AloneCreating == \A p, q \in Process : pc[p] = "create" /\ pc[q] = "create" => p = q

\* One Agent: it was started once, under the claim or as the bound one, and
\* everything else there is to say of the action is of a bound one.
RunInv ==
    /\ agents \in {0, 1} /\ dispatched["run"] \in {0, 1}
    /\ agents = 1 => dispatched["run"] = 1 /\ ~Flight("run")
    /\ Flight("run") => dispatched["run"] = 1
    /\ AloneInFlight("run")
    /\ dispatched["run"] = 1 => action.start \/ action.bound
    /\ action.bound => agents = 1 /\ ~action.start
    /\ action.start \/ action.bound => action.present
BoundInv ==
    /\ agent.busy \/ agent.result \/ agent.label \/ agent.archived => agents = 1
    /\ \/ action.output \/ action.fenced \/ action.fence # Nobody \/ action.retire
       \/ action.park \/ action.quiesced \/ action.resume \/ action.parked
       => action.bound
    /\ action.fenced => agent.label
    /\ \A c \in calls : c.kind \in {"send", "stop", "label", "archive"} => action.bound
RunOwn(p) ==
    /\ Holding(p, "progress") => action.start /\ dispatched["run"] = 0
    /\ Choosing(p, "progress") =>
          ~call[p].seen.bound /\ ~call[p].seen.start /\ call[p].seen.present
    /\ Commanding(p) /\ call[p].op # "progress" => action.bound
    /\ pc[p] = "quiesce" => call[p].op = "fence"

\* The Agent of a parked or resuming binding does nothing until the message
\* of the resume arrives.
Still == action.resume /\ ~agent.busy /\ ~agent.result /\ ~action.output
SendInv ==
    /\ action.parked /\ ~action.resume => ~agent.busy /\ ~agent.result
    /\ Flight("send") => Still
    /\ AloneInFlight("send")
SendOwn(p) ==
    /\ Holding(p, "resume") => Still /\ ~Flight("send")
    /\ pc[p] \in {"note", "gate"} =>
          /\ call[p].op = "progress" => call[p].life = "prepared"
          /\ call[p].op = "resume" => call[p].life = "parked"
          /\ call[p].op \notin {"progress", "resume"} => call[p].life \in BoundLife
    /\ pc[p] = "claim" =>
          /\ call[p].op = "park" => ~call[p].seen.parked /\ ~call[p].seen.resume
          /\ call[p].op = "resume" =>
                call[p].seen.parked /\ ~call[p].seen.output /\ ~call[p].seen.resume
          /\ call[p].op = "fence" => ~call[p].seen.fenced

\* Until the Agent is archived, the claim of a retirement stands.
ArchiveInv ==
    ~agent.archived =>
      /\ AloneInFlight("archive")
      /\ Flight("archive") => action.retire
ArchiveOwn(p) ==
    ~agent.archived /\ Holding(p, "retire") => action.retire /\ ~Flight("archive")

\* Until the Agent has the label, the claim of a fence names the process
\* whose label call may still land, unless its caller has left that call.
Fence(c) == c.kind = "label" /\ c.caller # "left"
FenceFlight == \E c \in calls : Fence(c)
Fencing(p) == action.fence = p /\ ~agent.label /\ ~action.quiesced
LabelCall(c) ==
    /\ Fencing(c.by)
    /\ c.caller = "waits" => pc[c.by] = "wait" /\ call[c.by].op = "fence"
    /\ c.caller # "waits" => ~ (/\ pc[c.by] \in {"dispatch", "undo", "wait", "quiesce"}
                                /\ call[c.by].op = "fence")
LabelCalls == ~agent.label => \A c \in calls : Fence(c) => LabelCall(c)
LabelOwn(p) ==
    ~agent.label =>
      /\ Holding(p, "fence") => Fencing(p) /\ ~FenceFlight
      /\ pc[p] = "wait" /\ call[p].op = "fence" => action.fence = p /\ ~action.quiesced
      /\ pc[p] = "quiesce" => Fencing(p) /\ ~FenceFlight

\* What an observation j needs of the record a and the Agent g.
Backs(j, a, g) ==
    /\ j.life # "none" => a.present
    /\ j.life \in BoundLife => a.bound
    /\ j.life = "completed" => a.output
    /\ j.life = "retired" => g.archived
    /\ j.fenced => a.fenced /\ g.label

\* What a record never loses.
Older(a, b) ==
    /\ a.present => b.present
    /\ a.bound => b.bound
    /\ a.output => b.output
    /\ a.fenced => b.fenced

JournalOwn(p) ==
    /\ Backs(call[p].entry, action, agent)
    /\ pc[p] = "see" => Backs(call[p].entry, call[p].seen, agent) /\ Older(call[p].seen, action)
    /\ pc[p] \in {"note", "record"} =>
          /\ Backs(Observation(p), action, agent)
          /\ Rank[call[p].entry.life] <= Rank[call[p].life]
          /\ call[p].entry.fenced => call[p].seen.fenced

\* What p knows at its position.
Own(p) ==
    CreateOwn(p) /\ RunOwn(p) /\ SendOwn(p) /\ ArchiveOwn(p) /\ LabelOwn(p) /\ JournalOwn(p)

\* A claim is held by one process.
Claims ==
    /\ AloneCreating
    /\ AloneHolding("progress") /\ AloneHolding("resume")
    /\ ~agent.archived => AloneHolding("retire")

\* What holds whatever the positions are.
Core == RunInv /\ BoundInv /\ SendInv /\ ArchiveInv

IInv ==
    /\ TypeOK
    /\ CreateInv /\ Core /\ LabelCalls
    /\ Backs(journal, action, agent)
    /\ \A p \in Process : Own(p)
    /\ Claims

------------------------------------------------------------------------------
(* Positions, types, and the effects under way.                            *)

\* The processes other than p stay where they are.
Others(p) == \A q \in Process \ {p} : pc'[q] = pc[q] /\ call'[q] = call[q]
Arrives(p, s, c) == pc'[p] = s /\ call'[p] = c /\ Others(p)

LEMMA Moves ==
    ASSUME TypeOK, NEW p \in Process, NEW s, NEW c, Continue(p, s, c)
    PROVE  Arrives(p, s, c)
  BY DEF TypeOK, Continue, Goto, Arrives, Others

LEMMA Finishes ==
    ASSUME TypeOK, NEW p \in Process, Finish(p)
    PROVE  Arrives(p, "idle", Idle)
  BY DEF TypeOK, Finish, Goto, Arrives, Others

LEMMA IdleTypes == Idle \in Local /\ Absent \in ActionValue /\ Idle.seen = Absent
  <1>1. Absent \in ActionValue
    BY DEF Absent, ActionValue
  <1>2. Idle \in Local
    BY <1>1 DEF Idle, Local, JournalValue, Recordable, BoundLife, Ops, Phases
  <1> QED
    BY <1>1, <1>2 DEF Idle

LEMMA ArrivalTypes ==
    ASSUME TypeOK, NEW p \in Process, NEW s \in Stages, NEW c \in Local,
           Continue(p, s, c)
    PROVE  pc' \in [Process -> Stages] /\ call' \in [Process -> Local]
  BY DEF TypeOK, Continue, Goto

LEMMA FinishTypes ==
    ASSUME TypeOK, NEW p \in Process, Finish(p)
    PROVE  pc' \in [Process -> Stages] /\ call' \in [Process -> Local]
  <1>1. "idle" \in Stages
    BY DEF Stages
  <1> QED
    BY <1>1, IdleTypes DEF TypeOK, Finish, Goto

\* What a step leaves of the effects under way: no kind gets more.
Shrinks ==
    /\ calls' \subseteq CallValue
    /\ \A k \in Effects : Flight(k)' => Flight(k)
    /\ FenceFlight' => FenceFlight
    /\ \A k \in Effects : AloneInFlight(k) => AloneInFlight(k)'

LEMMA SameCalls == TypeOK /\ calls' = calls => Shrinks
  BY DEF TypeOK, Shrinks, Flight, FenceFlight, AloneInFlight

\* Where an effect that p leaves behind comes from.
LEMMA Orphans ==
    ASSUME TypeOK, NEW p \in Process, NEW K, NEW why \in {"dead", "left"},
           Abandon(p, K, why), NEW c \in calls'
    PROVE  \/ c \in calls /\ ~(c.by = p /\ c.caller = "waits")
           \/ /\ c \in CallValue /\ c.caller = why /\ c.by = p /\ c.kind \in K
              /\ \E d \in calls : d.kind = c.kind /\ d.by = p /\ d.caller = "waits"
  <1>1. CASE c \in calls \ Pending(p)
    BY <1>1 DEF Pending
  <1>2. CASE c \notin calls \ Pending(p)
    <2>1. PICK d \in {d \in Pending(p) : d.kind \in K} : c = [d EXCEPT !.caller = why]
      BY <1>2 DEF Abandon
    <2>2. d \in CallValue /\ d.by = p /\ d.caller = "waits" /\ d.kind \in K /\ d \in calls
      BY <2>1 DEF Pending, TypeOK
    <2>3. c \in CallValue /\ c.kind = d.kind /\ c.by = p /\ c.caller = why
      BY <2>1, <2>2 DEF CallValue
    <2> QED
      BY <2>2, <2>3
  <1> QED
    BY <1>1, <1>2

LEMMA AbandonShrinks ==
    ASSUME TypeOK, NEW p \in Process, NEW K, NEW why \in {"dead", "left"}, Abandon(p, K, why)
    PROVE  Shrinks
  <1>1. calls' \subseteq CallValue
    BY Orphans DEF TypeOK
  <1>2. ASSUME NEW k \in Effects, Flight(k)' PROVE Flight(k)
    <2>1. PICK c \in calls' : c.kind = k
      BY <1>2 DEF Flight
    <2> QED
      BY <2>1, Orphans DEF Flight
  <1>3. ASSUME NEW k \in Effects, AloneInFlight(k) PROVE AloneInFlight(k)'
    <2>1. SUFFICES ASSUME NEW c \in calls', NEW d \in calls', c.kind = k, d.kind = k
                   PROVE  c = d
      BY DEF AloneInFlight
    <2> DEFINE Kept(x) == x \in calls /\ ~(x.by = p /\ x.caller = "waits")
               Left(x) == /\ x \in CallValue /\ x.caller = why /\ x.by = p
                          /\ \E y \in calls : y.kind = k /\ y.by = p /\ y.caller = "waits"
    <2>2. Kept(c) \/ Left(c)
      BY <2>1, Orphans
    <2>3. Kept(d) \/ Left(d)
      BY <2>1, Orphans
    <2>4. CASE Left(c) /\ Left(d)
      BY <2>1, <2>4 DEF CallValue
    <2>5. CASE Kept(c) /\ Kept(d)
      BY <1>3, <2>1, <2>5 DEF AloneInFlight
    <2>6. CASE Kept(c) /\ Left(d)
      BY <1>3, <2>1, <2>6 DEF AloneInFlight
    <2>7. CASE Left(c) /\ Kept(d)
      BY <1>3, <2>1, <2>7 DEF AloneInFlight
    <2> QED
      BY <2>2, <2>3, <2>4, <2>5, <2>6, <2>7
  <1>4. ASSUME FenceFlight' PROVE FenceFlight
    <2>1. PICK c \in calls' : Fence(c)
      BY <1>4 DEF FenceFlight
    <2> QED
      BY <2>1, Orphans DEF FenceFlight, Fence
  <1> QED
    BY <1>1, <1>2, <1>3, <1>4 DEF Shrinks

------------------------------------------------------------------------------
(* What a readback settles.                                                *)

\* What a readback may change of a record: it learns of the Agent, it proves
\* or clears claims that the Agent shows to be over, and loses nothing else.
Settles(a, r) ==
    /\ r \in ActionValue
    /\ r # a => a.present /\ agents = 1 /\ r.bound /\ ~r.start
    /\ r.present = a.present
    /\ Older(a, r)
    /\ r.start => a.start
    /\ \/ r.fence = a.fence /\ r.quiesced = a.quiesced /\ r.fenced = a.fenced
       \/ /\ r.fence = Nobody /\ ~r.quiesced /\ r.fenced = agent.label
          /\ agent.label \/ (~a.fenced /\ a.quiesced)
    /\ r.resume => a.resume
    /\ a.resume /\ ~r.resume => agent.busy \/ agent.result \/ a.output
    /\ r.output => a.output \/ agent.result
    /\ r.parked /\ ~r.resume => (a.parked /\ ~a.resume) \/ (~agent.busy /\ ~agent.result)
    /\ r.retire => a.retire
    /\ a.retire /\ ~r.retire => agent.archived

\* What a lifecycle says of the record that is left.
Shows(v, a, r) ==
    /\ v \in BoundLife => r.bound /\ r.present /\ ~r.start /\ r.fenced = agent.label
    /\ v = "completed" => r.output
    /\ v = "retired" => agent.archived
    /\ v = "parked" => r.parked /\ ~r.output /\ ~r.resume
    /\ v = "running" => ~r.resume /\ ~r.parked
    /\ v = "prepared" => a.present /\ ~a.bound /\ ~a.start
    /\ v \notin BoundLife => r = a
    /\ v \in BoundLife /\ a.output => v \in {"completed", "retired"}
    /\ v \in BoundLife /\ agent.archived => v = "retired"

LEMMA FenceFacts ==
    ASSUME TypeOK, NEW a \in ActionValue, NEW f, f = FenceSettled(a)
    PROVE  /\ f \in ActionValue
           /\ f.present = a.present /\ f.start = a.start /\ f.bound = a.bound
           /\ f.resume = a.resume /\ f.park = a.park /\ f.parked = a.parked
           /\ f.retire = a.retire /\ f.output = a.output
           /\ \/ f.fence = a.fence /\ f.quiesced = a.quiesced /\ f.fenced = a.fenced
              \/ /\ f.fence = Nobody /\ ~f.quiesced /\ f.fenced = agent.label
                 /\ agent.label \/ (~a.fenced /\ a.quiesced)
           /\ a.fenced => f.fenced
  <1>1. agent.label \in BOOLEAN
    BY DEF TypeOK, AgentValue
  <1> DEFINE moved == \/ agent.label /\ a.fence # Nobody
                      \/ ~agent.label /\ ~a.fenced /\ a.quiesced
  <1>2. CASE ~moved
    BY <1>2 DEF FenceSettled
  <1>3. CASE moved
    <2>1. f = [a EXCEPT !.fenced = agent.label, !.fence = Nobody, !.quiesced = FALSE]
      BY <1>3 DEF FenceSettled
    <2>2. f \in ActionValue
      BY <1>1, <2>1 DEF ActionValue
    <2>3. /\ f.present = a.present /\ f.start = a.start /\ f.bound = a.bound
          /\ f.resume = a.resume /\ f.park = a.park /\ f.parked = a.parked
          /\ f.retire = a.retire /\ f.output = a.output
      BY <2>1 DEF ActionValue
    <2>4. f.fence = Nobody /\ f.quiesced = FALSE /\ f.fenced = agent.label
      BY <2>1 DEF ActionValue
    <2> QED
      BY <1>1, <1>3, <2>2, <2>3, <2>4
  <1> QED
    BY <1>2, <1>3

LEMMA ReadbackFacts ==
    ASSUME TypeOK, agents \in {0, 1}, NEW a \in ActionValue, NEW r, r = Reconciled(a),
           NEW v, v = Verdict(a)
    PROVE  Settles(a, r) /\ Shows(v, a, r)
  <1> DEFINE g == FenceSettled(a)
             f == [g EXCEPT !.bound = TRUE, !.start = FALSE]
  <1>1. agent.busy \in BOOLEAN /\ agent.archived \in BOOLEAN /\ agent.label \in BOOLEAN
        /\ agent.result \in BOOLEAN
    BY DEF TypeOK, AgentValue
  <1>2. /\ a.present \in BOOLEAN /\ a.start \in BOOLEAN /\ a.bound \in BOOLEAN
        /\ a.resume \in BOOLEAN /\ a.park \in BOOLEAN /\ a.parked \in BOOLEAN
        /\ a.quiesced \in BOOLEAN /\ a.fenced \in BOOLEAN /\ a.retire \in BOOLEAN
        /\ a.output \in BOOLEAN
    BY DEF ActionValue
  <1>3. /\ g \in ActionValue
        /\ g.present = a.present /\ g.start = a.start /\ g.bound = a.bound
        /\ g.resume = a.resume /\ g.park = a.park /\ g.parked = a.parked
        /\ g.retire = a.retire /\ g.output = a.output
        /\ \/ g.fence = a.fence /\ g.quiesced = a.quiesced /\ g.fenced = a.fenced
           \/ /\ g.fence = Nobody /\ ~g.quiesced /\ g.fenced = agent.label
              /\ agent.label \/ (~a.fenced /\ a.quiesced)
        /\ a.fenced => g.fenced
    BY FenceFacts
  <1> HIDE DEF g
  <1>4. /\ f \in ActionValue
        /\ f.present = g.present /\ f.start = FALSE /\ f.bound = TRUE
        /\ f.resume = g.resume /\ f.park = g.park /\ f.parked = g.parked
        /\ f.retire = g.retire /\ f.output = g.output
        /\ f.fence = g.fence /\ f.quiesced = g.quiesced /\ f.fenced = g.fenced
    BY <1>3 DEF ActionValue
  <1>5. CASE v \notin {"retired", "completed", "running", "parked"}
    <2>1. r = a
      BY <1>5 DEF Reconciled
    <2>2. v = "prepared" => a.present /\ ~a.bound /\ ~a.start
      BY <1>2 DEF Verdict, Lifecycle
    <2> QED
      BY <1>2, <1>5, <2>1, <2>2 DEF Settles, Shows, Older, BoundLife
  <1>6. CASE v \in {"retired", "completed", "running", "parked"}
    <2>1. a.present /\ agents = 1 /\ agent.label = g.fenced /\ v = Lifecycle(a)
      BY <1>6 DEF Verdict, g
    <2>2. CASE v = "retired"
      <3>1. r = [f EXCEPT !.retire = FALSE]
        BY <2>2 DEF Reconciled, g
      <3>2. agent.archived
        BY <2>1, <2>2 DEF Lifecycle
      <3> HIDE DEF f
      <3>3. /\ r \in ActionValue
            /\ r.present = f.present /\ r.start = f.start /\ r.bound = f.bound
            /\ r.resume = f.resume /\ r.park = f.park /\ r.parked = f.parked
            /\ r.retire = FALSE /\ r.output = f.output
            /\ r.fence = f.fence /\ r.quiesced = f.quiesced /\ r.fenced = f.fenced
        BY <1>4, <3>1 DEF ActionValue
      <3> QED
        BY <1>1, <1>2, <1>3, <1>4, <2>1, <2>2, <3>2, <3>3 DEF Settles, Shows, Older, BoundLife
    <2>3. CASE v = "completed"
      <3>1. r = [f EXCEPT !.output = TRUE, !.park = FALSE, !.resume = FALSE, !.parked = FALSE]
        BY <2>3 DEF Reconciled, g
      <3>2. (agent.result \/ a.output) /\ ~agent.archived
        BY <1>1, <1>2, <2>1, <2>3 DEF Lifecycle
      <3> HIDE DEF f
      <3>3. /\ r \in ActionValue
            /\ r.present = f.present /\ r.start = f.start /\ r.bound = f.bound
            /\ r.resume = FALSE /\ r.park = FALSE /\ r.parked = FALSE
            /\ r.retire = f.retire /\ r.output = TRUE
            /\ r.fence = f.fence /\ r.quiesced = f.quiesced /\ r.fenced = f.fenced
        BY <1>4, <3>1 DEF ActionValue
      <3> QED
        BY <1>1, <1>2, <1>3, <1>4, <2>1, <2>3, <3>2, <3>3 DEF Settles, Shows, Older, BoundLife
    <2>4. CASE v = "running"
      <3>1. r = IF a.resume \/ a.parked
                THEN [f EXCEPT !.resume = FALSE, !.parked = FALSE] ELSE f
        BY <2>4 DEF Reconciled, g
      <3>2. agent.busy /\ ~a.output /\ ~agent.archived
        BY <1>1, <1>2, <2>1, <2>4 DEF Lifecycle
      <3> HIDE DEF f
      <3>3. /\ r \in ActionValue
            /\ r.present = f.present /\ r.start = f.start /\ r.bound = f.bound
            /\ r.resume = FALSE /\ r.park = f.park /\ r.parked = FALSE
            /\ r.retire = f.retire /\ r.output = f.output
            /\ r.fence = f.fence /\ r.quiesced = f.quiesced /\ r.fenced = f.fenced
        <4>1. CASE a.resume \/ a.parked
          <5>1. r = [f EXCEPT !.resume = FALSE, !.parked = FALSE]
            BY <3>1, <4>1
          <5> QED
            BY <1>4, <5>1 DEF ActionValue
        <4>2. CASE ~(a.resume \/ a.parked)
          <5>1. r = f
            BY <3>1, <4>2
          <5>2. f.resume = FALSE /\ f.parked = FALSE
            BY <1>2, <1>3, <1>4, <4>2
          <5> QED
            BY <1>4, <5>1, <5>2
        <4> QED
          BY <4>1, <4>2
      <3> QED
        BY <1>1, <1>2, <1>3, <1>4, <2>1, <2>4, <3>2, <3>3 DEF Settles, Shows, Older, BoundLife
    <2>5. CASE v = "parked"
      <3>1. r = [f EXCEPT !.park = FALSE, !.parked = TRUE]
        BY <2>5 DEF Reconciled, g
      <3>2. ~agent.busy /\ ~agent.result /\ ~a.output /\ ~a.resume /\ ~agent.archived
        BY <1>1, <1>2, <2>1, <2>5 DEF Lifecycle
      <3> HIDE DEF f
      <3>3. /\ r \in ActionValue
            /\ r.present = f.present /\ r.start = f.start /\ r.bound = f.bound
            /\ r.resume = f.resume /\ r.park = FALSE /\ r.parked = TRUE
            /\ r.retire = f.retire /\ r.output = f.output
            /\ r.fence = f.fence /\ r.quiesced = f.quiesced /\ r.fenced = f.fenced
        BY <1>4, <3>1 DEF ActionValue
      <3> QED
        BY <1>1, <1>2, <1>3, <1>4, <2>1, <2>5, <3>2, <3>3 DEF Settles, Shows, Older, BoundLife
    <2> QED
      BY <1>6, <2>2, <2>3, <2>4, <2>5
  <1> QED
    BY <1>5, <1>6

LEMMA SettlesNothing == ASSUME NEW a \in ActionValue PROVE Settles(a, a)
  <1>1. a.start \in BOOLEAN
    BY DEF ActionValue
  <1> QED
    BY <1>1 DEF Settles, Older

------------------------------------------------------------------------------
(* Steps that settle the record at most.                                   *)

\* Fields have their types; the provers need to be told of Booleans.
LEMMA Booleans ==
    ASSUME TypeOK
    PROVE  /\ agent.busy \in BOOLEAN /\ agent.archived \in BOOLEAN
           /\ agent.label \in BOOLEAN /\ agent.result \in BOOLEAN
           /\ action \in ActionValue
           /\ action.present \in BOOLEAN /\ action.start \in BOOLEAN
           /\ action.bound \in BOOLEAN /\ action.resume \in BOOLEAN
           /\ action.park \in BOOLEAN /\ action.parked \in BOOLEAN
           /\ action.quiesced \in BOOLEAN /\ action.fenced \in BOOLEAN
           /\ action.retire \in BOOLEAN /\ action.output \in BOOLEAN
  BY DEF TypeOK, AgentValue, ActionValue

\* A step of p that settles the record at most and dispatches nothing.
Calm(p) ==
    /\ Settles(action, action')
    /\ UNCHANGED <<provider, dispatched>>
    /\ Shrinks
    /\ Others(p)

IntentKept == intent' = intent \/ (intent = "none" /\ ~action.present)

LEMMA CalmCreate ==
    ASSUME TypeOK, CreateInv, NEW p \in Process, Calm(p), IntentKept
    PROVE  CreateInv'
  <1>1. (Flight("create")' => Flight("create")) /\ AloneInFlight("create")'
    BY DEF Calm, Shrinks, Effects, CreateInv
  <1>2. action'.present = action.present
    BY DEF Calm, Settles
  <1>3. workspaces' = workspaces /\ dispatched' = dispatched
    BY DEF Calm, provider
  <1> QED
    BY <1>1, <1>2, <1>3 DEF CreateInv, IntentKept

LEMMA CalmRun ==
    ASSUME TypeOK, RunInv, NEW p \in Process, Calm(p)
    PROVE  RunInv'
  <1>1. (Flight("run")' => Flight("run")) /\ AloneInFlight("run")'
    BY DEF Calm, Shrinks, Effects, RunInv
  <1>2. agents' = agents /\ dispatched' = dispatched
    BY DEF Calm, provider
  <1>3. CASE action' = action
    BY <1>1, <1>2, <1>3 DEF RunInv
  <1>4. CASE action' # action
    <2>1. action.present /\ agents = 1 /\ action'.bound /\ ~action'.start /\ action'.present
      BY <1>4 DEF Calm, Settles
    <2> QED
      BY <1>1, <1>2, <2>1 DEF RunInv
  <1> QED
    BY <1>3, <1>4

LEMMA CalmBound ==
    ASSUME TypeOK, BoundInv, NEW p \in Process, Calm(p)
    PROVE  BoundInv'
  <1>1. agent' = agent /\ agents' = agents
    BY DEF Calm, provider
  <1>2. action' = action \/ action'.bound
    BY DEF Calm, Settles
  <1>3. \A c \in calls' : c.kind \in {"send", "stop", "label", "archive"} => action'.bound
    <2>1. SUFFICES ASSUME NEW c \in calls', c.kind \in {"send", "stop", "label", "archive"},
                          action' = action
                   PROVE  action.bound
      BY <1>2
    <2>2. c.kind \in Effects /\ Flight(c.kind)'
      BY <2>1 DEF Effects, Flight
    <2>3. Flight(c.kind)
      BY <2>2 DEF Calm, Shrinks
    <2> QED
      BY <2>1, <2>3 DEF Flight, BoundInv
  <1>4. action'.fenced => agent'.label
    BY DEF Calm, Settles, BoundInv, provider
  <1> QED
    BY <1>1, <1>2, <1>3, <1>4 DEF BoundInv

LEMMA CalmStill ==
    ASSUME TypeOK, NEW p \in Process, Calm(p), Still
    PROVE  Still'
  <1>1. agent' = agent
    BY DEF Calm, provider
  <1> QED
    BY <1>1, Booleans DEF Still, Calm, Settles

LEMMA CalmSend ==
    ASSUME TypeOK, SendInv, NEW p \in Process, Calm(p)
    PROVE  SendInv'
  <1>1. (Flight("send")' => Flight("send")) /\ AloneInFlight("send")'
    BY DEF Calm, Shrinks, Effects, SendInv
  <1>2. agent' = agent
    BY DEF Calm, provider
  <1>3. action'.parked /\ ~action'.resume =>
           (action.parked /\ ~action.resume) \/ (~agent.busy /\ ~agent.result)
    BY DEF Calm, Settles
  <1> QED
    BY <1>1, <1>2, <1>3, CalmStill DEF SendInv

LEMMA CalmArchive ==
    ASSUME TypeOK, ArchiveInv, NEW p \in Process, Calm(p)
    PROVE  ArchiveInv'
  <1>1. (Flight("archive")' => Flight("archive"))
        /\ (AloneInFlight("archive") => AloneInFlight("archive")')
    BY DEF Calm, Shrinks, Effects
  <1>2. agent' = agent
    BY DEF Calm, provider
  <1>3. action.retire /\ ~agent.archived => action'.retire
    BY Booleans DEF Calm, Settles, ActionValue
  <1> QED
    BY <1>1, <1>2, <1>3 DEF ArchiveInv

LEMMA CalmCore ==
    ASSUME TypeOK, Core, NEW p \in Process, Calm(p)
    PROVE  Core'
  BY CalmRun, CalmBound, CalmSend, CalmArchive DEF Core

\* A fence that is claimed and not labelled stays so.
LEMMA CalmFencing ==
    ASSUME TypeOK, NEW p \in Process, Calm(p), NEW q \in Process, Fencing(q)
    PROVE  Fencing(q)'
  <1>1. agent' = agent
    BY DEF Calm, provider
  <1>2. \/ action'.fence = action.fence /\ action'.quiesced = action.quiesced
        \/ agent.label \/ action.quiesced
    BY DEF Calm, Settles
  <1> QED
    BY <1>1, <1>2 DEF Fencing

LEMMA BacksOn ==
    ASSUME NEW j, NEW a, NEW b, NEW g, NEW h, Backs(j, a, g), Older(a, b),
           g.archived => h.archived, g.label => h.label
    PROVE  Backs(j, b, h)
  BY DEF Backs, Older

LEMMA OlderOn ==
    ASSUME NEW a, NEW b, NEW c, Older(a, b), Older(b, c)
    PROVE  Older(a, c)
  BY DEF Older

LEMMA CalmOlder ==
    ASSUME NEW p, Calm(p)
    PROVE  Older(action, action') /\ agent' = agent
  BY DEF Calm, Settles, provider

\* What a step that loses nothing leaves of what q knows of the journal.
LEMMA JournalOwnOn ==
    ASSUME NEW q \in Process, pc'[q] = pc[q], call'[q] = call[q], JournalOwn(q),
           Older(action, action'),
           agent.archived => agent'.archived, agent.label => agent'.label
    PROVE  JournalOwn(q)'
  <1>1. Backs(call'[q].entry, action', agent')
    BY BacksOn DEF JournalOwn
  <1>2. pc'[q] = "see" =>
           Backs(call'[q].entry, call'[q].seen, agent') /\ Older(call'[q].seen, action')
    <2>1. Older(call[q].seen, call[q].seen)
      BY DEF Older
    <2> QED
      BY <2>1, BacksOn, OlderOn DEF JournalOwn
  <1>3. Observation(q)' = Observation(q)
    BY DEF Observation
  <1>4. pc'[q] \in {"note", "record"} =>
          /\ Backs(Observation(q)', action', agent')
          /\ Rank[call'[q].entry.life] <= Rank[call'[q].life]
          /\ call'[q].entry.fenced => call'[q].seen.fenced
    BY <1>3, BacksOn DEF JournalOwn
  <1> QED
    BY <1>1, <1>2, <1>4 DEF JournalOwn

LEMMA CalmCreateOwn ==
    ASSUME IInv, NEW p \in Process, Calm(p), IntentKept, NEW q \in Process \ {p}
    PROVE  CreateOwn(q)'
  <1>1. pc'[q] = pc[q] /\ Own(q) /\ workspaces' = workspaces /\ dispatched' = dispatched
    BY DEF Calm, Others, IInv, provider
  <1> QED
    BY <1>1 DEF Own, CreateOwn, IntentKept

LEMMA CalmOwn ==
    ASSUME IInv, NEW p \in Process, Calm(p), NEW q \in Process \ {p}, CreateOwn(q)'
    PROVE  Own(q)'
  <1>1. pc'[q] = pc[q] /\ call'[q] = call[q] /\ Own(q)
    BY DEF Calm, Others, IInv
  <1>2. agent' = agent /\ agents' = agents /\ workspaces' = workspaces
        /\ dispatched' = dispatched
    BY DEF Calm, provider
  <1>4. RunOwn(q)'
    <2>1. action.bound => action'.bound
      BY DEF Calm, Settles, Older
    <2>2. agents = 1 => dispatched["run"] = 1
      BY DEF IInv, Core, RunInv
    <2>3. action' = action \/ agents = 1
      BY DEF Calm, Settles
    <2> QED
      BY <1>1, <1>2, <2>1, <2>2, <2>3 DEF Own, RunOwn, Holding, Choosing, Commanding
  <1>5. SendOwn(q)'
    <2>1. Flight("send")' => Flight("send")
      BY DEF Calm, Shrinks, Effects
    <2>2. Still => Still'
      BY CalmStill DEF IInv
    <2> QED
      BY <1>1, <1>2, <2>1, <2>2 DEF Own, SendOwn, Holding
  <1>6. ArchiveOwn(q)'
    <2>1. Flight("archive")' => Flight("archive")
      BY DEF Calm, Shrinks, Effects
    <2>2. action.retire /\ ~agent.archived => action'.retire
      BY Booleans DEF Calm, Settles, ActionValue, IInv
    <2> QED
      BY <1>1, <1>2, <2>1, <2>2 DEF Own, ArchiveOwn, Holding
  <1>7. LabelOwn(q)'
    <2>1. FenceFlight' => FenceFlight
      BY DEF Calm, Shrinks
    <2>2. Fencing(q) => Fencing(q)'
      BY CalmFencing DEF IInv, Core
    <2>3. ~agent.label /\ action.fence = q /\ ~action.quiesced =>
             action'.fence = q /\ ~action'.quiesced
      BY <1>2, <2>2 DEF Fencing
    <2> QED
      BY <1>1, <1>2, <2>1, <2>2, <2>3 DEF Own, LabelOwn, Holding
  <1>8. JournalOwn(q)'
    BY <1>1, <1>2, CalmOlder, JournalOwnOn DEF Own
  <1> QED
    BY <1>4, <1>5, <1>6, <1>7, <1>8 DEF Own

------------------------------------------------------------------------------
(* What such a step leaves of the claims and the label calls.              *)

\* p may not take an effect of an earlier call of its own for the one it
\* fences with now.
Barred(p) == pc[p] \in {"dispatch", "undo", "wait", "quiesce"} /\ call[p].op = "fence"

LEMMA ClaimsStay ==
    ASSUME IInv, AloneCreating',
           \A q \in Process, op \in Ops : Holding(q, op)' => Holding(q, op),
           agent.archived => agent'.archived
    PROVE  Claims'
  <1>1. \A op \in Ops : AloneHolding(op) => AloneHolding(op)'
    BY DEF AloneHolding
  <1> QED
    BY <1>1 DEF IInv, Claims, Ops

LEMMA CalmStep ==
    ASSUME IInv, NEW p \in Process, Calm(p),
           CreateInv', \A q \in Process \ {p} : CreateOwn(q)', AloneCreating',
           TypeOK', Own(p)', LabelCalls', Backs(journal, action, agent)',
           \A op \in Ops : Holding(p, op)' => Holding(p, op)
    PROVE  IInv'
  <1>1. Core'
    BY CalmCore DEF IInv
  <1>2. \A q \in Process : Own(q)'
    BY CalmOwn
  <1>3. Claims'
    <2>1. \A q \in Process, op \in Ops : Holding(q, op)' => Holding(q, op)
      BY DEF Calm, Others, Holding
    <2>2. agent' = agent
      BY CalmOlder
    <2> QED
      BY <2>1, <2>2, ClaimsStay
  <1> QED
    BY <1>1, <1>2, <1>3 DEF IInv

LEMMA CalmKeeps ==
    ASSUME IInv, NEW p \in Process, Calm(p), IntentKept,
           TypeOK', Own(p)', LabelCalls', Backs(journal, action, agent)',
           \A op \in Ops : Holding(p, op)' => Holding(p, op),
           pc'[p] = "create" => pc[p] = "create"
    PROVE  IInv'
  <1>1. CreateInv' /\ \A q \in Process \ {p} : CreateOwn(q)'
    BY CalmCreate, CalmCreateOwn DEF IInv
  <1>2. AloneCreating'
    <2>1. \A q \in Process : pc'[q] = "create" => pc[q] = "create"
      BY DEF Calm, Others
    <2> QED
      BY <2>1 DEF IInv, Claims, AloneCreating
  <1> QED
    BY <1>1, <1>2, CalmStep

LEMMA CallTypes ==
    ASSUME TypeOK, NEW c \in calls
    PROVE  c \in CallValue /\ c.by \in Process /\ c.kind \in Effects
  BY DEF TypeOK, CallValue

LEMMA QuietLabelCalls ==
    ASSUME IInv, NEW p \in Process, Calm(p), calls' = calls,
           pc[p] # "wait" \/ Pending(p) = {},
           Barred(p)' => Barred(p)
    PROVE  LabelCalls'
  <1> SUFFICES ASSUME ~agent'.label, NEW c \in calls, Fence(c)
               PROVE  LabelCall(c)'
    BY DEF LabelCalls, Fence
  <1>0. agent' = agent
    BY DEF Calm, provider
  <1>1. LabelCall(c) /\ c.by \in Process
    BY <1>0, CallTypes DEF IInv, LabelCalls
  <1>2. Fencing(c.by)'
    BY <1>1, CalmFencing DEF LabelCall, IInv, Core
  <1>3. CASE c.by # p
    BY <1>1, <1>2, <1>3 DEF Calm, Others, LabelCall
  <1>4. CASE c.by = p
    <2>1. c.caller # "waits"
      BY <1>1, <1>4 DEF LabelCall, Pending
    <2>2. ~Barred(p)'
      BY <1>1, <1>4, <2>1 DEF LabelCall, Barred
    <2> QED
      BY <1>2, <1>4, <2>1, <2>2 DEF LabelCall, Barred
  <1> QED
    BY <1>3, <1>4

LEMMA AbandonLabelCalls ==
    ASSUME IInv, NEW p \in Process, NEW K, NEW why \in {"dead", "left"},
           Abandon(p, K, why), Calm(p), Barred(p)' => Barred(p) /\ why = "left"
    PROVE  LabelCalls'
  <1> SUFFICES ASSUME ~agent'.label, NEW c \in calls', Fence(c)
               PROVE  LabelCall(c)'
    BY DEF LabelCalls, Fence
  <1>0. TypeOK /\ agent' = agent
    BY DEF IInv, Calm, provider
  <1>1. CASE c \in calls /\ ~(c.by = p /\ c.caller = "waits")
    <2>1. LabelCall(c) /\ c.by \in Process
      BY <1>0, <1>1, CallTypes DEF IInv, LabelCalls
    <2>2. Fencing(c.by)'
      BY <2>1, CalmFencing DEF LabelCall, IInv, Core
    <2>3. CASE c.by # p
      BY <2>1, <2>2, <2>3 DEF Calm, Others, LabelCall
    <2>4. CASE c.by = p
      <3>1. ~Barred(p)'
        BY <1>1, <2>1, <2>4 DEF LabelCall, Barred
      <3> QED
        BY <1>1, <2>2, <2>4, <3>1 DEF LabelCall, Barred
    <2> QED
      BY <2>3, <2>4
  <1>2. CASE ~(c \in calls /\ ~(c.by = p /\ c.caller = "waits"))
    <2>1. /\ c.caller = why /\ c.by = p /\ c.kind \in K
          /\ \E d \in calls : d.kind = c.kind /\ d.by = p /\ d.caller = "waits"
      BY <1>0, <1>2, Orphans
    <2>2. Fencing(p)
      BY <1>0, <2>1 DEF IInv, LabelCalls, LabelCall, Fence
    <2>3. Fencing(p)'
      BY <2>2, CalmFencing DEF IInv, Core
    <2>4. ~Barred(p)' /\ c.caller # "waits"
      BY <2>1 DEF Fence
    <2> QED
      BY <2>1, <2>3, <2>4 DEF LabelCall, Barred
  <1> QED
    BY <1>1, <1>2

\* A call ends, or begins an observation.
Exits(p) ==
    \/ pc'[p] = "idle" /\ call'[p] = Idle
    \/ pc'[p] = "see" /\ call'[p].seen = action' /\ call'[p].entry \in {journal, call[p].entry}

LEMMA ExitOwn ==
    ASSUME IInv, NEW p \in Process, Exits(p), Older(action, action'),
           agent.archived => agent'.archived, agent.label => agent'.label
    PROVE  Own(p)'
  <1>1. pc'[p] \in {"idle", "see"}
    BY DEF Exits
  <1>2. CreateOwn(p)' /\ RunOwn(p)' /\ SendOwn(p)' /\ ArchiveOwn(p)' /\ LabelOwn(p)'
    BY <1>1 DEF CreateOwn, RunOwn, SendOwn, ArchiveOwn, LabelOwn, Holding, Choosing, Commanding
  <1>3. JournalOwn(p)'
    <2>1. CASE pc'[p] = "idle"
      <3>1. call'[p].entry = Idle.entry
        BY <2>1 DEF Exits
      <3>2. Idle.entry = [life |-> "none", fenced |-> FALSE]
        BY DEF Idle
      <3> QED
        BY <2>1, <3>1, <3>2 DEF JournalOwn, Backs, BoundLife
    <2>2. CASE pc'[p] = "see"
      <3>1. Backs(call'[p].entry, action, agent)
        BY <2>2 DEF Exits, IInv, Own, JournalOwn
      <3>2. Backs(call'[p].entry, action', agent')
        BY <3>1, BacksOn
      <3>3. call'[p].seen = action'
        BY <2>2 DEF Exits
      <3> QED
        BY <2>2, <3>2, <3>3 DEF JournalOwn, Older
    <2> QED
      BY <1>1, <2>1, <2>2
  <1> QED
    BY <1>2, <1>3 DEF Own

LEMMA CalmBacks ==
    ASSUME IInv, NEW p \in Process, Calm(p), journal' = journal
    PROVE  Backs(journal, action, agent)'
  BY CalmOlder, BacksOn DEF IInv

LEMMA ExitKeeps ==
    ASSUME IInv, NEW p \in Process, Calm(p), IntentKept, TypeOK', Exits(p),
           Backs(journal, action, agent)',
           \/ calls' = calls /\ (pc[p] # "wait" \/ Pending(p) = {})
           \/ \E K : \E why \in {"dead", "left"} : Abandon(p, K, why)
    PROVE  IInv'
  <1>1. ~Barred(p)' /\ pc'[p] # "create" /\ \A op \in Ops : ~Holding(p, op)'
    BY DEF Exits, Barred, Holding
  <1>2. Own(p)'
    BY CalmOlder, ExitOwn
  <1>3. LabelCalls'
    BY <1>1, QuietLabelCalls, AbandonLabelCalls
  <1> QED
    BY <1>1, <1>2, <1>3, CalmKeeps

LEMMA Looks ==
    ASSUME TypeOK, NEW p \in Process, NEW c \in Local, action' \in ActionValue, Look(p, c)
    PROVE  /\ pc' \in [Process -> Stages] /\ call' \in [Process -> Local]
           /\ Others(p)
           /\ pc'[p] = "see" /\ call'[p].seen = action' /\ call'[p].entry = c.entry
  <1> DEFINE d == [c EXCEPT !.seen = action']
  <1>1. d \in Local /\ d.seen = action' /\ d.entry = c.entry
    BY DEF Local
  <1>2. "see" \in Stages
    BY DEF Stages
  <1>3. Continue(p, "see", d)
    BY DEF Look
  <1> HIDE DEF d
  <1> QED
    BY <1>1, <1>2, <1>3, Moves, ArrivalTypes DEF Arrives

LEMMA Ends ==
    ASSUME TypeOK, NEW p \in Process, Finish(p)
    PROVE  /\ pc' \in [Process -> Stages] /\ call' \in [Process -> Local]
           /\ Others(p) /\ Exits(p)
           /\ pc'[p] = "idle" /\ call'[p] = Idle
  BY Finishes, FinishTypes DEF Arrives, Exits

LEMMA LookExits ==
    ASSUME TypeOK, NEW p \in Process, NEW c \in Local, action' \in ActionValue, Look(p, c),
           c.entry \in {journal, call[p].entry}
    PROVE  /\ pc' \in [Process -> Stages] /\ call' \in [Process -> Local]
           /\ Others(p) /\ Exits(p)
  BY Looks DEF Exits

LEMMA ReadsBack ==
    ASSUME TypeOK, NEW p \in Process, action' \in ActionValue, Readback(p)
    PROVE  /\ pc' \in [Process -> Stages] /\ call' \in [Process -> Local]
           /\ Others(p) /\ Exits(p)
  <1> DEFINE c == [call[p] EXCEPT !.stage = "after"]
  <1>1. call[p] \in Local
    BY DEF TypeOK
  <1>2. c \in Local /\ c.entry = call[p].entry
    BY <1>1 DEF Local
  <1>3. Look(p, c)
    BY DEF Readback
  <1> HIDE DEF c
  <1> QED
    BY <1>2, <1>3, LookExits

------------------------------------------------------------------------------
(* Calls, the journal and the preparation of the Workspace.                *)

LEMMA Steady ==
    ASSUME TypeOK, NEW p, UNCHANGED <<action, provider, dispatched>>, Shrinks, Others(p)
    PROVE  Calm(p) /\ action' \in ActionValue
  <1>1. Settles(action, action)
    BY SettlesNothing DEF TypeOK
  <1> QED
    BY <1>1 DEF Calm, TypeOK

\* The types of what a step leaves alone.
LEMMA SteadyTypes ==
    ASSUME TypeOK, UNCHANGED <<action, provider, dispatched>>, calls' \subseteq CallValue,
           journal' \in JournalValue, intent' \in Phases,
           pc' \in [Process -> Stages], call' \in [Process -> Local]
    PROVE  TypeOK'
  BY DEF TypeOK, provider

LEMMA CallsKeep ==
    ASSUME IInv, NEW p \in Process, NEW op \in Asks[p], Call(p, op)
    PROVE  IInv'
  <1> DEFINE c == [Idle EXCEPT !.op = op, !.entry = journal]
  <1>1. TypeOK /\ pc[p] = "idle" /\ Look(p, c)
        /\ UNCHANGED <<journal, intent, action, provider, calls, dispatched>>
    BY DEF Call, durable, IInv
  <1>2. op \in Ops
    BY AsksAssumption
  <1>3. c \in Local /\ c.entry = journal
    BY <1>1, <1>2, IdleTypes DEF Local, TypeOK
  <1> HIDE DEF c
  <1>4. /\ pc' \in [Process -> Stages] /\ call' \in [Process -> Local]
        /\ Others(p) /\ Exits(p)
    BY <1>1, <1>3, LookExits DEF TypeOK
  <1>5. Calm(p)
    BY <1>1, <1>4, Steady, SameCalls
  <1>6. TypeOK'
    BY <1>1, <1>4, SteadyTypes DEF TypeOK
  <1>7. Backs(journal, action, agent)'
    BY <1>1, <1>5, CalmBacks
  <1> QED
    BY <1>1, <1>4, <1>5, <1>6, <1>7, ExitKeeps DEF IntentKept

LEMMA ObservationTypes ==
    ASSUME TypeOK, NEW p \in Process
    PROVE  Observation(p) \in JournalValue /\ call[p] \in Local
  <1>1. call[p] \in Local
    BY DEF TypeOK
  <1> QED
    BY <1>1 DEF Observation, JournalValue, Local, ActionValue

LEMMA RecordKeeps ==
    ASSUME IInv, NEW p \in Process, Record(p)
    PROVE  IInv'
  <1>1. TypeOK /\ pc[p] = "record" /\ Finish(p)
        /\ UNCHANGED <<intent, action, provider, calls, dispatched>>
        /\ journal' \in {journal, Observation(p)}
    BY DEF Record, IInv
  <1>2. /\ pc' \in [Process -> Stages] /\ call' \in [Process -> Local]
        /\ Others(p) /\ Exits(p)
    BY <1>1, Ends
  <1>3. Calm(p)
    BY <1>1, <1>2, Steady, SameCalls
  <1>4. TypeOK'
    BY <1>1, <1>2, SteadyTypes, ObservationTypes DEF TypeOK
  <1>5. Backs(journal', action, agent)
    <2>1. CASE journal' = journal
      BY <2>1 DEF IInv
    <2>2. CASE journal' = Observation(p)
      BY <1>1, <2>2 DEF IInv, Own, JournalOwn
    <2> QED
      BY <1>1, <2>1, <2>2
  <1>6. Backs(journal, action, agent)'
    BY <1>1, <1>5 DEF provider
  <1> QED
    BY <1>1, <1>2, <1>3, <1>4, <1>6, ExitKeeps DEF IntentKept

LEMMA NoteKeeps ==
    ASSUME IInv, NEW p \in Process, Note(p)
    PROVE  IInv'
  <1>1. TypeOK /\ pc[p] = "note" /\ UNCHANGED <<intent, action, provider, calls, dispatched>>
    BY DEF Note, IInv
  <1>2. CASE journal # call[p].entry
    <2>1. journal' = journal /\ Finish(p)
      BY <1>2 DEF Note
    <2>2. /\ pc' \in [Process -> Stages] /\ call' \in [Process -> Local]
          /\ Others(p) /\ Exits(p)
      BY <1>1, <2>1, Ends
    <2>3. Calm(p)
      BY <1>1, <2>2, Steady, SameCalls
    <2>4. TypeOK'
      BY <1>1, <2>1, <2>2, SteadyTypes DEF TypeOK
    <2>5. Backs(journal, action, agent)'
      BY <2>1, <2>3, CalmBacks
    <2> QED
      BY <1>1, <2>2, <2>3, <2>4, <2>5, ExitKeeps DEF IntentKept
  <1>3. CASE journal = call[p].entry
    <2> DEFINE c == [call[p] EXCEPT !.entry = Observation(p)]
    <2>1. journal' = Observation(p) /\ Continue(p, "gate", c)
      BY <1>3 DEF Note
    <2>2. /\ c \in Local /\ c.entry = Observation(p) /\ c.op = call[p].op
          /\ c.seen = call[p].seen /\ c.life = call[p].life
      BY <1>1, ObservationTypes DEF Local
    <2>3. "gate" \in Stages
      BY DEF Stages
    <2> HIDE DEF c
    <2>4. /\ pc' \in [Process -> Stages] /\ call' \in [Process -> Local]
          /\ Others(p) /\ pc'[p] = "gate" /\ call'[p] = c
      BY <1>1, <2>1, <2>2, <2>3, Moves, ArrivalTypes DEF Arrives
    <2>5. Calm(p)
      BY <1>1, <2>4, Steady, SameCalls
    <2>6. TypeOK'
      BY <1>1, <2>1, <2>4, SteadyTypes, ObservationTypes DEF TypeOK
    <2>7. Backs(Observation(p), action, agent) /\ Own(p)
      BY <1>1 DEF IInv, Own, JournalOwn
    <2>8. Backs(journal, action, agent)'
      BY <1>1, <2>1, <2>7 DEF provider
    <2>9. LabelCalls'
      BY <1>1, <2>4, <2>5, QuietLabelCalls DEF Barred
    <2>10. Own(p)'
      <3>1. CreateOwn(p)' /\ ArchiveOwn(p)' /\ LabelOwn(p)'
        BY <2>4 DEF CreateOwn, ArchiveOwn, LabelOwn, Holding
      <3>2. RunOwn(p)'
        BY <1>1, <2>2, <2>4, <2>7 DEF Own, RunOwn, Holding, Choosing, Commanding
      <3>3. SendOwn(p)'
        BY <1>1, <2>2, <2>4, <2>7 DEF Own, SendOwn, Holding
      <3>4. JournalOwn(p)'
        BY <1>1, <2>2, <2>4, <2>7 DEF JournalOwn, provider
      <3> QED
        BY <3>1, <3>2, <3>3, <3>4 DEF Own
    <2> QED
      BY <1>1, <2>4, <2>5, <2>6, <2>8, <2>9, <2>10, CalmKeeps DEF IntentKept, Holding
  <1> QED
    BY <1>2, <1>3

\* A position of the preparation, where a call knows nothing but where it
\* started.
LEMMA PlainOwn ==
    ASSUME IInv, NEW p \in Process, Calm(p),
           pc'[p] \in {"prepare", "lookup", "reserve", "creating"}
              \/ (pc'[p] = "commit" /\ workspaces' = 1),
           call'[p].entry = call[p].entry
    PROVE  Own(p)'
  <1>1. CreateOwn(p)' /\ RunOwn(p)' /\ SendOwn(p)' /\ ArchiveOwn(p)' /\ LabelOwn(p)'
    BY DEF CreateOwn, RunOwn, SendOwn, ArchiveOwn, LabelOwn, Holding, Choosing, Commanding
  <1>2. JournalOwn(p)'
    <2>1. Backs(call[p].entry, action', agent')
      BY CalmOlder, BacksOn DEF IInv, Own, JournalOwn
    <2> QED
      BY <2>1 DEF JournalOwn
  <1> QED
    BY <1>1, <1>2 DEF Own

LEMMA ReceiptExits ==
    ASSUME TypeOK, NEW p \in Process, action' \in ActionValue, Receipt(p)
    PROVE  /\ pc' \in [Process -> Stages] /\ call' \in [Process -> Local]
           /\ Others(p) /\ Exits(p)
  <1> DEFINE c == [call[p] EXCEPT !.stage = "again", !.phase = "none"]
  <1>1. call[p] \in Local
    BY DEF TypeOK
  <1>2. c \in Local /\ c.entry = call[p].entry
    BY <1>1 DEF Local, Phases
  <1>3. Look(p, c)
    BY DEF Receipt
  <1> HIDE DEF c
  <1> QED
    BY <1>2, <1>3, LookExits

LEMMA PrepareKeeps ==
    ASSUME IInv, NEW p \in Process, Prepare(p)
    PROVE  IInv'
  <1>1. TypeOK /\ pc[p] = "prepare" /\ UNCHANGED <<journal, action, provider, calls, dispatched>>
    BY DEF Prepare, IInv
  <1>2. CASE action.present
    <2>1. intent' = intent /\ Receipt(p)
      BY <1>2 DEF Prepare
    <2>2. /\ pc' \in [Process -> Stages] /\ call' \in [Process -> Local]
          /\ Others(p) /\ Exits(p)
      BY <1>1, <2>1, ReceiptExits DEF TypeOK
    <2>3. Calm(p)
      BY <1>1, <2>2, Steady, SameCalls
    <2>4. TypeOK'
      BY <1>1, <2>1, <2>2, SteadyTypes DEF TypeOK
    <2>5. Backs(journal, action, agent)'
      BY <1>1, <2>3, CalmBacks
    <2> QED
      BY <1>1, <2>1, <2>2, <2>3, <2>4, <2>5, ExitKeeps DEF IntentKept
  <1>3. CASE ~action.present
    <2> DEFINE c == [call[p] EXCEPT !.phase = intent']
    <2>1. intent' = (IF intent = "none" THEN "recorded" ELSE intent)
      BY <1>3 DEF Prepare
    <2>2. Continue(p, "lookup", c)
      BY <1>3 DEF Prepare
    <2>3. IntentKept /\ intent' \in Phases
      BY <1>1, <1>3, <2>1 DEF IntentKept, TypeOK, Phases
    <2>4. c \in Local /\ c.entry = call[p].entry
      BY <1>1, <2>3, ObservationTypes DEF Local
    <2>5. "lookup" \in Stages
      BY DEF Stages
    <2> HIDE DEF c
    <2>6. /\ pc' \in [Process -> Stages] /\ call' \in [Process -> Local]
          /\ Others(p) /\ pc'[p] = "lookup" /\ call'[p] = c
      BY <1>1, <2>2, <2>4, <2>5, Moves, ArrivalTypes DEF Arrives
    <2>7. Calm(p)
      BY <1>1, <2>6, Steady, SameCalls
    <2>8. TypeOK'
      BY <1>1, <2>3, <2>6, SteadyTypes DEF TypeOK
    <2>9. LabelCalls'
      BY <1>1, <2>6, <2>7, QuietLabelCalls DEF Barred
    <2>10. Own(p)' /\ Backs(journal, action, agent)'
      BY <1>1, <2>4, <2>6, <2>7, PlainOwn, CalmBacks
    <2> QED
      BY <2>3, <2>6, <2>7, <2>8, <2>9, <2>10, CalmKeeps DEF Holding
  <1> QED
    BY <1>2, <1>3

LEMMA LookupKeeps ==
    ASSUME IInv, NEW p \in Process, Lookup(p)
    PROVE  IInv'
  <1>1. TypeOK /\ pc[p] = "lookup"
        /\ UNCHANGED <<journal, intent, action, provider, calls, dispatched>>
    BY DEF Lookup, IInv, durable
  <1>2. \/ Finish(p)
        \/ workspaces = 1 /\ Continue(p, "commit", call[p])
        \/ Continue(p, "reserve", call[p])
    BY DEF Lookup
  <1>3. CASE Finish(p)
    <2>1. /\ pc' \in [Process -> Stages] /\ call' \in [Process -> Local]
          /\ Others(p) /\ Exits(p)
      BY <1>1, <1>3, Ends
    <2>2. Calm(p)
      BY <1>1, <2>1, Steady, SameCalls
    <2>3. TypeOK'
      BY <1>1, <2>1, SteadyTypes DEF TypeOK
    <2>4. Backs(journal, action, agent)'
      BY <1>1, <2>2, CalmBacks
    <2> QED
      BY <1>1, <2>1, <2>2, <2>3, <2>4, ExitKeeps DEF IntentKept
  <1>4. ASSUME NEW s \in {"commit", "reserve"}, Continue(p, s, call[p]),
               s = "commit" => workspaces = 1
        PROVE  IInv'
    <2>1. call[p] \in Local /\ s \in Stages
      BY <1>1, ObservationTypes DEF Stages
    <2>2. /\ pc' \in [Process -> Stages] /\ call' \in [Process -> Local]
          /\ Others(p) /\ pc'[p] = s /\ call'[p] = call[p]
      BY <1>1, <1>4, <2>1, Moves, ArrivalTypes DEF Arrives
    <2>3. Calm(p)
      BY <1>1, <2>2, Steady, SameCalls
    <2>4. TypeOK'
      BY <1>1, <2>2, SteadyTypes DEF TypeOK
    <2>5. LabelCalls'
      BY <1>1, <2>2, <2>3, QuietLabelCalls DEF Barred
    <2>6. workspaces' = workspaces
      BY <1>1 DEF provider
    <2>7. Own(p)' /\ Backs(journal, action, agent)'
      BY <1>1, <1>4, <2>2, <2>3, <2>6, PlainOwn, CalmBacks
    <2> QED
      BY <1>1, <2>2, <2>3, <2>4, <2>5, <2>7, CalmKeeps DEF Holding, IntentKept
  <1> QED
    BY <1>2, <1>3, <1>4

------------------------------------------------------------------------------
(* The ends of calls and of their CLI processes.                           *)

\* A step at which the effect of p is abandoned and its call ends.
LEMMA AbandonKeeps ==
    ASSUME IInv, NEW p \in Process, NEW K, NEW why \in {"dead", "left"},
           Abandon(p, K, why), UNCHANGED <<journal, intent, action, provider, dispatched>>,
           Finish(p) \/ Readback(p)
    PROVE  IInv'
  <1>1. TypeOK /\ action' \in ActionValue
    BY DEF IInv, TypeOK
  <1>2. Shrinks
    BY <1>1, AbandonShrinks
  <1>3. /\ pc' \in [Process -> Stages] /\ call' \in [Process -> Local]
        /\ Others(p) /\ Exits(p)
    BY <1>1, Ends, ReadsBack
  <1>4. Calm(p)
    BY <1>1, <1>2, <1>3, Steady
  <1>5. TypeOK'
    BY <1>1, <1>2, <1>3, SteadyTypes DEF TypeOK, Shrinks
  <1>6. Backs(journal, action, agent)'
    BY <1>4, CalmBacks
  <1> QED
    BY <1>3, <1>4, <1>5, <1>6, ExitKeeps DEF IntentKept

LEMMA DieKeeps ==
    ASSUME IInv, NEW p \in Process, Die(p)
    PROVE  IInv'
  <1>1. Abandon(p, Effects, "dead") \/ Abandon(p, {}, "dead")
    BY DEF Die
  <1>2. UNCHANGED <<journal, intent, action, provider, dispatched>> /\ Finish(p)
    BY DEF Die, durable
  <1> QED
    BY <1>1, <1>2, AbandonKeeps

LEMMA SucceedKeeps ==
    ASSUME IInv, NEW p \in Process, Succeed(p)
    PROVE  IInv'
  <1>1. TypeOK /\ action' \in ActionValue /\ Readback(p) /\ Pending(p) = {}
        /\ UNCHANGED <<journal, intent, action, provider, calls, dispatched>>
    BY DEF Succeed, IInv, TypeOK, durable
  <1>2. /\ pc' \in [Process -> Stages] /\ call' \in [Process -> Local]
        /\ Others(p) /\ Exits(p)
    BY <1>1, ReadsBack
  <1>3. Calm(p)
    BY <1>1, <1>2, Steady, SameCalls
  <1>4. TypeOK'
    BY <1>1, <1>2, SteadyTypes DEF TypeOK
  <1>5. Backs(journal, action, agent)'
    BY <1>1, <1>3, CalmBacks
  <1> QED
    BY <1>1, <1>2, <1>3, <1>4, <1>5, ExitKeeps DEF IntentKept

LEMMA CreateEndsKeeps ==
    ASSUME IInv, NEW p \in Process, CreateEnds(p)
    PROVE  IInv'
  <1>1. TypeOK /\ pc[p] = "creating"
        /\ UNCHANGED <<journal, intent, action, provider, dispatched>>
    BY DEF CreateEnds, IInv, durable
  <1>2. calls' = calls \/ \E K : \E why \in {"dead", "left"} : Abandon(p, K, why)
    BY DEF CreateEnds, Lost
  <1>3. Shrinks
    BY <1>1, <1>2, SameCalls, AbandonShrinks
  <1>4. CASE Finish(p)
    <2>1. /\ pc' \in [Process -> Stages] /\ call' \in [Process -> Local]
          /\ Others(p) /\ Exits(p)
      BY <1>1, <1>4, Ends
    <2>2. Calm(p)
      BY <1>1, <1>3, <2>1, Steady
    <2>3. TypeOK'
      BY <1>1, <1>3, <2>1, SteadyTypes DEF TypeOK, Shrinks
    <2>4. Backs(journal, action, agent)'
      BY <1>1, <2>2, CalmBacks
    <2> QED
      BY <1>1, <1>2, <2>1, <2>2, <2>3, <2>4, ExitKeeps DEF IntentKept
  <1>5. CASE workspaces = 1 /\ Continue(p, "commit", call[p])
    <2>1. call[p] \in Local /\ "commit" \in Stages
      BY <1>1, ObservationTypes DEF Stages
    <2>2. /\ pc' \in [Process -> Stages] /\ call' \in [Process -> Local]
          /\ Others(p) /\ pc'[p] = "commit" /\ call'[p] = call[p]
      BY <1>1, <1>5, <2>1, Moves, ArrivalTypes DEF Arrives
    <2>3. Calm(p)
      BY <1>1, <1>3, <2>2, Steady
    <2>4. TypeOK'
      BY <1>1, <1>3, <2>2, SteadyTypes DEF TypeOK, Shrinks
    <2>5. LabelCalls'
      BY <1>1, <1>2, <2>2, <2>3, QuietLabelCalls, AbandonLabelCalls DEF Barred
    <2>6. workspaces' = workspaces
      BY <1>1 DEF provider
    <2>7. Own(p)' /\ Backs(journal, action, agent)'
      BY <1>1, <1>5, <2>2, <2>3, <2>6, PlainOwn, CalmBacks
    <2> QED
      BY <1>1, <2>2, <2>3, <2>4, <2>5, <2>7, CalmKeeps DEF Holding, IntentKept
  <1> QED
    BY <1>4, <1>5 DEF CreateEnds

LEMMA NotDispatchedKeeps ==
    ASSUME IInv, NEW p \in Process, NotDispatched(p)
    PROVE  IInv'
  <1>1. TypeOK /\ pc[p] = "dispatch"
        /\ UNCHANGED <<journal, intent, action, provider, calls, dispatched, call>>
    BY DEF NotDispatched, IInv, durable
  <1>2. "undo" \in Stages
    BY DEF Stages
  <1>3. /\ pc' \in [Process -> Stages] /\ call' \in [Process -> Local]
        /\ Others(p) /\ pc'[p] = "undo" /\ call'[p] = call[p]
    BY <1>1, <1>2 DEF NotDispatched, Goto, TypeOK, Others
  <1>4. Calm(p)
    BY <1>1, <1>3, Steady, SameCalls
  <1>5. TypeOK'
    BY <1>1, <1>3, SteadyTypes DEF TypeOK
  <1>6. LabelCalls'
    BY <1>1, <1>3, <1>4, QuietLabelCalls DEF Barred
  <1>7. Backs(journal, action, agent)'
    BY <1>1, <1>4, CalmBacks
  <1>8. Own(p)'
    <2>1. Own(p)
      BY DEF IInv
    <2>2. CreateOwn(p)'
      BY <1>3 DEF CreateOwn
    <2>3. RunOwn(p)' /\ SendOwn(p)'
      BY <1>1, <1>3, <2>1 DEF Own, RunOwn, SendOwn, Holding, Choosing, Commanding, Still,
                                Flight, provider
    <2>4. ArchiveOwn(p)' /\ LabelOwn(p)'
      BY <1>1, <1>3, <2>1 DEF Own, ArchiveOwn, LabelOwn, Holding, Fencing, Flight, FenceFlight,
                                provider
    <2>5. JournalOwn(p)'
      BY <1>1, <1>3, <2>1 DEF Own, JournalOwn, provider
    <2> QED
      BY <2>2, <2>3, <2>4, <2>5 DEF Own
  <1>9. \A op \in Ops : Holding(p, op)' => Holding(p, op)
    BY <1>1, <1>3 DEF Holding
  <1> QED
    BY <1>1, <1>3, <1>4, <1>5, <1>6, <1>7, <1>8, <1>9, CalmKeeps DEF IntentKept

\* A label call that its caller leaves is the only one there was.
LEMMA NoLabelLeft ==
    ASSUME IInv, NEW p \in Process, NEW K, Abandon(p, K, "left"), Fencing(p), Barred(p)
    PROVE  ~FenceFlight'
  <1> SUFFICES ASSUME NEW c \in calls', Fence(c)
               PROVE  FALSE
    BY DEF FenceFlight, Fence
  <1>1. TypeOK
    BY DEF IInv
  <1>2. c \in calls /\ ~(c.by = p /\ c.caller = "waits")
    BY <1>1, Orphans DEF Fence
  <1>3. LabelCall(c)
    BY <1>2 DEF IInv, LabelCalls, Fencing
  <1>4. c.by = p
    BY <1>3 DEF LabelCall, Fencing
  <1> QED
    BY <1>2, <1>3, <1>4 DEF LabelCall, Barred

LEMMA FailKeeps ==
    ASSUME IInv, NEW p \in Process, Fail(p)
    PROVE  IInv'
  <1>1. TypeOK /\ pc[p] = "wait"
        /\ UNCHANGED <<journal, intent, action, provider, dispatched>>
    BY DEF Fail, IInv, durable
  <1>2. PICK K \in {Late, {}} : Abandon(p, K, "left")
    BY DEF Fail, Lost
  <1>3. CASE call[p].op # "fence"
    BY <1>1, <1>2, <1>3, AbandonKeeps DEF Fail
  <1>4. CASE call[p].op = "fence"
    <2>1. Continue(p, "quiesce", call[p])
      BY <1>4 DEF Fail
    <2>2. call[p] \in Local /\ "quiesce" \in Stages
      BY <1>1, ObservationTypes DEF Stages
    <2>3. /\ pc' \in [Process -> Stages] /\ call' \in [Process -> Local]
          /\ Others(p) /\ pc'[p] = "quiesce" /\ call'[p] = call[p]
      BY <1>1, <2>1, <2>2, Moves, ArrivalTypes DEF Arrives
    <2>4. Shrinks
      BY <1>1, <1>2, AbandonShrinks
    <2>5. Calm(p)
      BY <1>1, <2>3, <2>4, Steady
    <2>6. TypeOK'
      BY <1>1, <2>3, <2>4, SteadyTypes DEF TypeOK, Shrinks
    <2>7. Barred(p)
      BY <1>1, <1>4 DEF Barred
    <2>8. LabelCalls'
      BY <1>2, <2>5, <2>7, AbandonLabelCalls
    <2>9. Backs(journal, action, agent)'
      BY <1>1, <2>5, CalmBacks
    <2>10. Own(p)'
      <3>1. Own(p)
        BY DEF IInv
      <3>2. CreateOwn(p)' /\ SendOwn(p)' /\ ArchiveOwn(p)'
        BY <2>3 DEF CreateOwn, SendOwn, ArchiveOwn, Holding
      <3>3. RunOwn(p)'
        BY <1>1, <1>4, <2>3, <3>1 DEF Own, RunOwn, Holding, Choosing, Commanding
      <3>4. LabelOwn(p)'
        <4>1. agent.label \/ Fencing(p)
          BY <1>1, <1>4, <3>1 DEF Own, LabelOwn, Fencing
        <4>2. Fencing(p) => ~FenceFlight'
          BY <1>2, <2>7, NoLabelLeft
        <4> QED
          BY <1>1, <1>4, <2>3, <4>1, <4>2 DEF LabelOwn, Holding, Fencing, provider
      <3>5. JournalOwn(p)'
        BY <1>1, <2>3, <3>1 DEF Own, JournalOwn, provider
      <3> QED
        BY <3>2, <3>3, <3>4, <3>5 DEF Own
    <2> QED
      BY <1>1, <2>3, <2>5, <2>6, <2>8, <2>9, <2>10, CalmKeeps DEF IntentKept, Holding
  <1> QED
    BY <1>3, <1>4

------------------------------------------------------------------------------
(* Observations and the one-shot gate.                                     *)

LEMMA LifeTypes ==
    ASSUME NEW v
    PROVE  v \in BoundLife \cup {"prepared"} => v \in Recordable
  BY DEF Recordable, BoundLife

\* Where a call goes on with what it has observed.
LEMMA HeadingFacts ==
    ASSUME NEW c \in Local, NEW v, NEW r, NEW next, next = Heading(c, v, r)
    PROVE  /\ next \in {"idle", "prepare", "note", "gate", "record"}
           /\ v = "changed" => next = "idle"
           /\ next = "record" => v \in BoundLife
           /\ next = "note" => \/ /\ v = "prepared" /\ c.op = "progress"
                                  /\ c.entry.life \notin BoundLife
                               \/ v = "parked" /\ c.op = "resume"
           /\ next = "gate" => v \in BoundLife /\ c.op \notin {"progress", "resume"}
  <1>1. CASE c.stage = "after"
    <2>1. next = IF v \in BoundLife /\ Proves(c.op, v, r) THEN "record" ELSE "idle"
      BY <1>1 DEF Heading
    <2> QED
      BY <2>1 DEF BoundLife
  <1>2. CASE c.stage # "after"
    <2>1. CASE v = "absent"
      <3>1. next \in {"prepare", "idle"}
        BY <1>2, <2>1 DEF Heading, BoundLife
      <3> QED
        BY <2>1, <3>1
    <2>2. CASE v = "prepared"
      <3>1. next = IF c.op = "progress" /\ c.entry.life \notin BoundLife
                   THEN "note" ELSE "idle"
        BY <1>2, <2>2 DEF Heading, BoundLife
      <3> QED
        BY <2>2, <3>1
    <2>3. CASE v \in BoundLife
      <3>1. CASE c.op = "progress"
        <4>1. next = IF v \in {"running", "completed"} /\ c.entry.life = "none"
                     THEN "idle" ELSE "record"
          BY <1>2, <2>3, <3>1 DEF Heading, BoundLife
        <4> QED
          BY <2>3, <4>1 DEF BoundLife
      <3>2. CASE c.op = "resume"
        <4>1. next = IF v = "parked" /\ ~r.fenced THEN "note" ELSE "idle"
          BY <1>2, <2>3, <3>2 DEF Heading, BoundLife
        <4> QED
          BY <2>3, <3>2, <4>1 DEF BoundLife
      <3>3. CASE c.op \notin {"progress", "resume"}
        <4>1. next = "gate"
          BY <1>2, <2>3, <3>3 DEF Heading, BoundLife
        <4> QED
          BY <2>3, <3>3, <4>1 DEF BoundLife
      <3> QED
        BY <3>1, <3>2, <3>3
    <2>4. CASE v \notin BoundLife \cup {"absent", "prepared"}
      <3>1. next = "idle"
        BY <1>2, <2>4 DEF Heading
      <3> QED
        BY <3>1
    <2> QED
      BY <2>1, <2>2, <2>3, <2>4
  <1> QED
    BY <1>1, <1>2

LEMMA CarriedTypes ==
    ASSUME NEW c \in Local, NEW v, NEW r \in ActionValue,
           NEW next \in {"prepare", "note", "gate", "record"},
           next # "prepare" => v \in BoundLife \cup {"prepared"},
           NEW d, d = Carried(c, next, v, r)
    PROVE  /\ d \in Local /\ d.entry = c.entry
           /\ next = "record" => d.life = v /\ d.seen.fenced = r.fenced
           /\ next \in {"note", "gate"} => d.op = c.op /\ d.life = v /\ d.seen = r
  <1>1. CASE next = "prepare"
    <2>1. d = [c EXCEPT !.seen = Absent]
      BY <1>1 DEF Carried
    <2> QED
      BY <1>1, <2>1, IdleTypes DEF Local
  <1>2. CASE next = "record"
    <2> DEFINE s == [Idle.seen EXCEPT !.fenced = r.fenced]
    <2>1. d = [Idle EXCEPT !.entry = c.entry, !.life = v, !.seen = s]
      BY <1>2, IdleTypes DEF Carried, Idle
    <2>2. s \in ActionValue /\ s.fenced = r.fenced
      BY IdleTypes DEF ActionValue
    <2>3. v \in Recordable
      BY <1>2, LifeTypes
    <2>4. c.entry \in JournalValue
      BY DEF Local
    <2> HIDE DEF s
    <2>5. d \in Local /\ d.entry = c.entry /\ d.life = v /\ d.seen = s
      BY <2>1, <2>2, <2>3, <2>4, IdleTypes DEF Local
    <2> QED
      BY <1>2, <2>2, <2>5
  <1>3. CASE next \in {"note", "gate"}
    <2>1. d = [c EXCEPT !.stage = "first", !.seen = r, !.life = v]
      BY <1>3 DEF Carried
    <2>2. v \in Recordable
      BY <1>3, LifeTypes
    <2> QED
      BY <1>3, <2>1, <2>2 DEF Local
  <1> QED
    BY <1>1, <1>2, <1>3

\* A readback never ranks below an observation that its record backs.
LEMMA ReadbackRanks ==
    ASSUME NEW j \in JournalValue, NEW a, NEW r, NEW v \in BoundLife, Shows(v, a, r),
           Backs(j, a, agent)
    PROVE  Rank[j.life] <= Rank[v]
  <1>1. j.life \in Recordable
    BY DEF JournalValue
  <1>2. j.life = "retired" => v = "retired"
    BY DEF Backs, Shows
  <1>3. j.life = "completed" => v \in {"completed", "retired"}
    BY DEF Backs, Shows
  <1> QED
    BY <1>1, <1>2, <1>3 DEF Rank, Recordable, BoundLife

\* What p knows at its next position of the record r that the readback leaves.
LEMMA ObservedOwn ==
    ASSUME IInv, NEW p \in Process, pc[p] = "see", Calm(p), Core',
           NEW r, NEW v, Settles(call[p].seen, r), Shows(v, call[p].seen, r),
           Older(r, action'), NEW next, next = Heading(call[p], v, r), next # "idle",
           NEW d, d = Carried(call[p], next, v, r),
           pc'[p] = next, call'[p] = d
    PROVE  Own(p)' /\ d \in Local
  <1> DEFINE a == call[p].seen
             e == call[p].entry
  <1>1. TypeOK /\ call[p] \in Local /\ Own(p)
    BY ObservationTypes DEF IInv
  <1>2. a \in ActionValue /\ e \in JournalValue /\ r \in ActionValue
    BY <1>1 DEF Local, Settles
  <1>3. Backs(e, action, agent) /\ Backs(e, a, agent) /\ Older(a, action)
    BY <1>1 DEF Own, JournalOwn
  <1>4. agent' = agent
    BY CalmOlder
  <1>5. Older(a, r)
    BY DEF Settles
  <1> HIDE DEF a, e
  <1>6. /\ next \in {"prepare", "note", "gate", "record"}
        /\ next = "record" => v \in BoundLife
        /\ next = "note" => \/ /\ v = "prepared" /\ call[p].op = "progress"
                               /\ e.life \notin BoundLife
                            \/ v = "parked" /\ call[p].op = "resume"
        /\ next = "gate" => v \in BoundLife /\ call[p].op \notin {"progress", "resume"}
    BY <1>1, HeadingFacts DEF e
  <1>7. next # "prepare" => v \in BoundLife \cup {"prepared"}
    BY <1>6 DEF BoundLife
  <1>8. /\ d \in Local /\ d.entry = e
        /\ next = "record" => d.life = v /\ d.seen.fenced = r.fenced
        /\ next \in {"note", "gate"} => d.op = call[p].op /\ d.life = v /\ d.seen = r
    BY <1>1, <1>2, <1>6, <1>7, CarriedTypes DEF e
  <1>9. CreateOwn(p)' /\ ArchiveOwn(p)' /\ LabelOwn(p)'
    BY <1>6 DEF CreateOwn, ArchiveOwn, LabelOwn, Holding
  <1>10. v \in BoundLife => action'.bound /\ action'.present
    BY DEF Shows, Older
  <1>11. "parked" \in BoundLife /\ "prepared" \notin BoundLife
    BY DEF BoundLife
  <1>12. RunOwn(p)'
    <2>1. next \in {"note", "gate"} /\ call[p].op = "progress" =>
             ~r.bound /\ ~r.start /\ r.present
      BY <1>6, <1>11 DEF Shows, a
    <2>2. next \in {"note", "gate"} /\ call[p].op # "progress" => action'.bound
      BY <1>6, <1>10, <1>11
    <2> QED
      BY <1>6, <1>8, <2>1, <2>2 DEF RunOwn, Holding, Choosing, Commanding
  <1>13. SendOwn(p)'
    BY <1>6, <1>8 DEF SendOwn, Holding
  <1>14. JournalOwn(p)'
    <2>1. Backs(e, action', agent')
      BY <1>3, CalmOlder, BacksOn
    <2>2. ASSUME next \in {"note", "record"}
          PROVE  /\ Backs(Observation(p)', action', agent')
                 /\ Rank[e.life] <= Rank[d.life]
                 /\ e.fenced => d.seen.fenced
      <3>1. d.life = v /\ d.seen.fenced = r.fenced
        BY <1>8, <2>2
      <3>2. Observation(p)' = [life |-> v, fenced |-> r.fenced]
        BY <3>1 DEF Observation
      <3>3. r.fenced => action'.fenced /\ agent'.label
        BY DEF Older, Core, BoundInv
      <3>4. v \in BoundLife \cup {"prepared"}
        BY <1>7, <2>2
      <3>5. v = "prepared" => action'.present
        BY <1>2 DEF Shows, Older, a, Settles
      <3>6. v = "completed" => action'.output
        BY DEF Shows, Older
      <3>7. v = "retired" => agent'.archived
        BY <1>4 DEF Shows
      <3>8. Backs([life |-> v, fenced |-> r.fenced], action', agent')
        BY <1>10, <3>3, <3>4, <3>5, <3>6, <3>7 DEF Backs
      <3>9. Rank[e.life] <= Rank[v]
        <4>1. CASE v \in BoundLife
          BY <1>2, <1>3, <4>1, ReadbackRanks DEF a
        <4>2. CASE v = "prepared"
          <5>1. e.life \in {"none", "prepared"}
            BY <1>2, <1>6, <1>11, <2>2, <4>2 DEF JournalValue, Recordable
          <5> QED
            BY <4>2, <5>1 DEF Rank
        <4> QED
          BY <3>4, <4>1, <4>2
      <3>10. e.fenced => r.fenced
        BY <1>3, <1>5 DEF Backs, Older
      <3> QED
        BY <3>1, <3>2, <3>8, <3>9, <3>10
    <2> QED
      BY <1>6, <1>8, <2>1, <2>2 DEF JournalOwn
  <1> QED
    BY <1>8, <1>9, <1>12, <1>13, <1>14 DEF Own

LEMMA SeeKeeps ==
    ASSUME IInv, NEW p \in Process, See(p)
    PROVE  IInv'
  <1> DEFINE a == call[p].seen
             r == Reconciled(a)
             lost == r # a /\ action # a
             life == IF lost THEN "changed" ELSE Verdict(a)
             next == Heading(call[p], life, r)
             d == Carried(call[p], next, life, r)
  <1>1. /\ TypeOK /\ pc[p] = "see" /\ UNCHANGED <<journal, intent, provider, calls, dispatched>>
        /\ action' = IF lost THEN action ELSE IF r # a THEN r ELSE action
        /\ IF next = "idle" THEN Finish(p) ELSE Continue(p, next, d)
    BY DEF See, IInv
  <1>2. call[p] \in Local /\ a \in ActionValue /\ agents \in {0, 1} /\ action \in ActionValue
    BY <1>1, ObservationTypes DEF Local, IInv, Core, RunInv, TypeOK
  <1>3. Settles(a, r) /\ Shows(Verdict(a), a, r)
    BY <1>1, <1>2, ReadbackFacts
  <1>4. action' = action \/ (action = a /\ action' = r)
    BY <1>1
  <1>5. Settles(action, action') /\ action' \in ActionValue
    BY <1>2, <1>3, <1>4, SettlesNothing DEF Settles
  <1>6. next = "idle" \/ (life = Verdict(a) /\ Older(r, action'))
    <2>1. CASE lost
      <3>1. life = "changed"
        BY <2>1
      <3> QED
        BY <1>2, <3>1, HeadingFacts
    <2>2. CASE ~lost
      <3>1. life = Verdict(a)
        BY <2>2
      <3>2. CASE r # a
        BY <1>1, <2>2, <3>1, <3>2 DEF Older
      <3>3. CASE r = a
        <4>1. action' = action
          BY <1>1, <3>3
        <4>2. Older(a, action)
          BY <1>1 DEF IInv, Own, JournalOwn
        <4> QED
          BY <3>1, <3>3, <4>1, <4>2
      <3> QED
        BY <3>2, <3>3
    <2> QED
      BY <2>1, <2>2
  <1> HIDE DEF lost, life
  <1>7. CASE next = "idle"
    <2>1. Finish(p)
      BY <1>1, <1>7
    <2>2. /\ pc' \in [Process -> Stages] /\ call' \in [Process -> Local]
          /\ Others(p) /\ Exits(p)
      BY <1>1, <2>1, Ends
    <2>3. Calm(p)
      BY <1>1, <1>5, <2>2, SameCalls DEF Calm
    <2>4. TypeOK'
      BY <1>1, <1>5, <2>2 DEF TypeOK, provider
    <2>5. Backs(journal, action, agent)'
      BY <1>1, <2>3, CalmBacks
    <2> QED
      BY <1>1, <2>2, <2>3, <2>4, <2>5, ExitKeeps DEF IntentKept
  <1>8. CASE next # "idle"
    <2>1. life = Verdict(a) /\ Older(r, action') /\ Continue(p, next, d)
      BY <1>1, <1>6, <1>8
    <2>2. next \in {"prepare", "note", "gate", "record"}
      BY <1>2, <1>8, HeadingFacts
    <2> HIDE DEF r, a
    <2>3. Others(p) /\ pc'[p] = next /\ call'[p] = d
      BY <1>1, <2>1, Moves DEF Arrives
    <2>4. Calm(p)
      BY <1>1, <1>5, <2>3, SameCalls DEF Calm
    <2>5. Core'
      BY <1>1, <2>4, CalmCore DEF IInv
    <2>6. Own(p)' /\ d \in Local
      BY <1>1, <1>3, <1>8, <2>1, <2>3, <2>4, <2>5, ObservedOwn DEF a
    <2> HIDE DEF next, d
    <2>7. next \in Stages
      BY <2>2 DEF Stages
    <2>8. TypeOK'
      BY <1>1, <1>5, <2>1, <2>6, <2>7, ArrivalTypes DEF TypeOK, provider
    <2>9. LabelCalls'
      BY <1>1, <2>2, <2>3, <2>4, QuietLabelCalls DEF Barred
    <2>10. Backs(journal, action, agent)'
      BY <1>1, <2>4, CalmBacks
    <2> QED
      BY <1>1, <2>2, <2>3, <2>4, <2>6, <2>8, <2>9, <2>10, CalmKeeps DEF IntentKept, Holding
  <1> QED
    BY <1>7, <1>8

LEMMA GateKeeps ==
    ASSUME IInv, NEW p \in Process, Gate(p)
    PROVE  IInv'
  <1> DEFINE c == call[p]
             a == c.seen
             r == Reconciled(a)
             d == [c EXCEPT !.life = "none"]
  <1>1. /\ TypeOK /\ pc[p] = "gate" /\ UNCHANGED <<journal, intent, provider, calls, dispatched>>
        /\ action' = IF action = a THEN r ELSE action
    BY DEF Gate, IInv
  <1>2. c \in Local /\ a \in ActionValue /\ agents \in {0, 1} /\ action \in ActionValue
    BY <1>1, ObservationTypes DEF Local, IInv, Core, RunInv, TypeOK
  <1>3. Settles(a, r) /\ Shows(Verdict(a), a, r)
    BY <1>1, <1>2, ReadbackFacts
  <1>4. Settles(action, action') /\ action' \in ActionValue
    BY <1>1, <1>2, <1>3, SettlesNothing DEF Settles
  <1>5. \/ Finish(p) \/ Readback(p)
        \/ /\ action = a /\ r = a /\ Verdict(a) = c.life /\ ~Refused(c.op, c.life, a)
           /\ ~Holds(c.op, c.life, a) /\ Continue(p, "claim", d)
    BY DEF Gate
  <1>6. CASE Finish(p) \/ Readback(p)
    <2>1. /\ pc' \in [Process -> Stages] /\ call' \in [Process -> Local]
          /\ Others(p) /\ Exits(p)
      BY <1>1, <1>4, <1>6, Ends, ReadsBack
    <2>2. Calm(p)
      BY <1>1, <1>4, <2>1, SameCalls DEF Calm
    <2>3. TypeOK'
      BY <1>1, <1>4, <2>1 DEF TypeOK, provider
    <2>4. Backs(journal, action, agent)'
      BY <1>1, <2>2, CalmBacks
    <2> QED
      BY <1>1, <2>1, <2>2, <2>3, <2>4, ExitKeeps DEF IntentKept
  <1>7. CASE /\ action = a /\ r = a /\ Verdict(a) = c.life /\ ~Refused(c.op, c.life, a)
             /\ ~Holds(c.op, c.life, a) /\ Continue(p, "claim", d)
    <2>1. d \in Local /\ d.entry = c.entry /\ d.op = c.op /\ d.seen = a
      BY <1>2 DEF Local, Recordable
    <2>2. "claim" \in Stages
      BY DEF Stages
    <2> HIDE DEF d, r
    <2>3. /\ pc' \in [Process -> Stages] /\ call' \in [Process -> Local]
          /\ Others(p) /\ pc'[p] = "claim" /\ call'[p] = d
      BY <1>1, <1>7, <2>1, <2>2, Moves, ArrivalTypes DEF Arrives
    <2>4. Calm(p)
      BY <1>1, <1>4, <2>3, SameCalls DEF Calm
    <2>5. TypeOK'
      BY <1>1, <1>4, <2>3 DEF TypeOK, provider
    <2>6. LabelCalls'
      BY <1>1, <2>3, <2>4, QuietLabelCalls DEF Barred
    <2>7. Backs(journal, action, agent)'
      BY <1>1, <2>4, CalmBacks
    <2>8. action' = action /\ agent' = agent
      BY <1>1, <1>7 DEF provider
    <2>9. Own(p)'
      <3>1. Own(p)
        BY DEF IInv
      <3>2. CreateOwn(p)' /\ ArchiveOwn(p)' /\ LabelOwn(p)'
        BY <2>3 DEF CreateOwn, ArchiveOwn, LabelOwn, Holding
      <3>3. RunOwn(p)'
        BY <1>1, <2>1, <2>3, <2>8, <3>1 DEF Own, RunOwn, Holding, Choosing, Commanding
      <3>4. SendOwn(p)'
        <4>1. c.op = "resume" => c.life = "parked"
          BY <1>1, <3>1 DEF Own, SendOwn
        <4>2. c.op = "park" => c.life \in BoundLife
          BY <1>1, <3>1 DEF Own, SendOwn
        <4>3. c.op = "park" => c.life = "running"
          BY <1>7, <4>2 DEF Refused, Holds, BoundLife
        <4>4. c.op = "park" => ~a.parked /\ ~a.resume
          BY <1>3, <1>7, <4>3 DEF Shows
        <4>5. c.op = "resume" => a.parked /\ ~a.output /\ ~a.resume
          BY <1>3, <1>7, <4>1 DEF Shows
        <4>6. c.op = "fence" => ~a.fenced
          BY <1>7 DEF Holds
        <4> QED
          BY <2>1, <2>3, <4>4, <4>5, <4>6 DEF SendOwn, Holding
      <3>5. JournalOwn(p)'
        BY <2>1, <2>3, <2>8, <3>1 DEF Own, JournalOwn
      <3> QED
        BY <3>2, <3>3, <3>4, <3>5 DEF Own
    <2> QED
      BY <1>1, <2>3, <2>4, <2>5, <2>6, <2>7, <2>9, CalmKeeps DEF IntentKept, Holding
  <1> QED
    BY <1>5, <1>6, <1>7

------------------------------------------------------------------------------
(* The intent of the Workspace.                                            *)

LEMMA ReserveKeeps ==
    ASSUME IInv, NEW p \in Process, Reserve(p)
    PROVE  IInv'
  <1>1. TypeOK /\ pc[p] = "reserve" /\ UNCHANGED <<journal, action, provider, calls, dispatched>>
    BY DEF Reserve, IInv
  <1>2. CASE intent # "recorded"
    <2>1. intent' = intent /\ Finish(p)
      BY <1>2 DEF Reserve
    <2>2. /\ pc' \in [Process -> Stages] /\ call' \in [Process -> Local]
          /\ Others(p) /\ Exits(p)
      BY <1>1, <2>1, Ends
    <2>3. Calm(p)
      BY <1>1, <2>2, Steady, SameCalls
    <2>4. TypeOK'
      BY <1>1, <2>1, <2>2, SteadyTypes DEF TypeOK
    <2>5. Backs(journal, action, agent)'
      BY <1>1, <2>3, CalmBacks
    <2> QED
      BY <1>1, <2>1, <2>2, <2>3, <2>4, <2>5, ExitKeeps DEF IntentKept
  <1>3. CASE intent = "recorded"
    <2> DEFINE c == [call[p] EXCEPT !.phase = "create_pending"]
    <2>1. intent' = "create_pending" /\ Continue(p, "create", c)
      BY <1>3 DEF Reserve
    <2>2. c \in Local /\ c.entry = call[p].entry /\ "create" \in Stages /\ intent' \in Phases
      BY <1>1, <2>1, ObservationTypes DEF Local, Phases, Stages
    <2> HIDE DEF c
    <2>3. /\ pc' \in [Process -> Stages] /\ call' \in [Process -> Local]
          /\ Others(p) /\ pc'[p] = "create" /\ call'[p] = c
      BY <1>1, <2>1, <2>2, Moves, ArrivalTypes DEF Arrives
    <2>4. Calm(p)
      BY <1>1, <2>3, Steady, SameCalls
    <2>5. TypeOK'
      BY <1>1, <2>2, <2>3, SteadyTypes DEF TypeOK
    <2>6. LabelCalls'
      BY <1>1, <2>3, <2>4, QuietLabelCalls DEF Barred
    <2>7. Backs(journal, action, agent)'
      BY <1>1, <2>4, CalmBacks
    <2>8. /\ workspaces' = workspaces /\ dispatched' = dispatched /\ calls' = calls
          /\ dispatched["create"] = 0
      BY <1>1, <1>3 DEF provider, IInv, CreateInv
    <2>9. CreateInv'
      BY <1>1, <1>3, <2>1, <2>8 DEF IInv, CreateInv, Flight, AloneInFlight
    <2>10. \A q \in Process : pc[q] # "create"
      BY <1>3 DEF IInv, Own, CreateOwn
    <2>11. \A q \in Process \ {p} : CreateOwn(q)'
      BY <2>3, <2>8, <2>10 DEF IInv, Own, CreateOwn, Others
    <2>12. AloneCreating'
      BY <2>3, <2>10 DEF AloneCreating, Others
    <2>13. Own(p)'
      <3>1. CreateOwn(p)'
        BY <2>1, <2>3, <2>8 DEF CreateOwn
      <3>2. RunOwn(p)' /\ SendOwn(p)' /\ ArchiveOwn(p)' /\ LabelOwn(p)'
        BY <2>3 DEF RunOwn, SendOwn, ArchiveOwn, LabelOwn, Holding, Choosing, Commanding
      <3>3. JournalOwn(p)'
        BY <1>1, <2>2, <2>3 DEF IInv, Own, JournalOwn, provider
      <3> QED
        BY <3>1, <3>2, <3>3 DEF Own
    <2> QED
      BY <2>3, <2>4, <2>5, <2>6, <2>7, <2>9, <2>11, <2>12, <2>13, CalmStep DEF Holding
  <1> QED
    BY <1>2, <1>3

LEMMA CreateNotDispatchedKeeps ==
    ASSUME IInv, NEW p \in Process, CreateNotDispatched(p)
    PROVE  IInv'
  <1>1. /\ TypeOK /\ pc[p] = "create" /\ Finish(p)
        /\ UNCHANGED <<journal, action, provider, calls, dispatched>>
    BY DEF CreateNotDispatched, IInv
  <1>2. intent = "create_pending" /\ dispatched["create"] = 0
    BY <1>1 DEF IInv, Own, CreateOwn
  <1>3. intent' = "recorded"
    BY <1>2 DEF CreateNotDispatched
  <1>4. /\ pc' \in [Process -> Stages] /\ call' \in [Process -> Local]
        /\ Others(p) /\ Exits(p) /\ pc'[p] = "idle"
    BY <1>1, Ends
  <1>5. Calm(p)
    BY <1>1, <1>4, Steady, SameCalls
  <1>6. TypeOK'
    BY <1>1, <1>3, <1>4, SteadyTypes DEF TypeOK, Phases
  <1>7. LabelCalls'
    BY <1>1, <1>4, <1>5, QuietLabelCalls DEF Barred
  <1>8. Backs(journal, action, agent)'
    BY <1>1, <1>5, CalmBacks
  <1>9. workspaces' = workspaces
    BY <1>1 DEF provider
  <1>10. CreateInv'
    BY <1>1, <1>2, <1>3, <1>9 DEF IInv, CreateInv, Flight, AloneInFlight
  <1>11. \A q \in Process \ {p} : pc'[q] # "create"
    BY <1>1, <1>4 DEF IInv, Claims, AloneCreating, Others
  <1>12. \A q \in Process \ {p} : CreateOwn(q)'
    BY <1>4, <1>9, <1>11 DEF IInv, Own, CreateOwn, Others
  <1>13. AloneCreating'
    BY <1>4, <1>11 DEF AloneCreating
  <1>14. Own(p)'
    BY <1>4, <1>5, CalmOlder, ExitOwn
  <1> QED
    BY <1>4, <1>5, <1>6, <1>7, <1>8, <1>10, <1>12, <1>13, <1>14, CalmStep DEF Holding

------------------------------------------------------------------------------
(* Dispatching an effect.                                                  *)

LEMMA Dispatches ==
    ASSUME TypeOK, NEW p \in Process, NEW kind \in Effects, Dispatch(p, kind)
    PROVE  /\ calls' \subseteq CallValue
           /\ \A c \in calls' :
                 c \in calls \/ (c.kind = kind /\ c.by = p /\ c.caller = "waits")
           /\ \A k \in Effects \ {kind} : Flight(k)' => Flight(k)
           /\ kind # "label" => (FenceFlight' => FenceFlight)
           /\ \A k \in Effects \ {kind} : AloneInFlight(k) => AloneInFlight(k)'
           /\ ~Flight(kind) => AloneInFlight(kind)'
           /\ dispatched' \in [Materializing -> Nat]
           /\ dispatched'["create"] = dispatched["create"] + (IF kind = "create" THEN 1 ELSE 0)
           /\ dispatched'["run"] = dispatched["run"] + (IF kind = "run" THEN 1 ELSE 0)
  <1> DEFINE new == [kind |-> kind, by |-> p, caller |-> "waits"]
  <1>1. new \in CallValue /\ new.kind = kind /\ new.by = p /\ new.caller = "waits"
    BY DEF CallValue
  <1>2. calls' = calls \cup {new}
    BY DEF Dispatch
  <1> HIDE DEF new
  <1>3. calls' \subseteq CallValue
    BY <1>1, <1>2 DEF TypeOK
  <1>4. \A c \in calls' :
           c \in calls \/ (c.kind = kind /\ c.by = p /\ c.caller = "waits")
    BY <1>1, <1>2
  <1>0. kind # "label" => (FenceFlight' => FenceFlight)
    BY <1>4 DEF FenceFlight, Fence
  <1>5. \A k \in Effects \ {kind} : Flight(k)' => Flight(k)
    BY <1>4 DEF Flight
  <1>6. \A k \in Effects \ {kind} : AloneInFlight(k) => AloneInFlight(k)'
    BY <1>4 DEF AloneInFlight
  <1>7. ~Flight(kind) => AloneInFlight(kind)'
    BY <1>1, <1>2 DEF Flight, AloneInFlight
  <1>8. dispatched' = [e \in Materializing |-> dispatched[e] + (IF e = kind THEN 1 ELSE 0)]
    BY DEF Dispatch
  <1>9. "create" \in Materializing /\ "run" \in Materializing
    BY DEF Materializing
  <1>10. \A e \in Materializing : dispatched[e] + (IF e = kind THEN 1 ELSE 0) \in Nat
    BY DEF TypeOK
  <1>11. dispatched' \in [Materializing -> Nat]
    BY <1>8, <1>10
  <1>12. /\ dispatched'["create"] = dispatched["create"] + (IF kind = "create" THEN 1 ELSE 0)
         /\ dispatched'["run"] = dispatched["run"] + (IF kind = "run" THEN 1 ELSE 0)
    BY <1>8, <1>9
  <1> QED
    BY <1>0, <1>3, <1>4, <1>5, <1>6, <1>7, <1>11, <1>12

\* What a process that dispatches an effect of the Agent has on record.
Licensed(p, kind) ==
    /\ kind = "run" => action.start /\ dispatched["run"] = 0
    /\ kind \notin {"create", "run"} => action.bound
    /\ kind = "send" => Still /\ ~Flight("send")
    /\ kind = "archive" /\ ~agent.archived => action.retire /\ ~Flight("archive")
    /\ ~agent.label /\ kind = "label" => Fencing(p) /\ ~FenceFlight

LEMMA DispatchCore ==
    ASSUME IInv, NEW p \in Process, NEW kind \in Effects, Dispatch(p, kind),
           UNCHANGED <<action, provider>>, Licensed(p, kind)
    PROVE  Core'
  <1>0. TypeOK /\ agents' = agents /\ agent' = agent /\ Core
    BY DEF IInv, provider
  <1>1. \A k \in Effects \ {kind} :
           (Flight(k)' => Flight(k)) /\ (AloneInFlight(k) => AloneInFlight(k)')
    BY <1>0, Dispatches
  <1>2. ~Flight(kind) => AloneInFlight(kind)'
    BY <1>0, Dispatches
  <1>3. dispatched'["run"] = dispatched["run"] + (IF kind = "run" THEN 1 ELSE 0)
    BY <1>0, Dispatches
  <1>4. RunInv'
    <2>1. CASE kind = "run"
      <3>1. ~Flight("run") /\ agents = 0
        BY <1>0, <2>1 DEF Licensed, Core, RunInv
      <3> QED
        BY <1>0, <1>2, <1>3, <2>1, <3>1 DEF Licensed, Core, RunInv
    <2>2. CASE kind # "run"
      <3>1. (Flight("run")' => Flight("run")) /\ AloneInFlight("run")'
        BY <1>0, <1>1, <2>2 DEF Effects, Core, RunInv
      <3>2. dispatched'["run"] = dispatched["run"]
        BY <1>0, <1>3, <2>2 DEF Core, RunInv
      <3> QED
        BY <1>0, <3>1, <3>2 DEF Core, RunInv
    <2> QED
      BY <2>1, <2>2
  <1>5. BoundInv'
    <2>1. \A c \in calls' : c \in calls \/ c.kind = kind
      BY <1>0, Dispatches
    <2>2. \A c \in calls' : c.kind \in {"send", "stop", "label", "archive"} => action.bound
      BY <1>0, <2>1 DEF Licensed, Core, BoundInv
    <2> QED
      BY <1>0, <2>2 DEF Core, BoundInv
  <1>6. SendInv'
    <2>1. CASE kind = "send"
      BY <1>0, <1>2, <2>1 DEF Licensed, Core, SendInv, Still
    <2>2. CASE kind # "send"
      <3>1. (Flight("send")' => Flight("send")) /\ AloneInFlight("send")'
        BY <1>0, <1>1, <2>2 DEF Effects, Core, SendInv
      <3> QED
        BY <1>0, <3>1 DEF Core, SendInv, Still
    <2> QED
      BY <2>1, <2>2
  <1>7. ArchiveInv'
    <2>1. CASE kind = "archive"
      BY <1>0, <1>2, <2>1 DEF Licensed, ArchiveInv
    <2>2. CASE kind # "archive"
      <3>1. (Flight("archive")' => Flight("archive"))
            /\ (AloneInFlight("archive") => AloneInFlight("archive")')
        BY <1>1, <2>2 DEF Effects
      <3> QED
        BY <1>0, <3>1 DEF Core, ArchiveInv
    <2> QED
      BY <2>1, <2>2
  <1> QED
    BY <1>4, <1>5, <1>6, <1>7 DEF Core

\* The others know what they knew: none of them holds the same claim.
LEMMA DispatchOwn ==
    ASSUME IInv, NEW p \in Process, NEW kind \in Effects, Dispatch(p, kind),
           UNCHANGED <<action, provider>>, Licensed(p, kind),
           NEW q \in Process \ {p}, pc'[q] = pc[q], call'[q] = call[q], CreateOwn(q)',
           kind = "run" => ~Holding(q, "progress"),
           kind = "send" => ~Holding(q, "resume"),
           kind = "archive" /\ ~agent.archived => ~Holding(q, "retire")
    PROVE  Own(q)'
  <1>0. TypeOK /\ agents' = agents /\ agent' = agent /\ Own(q)
    BY DEF IInv, provider
  <1>1. \A k \in Effects \ {kind} : Flight(k)' => Flight(k)
    BY <1>0, Dispatches
  <1>2. dispatched'["run"] = dispatched["run"] + (IF kind = "run" THEN 1 ELSE 0)
    BY <1>0, Dispatches
  <1>3. RunOwn(q)'
    BY <1>0, <1>2 DEF Own, RunOwn, Holding, Choosing, Commanding
  <1>4. SendOwn(q)'
    <2>1. kind # "send" => (Flight("send")' => Flight("send"))
      BY <1>1 DEF Effects
    <2> QED
      BY <1>0, <2>1 DEF Own, SendOwn, Holding, Still
  <1>5. ArchiveOwn(q)'
    <2>1. kind # "archive" => (Flight("archive")' => Flight("archive"))
      BY <1>1 DEF Effects
    <2> QED
      BY <1>0, <2>1 DEF Own, ArchiveOwn, Holding
  <1>6. LabelOwn(q)'
    <2>1. kind # "label" => (FenceFlight' => FenceFlight)
      BY <1>0, Dispatches
    <2>2. ~agent.label /\ kind = "label" => action.fence # q
      BY DEF Licensed, Fencing
    <2> QED
      BY <1>0, <2>1, <2>2 DEF Own, LabelOwn, Holding, Fencing
  <1>7. JournalOwn(q)'
    <2>1. Older(action, action')
      BY DEF Older
    <2> QED
      BY <1>0, <2>1, JournalOwnOn DEF Own
  <1> QED
    BY <1>3, <1>4, <1>5, <1>6, <1>7 DEF Own

LEMMA DispatchLabelCalls ==
    ASSUME IInv, NEW p \in Process, NEW kind \in Effects, Dispatch(p, kind),
           UNCHANGED <<action, provider>>, Licensed(p, kind), Others(p),
           pc[p] # "wait", Barred(p)' => kind = "label",
           kind = "label" => pc'[p] = "wait" /\ call'[p].op = "fence"
    PROVE  LabelCalls'
  <1> SUFFICES ASSUME ~agent'.label, NEW c \in calls', Fence(c)
               PROVE  LabelCall(c)'
    BY DEF LabelCalls, Fence
  <1>0. TypeOK /\ agent' = agent
    BY DEF IInv, provider
  <1>1. c \in calls \/ (kind = "label" /\ c.by = p /\ c.caller = "waits")
    BY <1>0, Dispatches DEF Fence
  <1>2. CASE c \in calls
    <2>1. kind # "label"
      BY <1>0, <1>2 DEF Licensed, FenceFlight
    <2>2. LabelCall(c) /\ c.by \in Process
      BY <1>0, <1>2, CallTypes DEF IInv, LabelCalls
    <2>3. Fencing(c.by)'
      BY <1>0, <2>2 DEF LabelCall, Fencing
    <2>4. CASE c.by = p
      BY <2>1, <2>2, <2>3, <2>4 DEF LabelCall, Barred
    <2>5. CASE c.by # p
      BY <2>2, <2>3, <2>5 DEF LabelCall, Others
    <2> QED
      BY <2>4, <2>5
  <1>3. CASE kind = "label" /\ c.by = p /\ c.caller = "waits"
    BY <1>0, <1>3 DEF Licensed, Fencing, LabelCall
  <1> QED
    BY <1>1, <1>2, <1>3

LEMMA CreateKeeps ==
    ASSUME IInv, NEW p \in Process, Create(p)
    PROVE  IInv'
  <1>1. /\ TypeOK /\ pc[p] = "create" /\ Dispatch(p, "create")
        /\ UNCHANGED <<journal, intent, action, provider>>
        /\ Continue(p, "creating", call[p])
    BY DEF Create, IInv, durable
  <1>2. "create" \in Effects /\ "creating" \in Stages /\ call[p] \in Local
    BY <1>1, ObservationTypes DEF Effects, Stages
  <1>3. /\ pc' \in [Process -> Stages] /\ call' \in [Process -> Local]
        /\ Others(p) /\ pc'[p] = "creating" /\ call'[p] = call[p]
    BY <1>1, <1>2, Moves, ArrivalTypes DEF Arrives
  <1>4. Licensed(p, "create") /\ workspaces' = workspaces
    BY <1>1 DEF Licensed, provider
  <1>5. Core'
    BY <1>1, <1>2, <1>4, DispatchCore
  <1>6. intent = "create_pending" /\ dispatched["create"] = 0 /\ CreateInv
    BY <1>1 DEF IInv, Own, CreateOwn
  <1>7. dispatched'["create"] = 1
    BY <1>1, <1>2, <1>6, Dispatches
  <1>8. CreateInv'
    <2>1. ~Flight("create") /\ workspaces = 0 /\ ~action.present
      BY <1>6 DEF CreateInv
    <2>2. AloneInFlight("create")'
      BY <1>1, <1>2, <2>1, Dispatches
    <2> QED
      BY <1>1, <1>4, <1>6, <1>7, <2>1, <2>2 DEF CreateInv
  <1>9. \A q \in Process \ {p} : pc'[q] # "create"
    BY <1>1, <1>3 DEF IInv, Claims, AloneCreating, Others
  <1>10. \A q \in Process \ {p} : CreateOwn(q)'
    BY <1>3, <1>4, <1>9 DEF IInv, Own, CreateOwn, Others
  <1>11. \A q \in Process \ {p} : Own(q)'
    BY <1>1, <1>2, <1>3, <1>4, <1>10, DispatchOwn DEF Others
  <1>12. Own(p)'
    <2>1. CreateOwn(p)' /\ RunOwn(p)' /\ SendOwn(p)' /\ ArchiveOwn(p)' /\ LabelOwn(p)'
      BY <1>3 DEF CreateOwn, RunOwn, SendOwn, ArchiveOwn, LabelOwn, Holding, Choosing, Commanding
    <2>2. JournalOwn(p)'
      BY <1>1, <1>3 DEF IInv, Own, JournalOwn, provider
    <2> QED
      BY <2>1, <2>2 DEF Own
  <1>13. TypeOK'
    BY <1>1, <1>2, <1>3, Dispatches DEF TypeOK, provider
  <1>14. LabelCalls'
    BY <1>1, <1>2, <1>3, <1>4, DispatchLabelCalls DEF Barred
  <1>15. Claims'
    <2>1. AloneCreating'
      BY <1>3, <1>9 DEF AloneCreating
    <2>2. \A q \in Process, op \in Ops : Holding(q, op)' => Holding(q, op)
      BY <1>3 DEF Others, Holding
    <2>3. agent' = agent
      BY <1>1 DEF provider
    <2> QED
      BY <2>1, <2>2, <2>3, ClaimsStay
  <1>16. Backs(journal, action, agent)'
    BY <1>1 DEF IInv, provider
  <1>17. \A q \in Process : Own(q)'
    BY <1>11, <1>12
  <1> QED
    BY <1>5, <1>8, <1>13, <1>14, <1>15, <1>16, <1>17 DEF IInv

LEMMA IssueKeeps ==
    ASSUME IInv, NEW p \in Process, Issue(p)
    PROVE  IInv'
  <1> DEFINE kind == EffectOf(call[p].op)
             d == [call[p] EXCEPT !.seen = Absent]
  <1>1. /\ TypeOK /\ pc[p] = "dispatch" /\ Dispatch(p, kind)
        /\ UNCHANGED <<journal, intent, action, provider>>
        /\ Continue(p, "wait", d)
    BY DEF Issue, IInv, durable
  <1>2. call[p] \in Local /\ call[p].op \in Ops
    BY <1>1, ObservationTypes DEF Local
  <1>3. /\ kind \in Effects \ {"create"}
        /\ kind = "run" => call[p].op = "progress"
        /\ kind # "run" => call[p].op # "progress"
        /\ kind = "send" => call[p].op = "resume"
        /\ kind = "label" <=> call[p].op = "fence"
        /\ kind = "archive" => call[p].op = "retire"
    BY <1>2 DEF EffectOf, Ops, Effects
  <1>4. d \in Local /\ d.op = call[p].op /\ d.entry = call[p].entry /\ "wait" \in Stages
    BY <1>2, IdleTypes DEF Local, Stages
  <1> HIDE DEF kind, d
  <1>5. /\ pc' \in [Process -> Stages] /\ call' \in [Process -> Local]
        /\ Others(p) /\ pc'[p] = "wait" /\ call'[p] = d
    BY <1>1, <1>4, Moves, ArrivalTypes DEF Arrives
  <1>6. Own(p) /\ Claims /\ CreateInv
    BY DEF IInv
  <1>7. Holding(p, call[p].op) /\ Commanding(p)
    BY <1>1 DEF Holding, Commanding
  <1>8. Licensed(p, kind)
    <2>1. kind = "run" => action.start /\ dispatched["run"] = 0
      BY <1>3, <1>6, <1>7 DEF Own, RunOwn
    <2>2. kind \notin {"create", "run"} => action.bound
      BY <1>3, <1>6, <1>7 DEF Own, RunOwn
    <2>3. kind = "send" => Still /\ ~Flight("send")
      BY <1>3, <1>6, <1>7 DEF Own, SendOwn
    <2>4. kind = "archive" /\ ~agent.archived => action.retire /\ ~Flight("archive")
      BY <1>3, <1>6, <1>7 DEF Own, ArchiveOwn
    <2>5. ~agent.label /\ kind = "label" => Fencing(p) /\ ~FenceFlight
      BY <1>3, <1>6, <1>7 DEF Own, LabelOwn
    <2> QED
      BY <2>1, <2>2, <2>3, <2>4, <2>5 DEF Licensed
  <1>9. Core'
    BY <1>1, <1>3, <1>8, DispatchCore
  <1>10. /\ dispatched'["create"] = dispatched["create"] /\ workspaces' = workspaces
         /\ Flight("create")' => Flight("create")
         /\ AloneInFlight("create")'
    <2>1. "create" \in Effects \ {kind} /\ kind \in Effects
      BY <1>3 DEF Effects
    <2>2. AloneInFlight("create") /\ dispatched["create"] \in {0, 1}
      BY <1>6 DEF CreateInv
    <2> QED
      BY <1>1, <1>3, <2>1, <2>2, Dispatches DEF provider
  <1>11. CreateInv'
    BY <1>1, <1>6, <1>10 DEF CreateInv
  <1>12. \A q \in Process \ {p} : CreateOwn(q)'
    BY <1>1, <1>5, <1>10 DEF IInv, Own, CreateOwn, Others
  <1>13. ASSUME NEW q \in Process \ {p} PROVE Own(q)'
    <2>1. kind = "run" => ~Holding(q, "progress")
      BY <1>3, <1>6, <1>7 DEF Claims, AloneHolding
    <2>2. kind = "send" => ~Holding(q, "resume")
      BY <1>3, <1>6, <1>7 DEF Claims, AloneHolding
    <2>3. kind = "archive" /\ ~agent.archived => ~Holding(q, "retire")
      BY <1>3, <1>6, <1>7 DEF Claims, AloneHolding
    <2>4. pc'[q] = pc[q] /\ call'[q] = call[q] /\ CreateOwn(q)'
      BY <1>5, <1>12 DEF Others
    <2> QED
      BY <1>1, <1>3, <1>8, <2>1, <2>2, <2>3, <2>4, DispatchOwn
  <1>14. Own(p)'
    <2>1. CreateOwn(p)' /\ SendOwn(p)' /\ ArchiveOwn(p)'
      BY <1>5 DEF CreateOwn, SendOwn, ArchiveOwn, Holding
    <2>2. RunOwn(p)'
      BY <1>1, <1>4, <1>5, <1>6, <1>7 DEF Own, RunOwn, Holding, Choosing, Commanding
    <2>3. LabelOwn(p)'
      BY <1>1, <1>4, <1>5, <1>6, <1>7 DEF Own, LabelOwn, Holding, Fencing, provider
    <2>4. JournalOwn(p)'
      BY <1>1, <1>4, <1>5, <1>6 DEF Own, JournalOwn, provider
    <2> QED
      BY <2>1, <2>2, <2>3, <2>4 DEF Own
  <1>15. TypeOK'
    BY <1>1, <1>3, <1>5, Dispatches DEF TypeOK, provider
  <1>16. LabelCalls'
    BY <1>1, <1>3, <1>4, <1>5, <1>8, DispatchLabelCalls DEF Barred
  <1>17. Claims'
    <2>1. AloneCreating'
      BY <1>5, <1>6 DEF Claims, AloneCreating, Others
    <2>2. \A q \in Process, op \in Ops : Holding(q, op)' => Holding(q, op)
      BY <1>5 DEF Others, Holding
    <2>3. agent' = agent
      BY <1>1 DEF provider
    <2> QED
      BY <2>1, <2>2, <2>3, ClaimsStay
  <1>18. Backs(journal, action, agent)'
    BY <1>1 DEF IInv, provider
  <1>19. \A q \in Process : Own(q)'
    BY <1>13, <1>14
  <1> QED
    BY <1>9, <1>11, <1>15, <1>16, <1>17, <1>18, <1>19 DEF IInv

------------------------------------------------------------------------------
(* Writing the record: the Workspace exists.                               *)

\* A step of p that writes the record and leaves the daemon alone.
Amends(p) ==
    /\ UNCHANGED <<journal, provider, calls, dispatched>>
    /\ Others(p)
    /\ action' \in ActionValue
    /\ Older(action, action')

LEMMA AmendTypes ==
    ASSUME TypeOK, NEW p, Amends(p), intent' \in Phases,
           pc' \in [Process -> Stages], call' \in [Process -> Local]
    PROVE  TypeOK'
  BY DEF TypeOK, Amends, provider

LEMMA AmendSame ==
    ASSUME NEW p, Amends(p)
    PROVE  /\ agent' = agent /\ agents' = agents /\ workspaces' = workspaces
           /\ calls' = calls /\ dispatched' = dispatched /\ journal' = journal
           /\ \A k : (Flight(k)' <=> Flight(k)) /\ (AloneInFlight(k)' <=> AloneInFlight(k))
           /\ FenceFlight' <=> FenceFlight
  <1>1. /\ agent' = agent /\ agents' = agents /\ workspaces' = workspaces
        /\ calls' = calls /\ dispatched' = dispatched /\ journal' = journal
    BY DEF Amends, provider
  <1> QED
    BY <1>1 DEF Flight, FenceFlight, AloneInFlight

LEMMA AmendBacks ==
    ASSUME IInv, NEW p, Amends(p)
    PROVE  Backs(journal, action, agent)'
  BY AmendSame, BacksOn DEF IInv, Amends

LEMMA AmendCreate ==
    ASSUME IInv, NEW p \in Process, Amends(p), intent' = intent,
           action'.present = action.present
    PROVE  CreateInv' /\ \A q \in Process \ {p} : CreateOwn(q)'
  <1>1. CreateInv'
    BY AmendSame DEF IInv, CreateInv
  <1>2. ASSUME NEW q \in Process \ {p} PROVE CreateOwn(q)'
    BY AmendSame DEF IInv, Own, CreateOwn, Amends, Others
  <1> QED
    BY <1>1, <1>2

LEMMA AmendJournalOwn ==
    ASSUME IInv, NEW p \in Process, Amends(p), NEW q \in Process \ {p}
    PROVE  JournalOwn(q)'
  <1>1. pc'[q] = pc[q] /\ call'[q] = call[q] /\ JournalOwn(q)
    BY DEF Amends, Others, IInv, Own
  <1> QED
    BY <1>1, AmendSame, JournalOwnOn DEF Amends

\* Label calls under way, of the others and of p, when their fence stands.
LEMMA AmendLabelCalls ==
    ASSUME IInv, NEW p \in Process, Amends(p),
           ~agent.label /\ FenceFlight =>
              action'.fence = action.fence /\ action'.quiesced = action.quiesced,
           pc[p] # "wait", ~agent.label /\ Barred(p)' => Barred(p) \/ ~FenceFlight
    PROVE  LabelCalls'
  <1> SUFFICES ASSUME ~agent'.label, NEW c \in calls', Fence(c)
               PROVE  LabelCall(c)'
    BY DEF LabelCalls, Fence
  <1>1. c \in calls /\ agent' = agent /\ FenceFlight
    BY AmendSame DEF FenceFlight
  <1>2. LabelCall(c) /\ c.by \in Process
    BY <1>1, CallTypes DEF IInv, LabelCalls
  <1>3. Fencing(c.by)'
    BY <1>1, <1>2 DEF LabelCall, Fencing
  <1>4. CASE c.by = p
    BY <1>1, <1>2, <1>3, <1>4 DEF LabelCall, Barred
  <1>5. CASE c.by # p
    BY <1>2, <1>3, <1>5 DEF LabelCall, Amends, Others
  <1> QED
    BY <1>4, <1>5

LEMMA CommitKeeps ==
    ASSUME IInv, NEW p \in Process, Commit(p)
    PROVE  IInv'
  <1>1. TypeOK /\ pc[p] = "commit" /\ UNCHANGED <<journal, provider, calls, dispatched>>
    BY DEF Commit, IInv
  <1>2. CASE /\ action' = action
             /\ \/ action.present /\ intent' = "none" /\ Receipt(p)
                \/ intent' = intent /\ Finish(p)
    <2>1. intent' = intent /\ action' \in ActionValue
      BY <1>1, <1>2 DEF IInv, CreateInv, TypeOK
    <2>2. /\ pc' \in [Process -> Stages] /\ call' \in [Process -> Local]
          /\ Others(p) /\ Exits(p)
      BY <1>1, <1>2, <2>1, ReceiptExits, Ends
    <2>3. Calm(p)
      BY <1>1, <1>2, <2>2, Steady, SameCalls
    <2>4. TypeOK'
      BY <1>1, <1>2, <2>1, <2>2, SteadyTypes DEF TypeOK
    <2>5. Backs(journal, action, agent)'
      BY <1>1, <2>3, CalmBacks
    <2> QED
      BY <1>1, <2>1, <2>2, <2>3, <2>4, <2>5, ExitKeeps DEF IntentKept
  <1>3. CASE /\ ~action.present /\ intent' = "none" /\ Receipt(p)
             /\ action' = [action EXCEPT !.present = TRUE]
    <2>1. action \in ActionValue
      BY <1>1 DEF TypeOK
    <2>2. /\ action' \in ActionValue /\ action'.present
          /\ action'.start = action.start /\ action'.bound = action.bound
          /\ action'.resume = action.resume /\ action'.park = action.park
          /\ action'.parked = action.parked /\ action'.fence = action.fence
          /\ action'.quiesced = action.quiesced /\ action'.fenced = action.fenced
          /\ action'.retire = action.retire /\ action'.output = action.output
      BY <1>3, <2>1 DEF ActionValue
    <2>3. /\ pc' \in [Process -> Stages] /\ call' \in [Process -> Local]
          /\ Others(p) /\ Exits(p)
      BY <1>1, <1>3, <2>2, ReceiptExits
    <2>4. Amends(p)
      BY <1>1, <2>2, <2>3 DEF Amends, Older
    <2>5. TypeOK'
      BY <1>1, <1>3, <2>3, <2>4, AmendTypes DEF Phases
    <2>6. workspaces = 1 /\ dispatched["create"] = 1
      BY <1>1 DEF IInv, Own, CreateOwn, CreateInv
    <2>7. CreateInv'
      BY <1>3, <2>2, <2>4, <2>6, AmendSame DEF IInv, CreateInv
    <2>8. \A q \in Process : pc'[q] # "create"
      BY <2>3, <2>6 DEF IInv, Own, CreateOwn, Others, Exits
    <2>9. Core'
      <3>1. RunInv' /\ BoundInv'
        BY <2>2, <2>4, AmendSame DEF IInv, Core, RunInv, BoundInv
      <3>2. SendInv' /\ ArchiveInv'
        BY <2>2, <2>4, AmendSame DEF IInv, Core, SendInv, ArchiveInv, Still
      <3> QED
        BY <3>1, <3>2 DEF Core
    <2>10. LabelCalls'
      BY <1>1, <2>2, <2>3, <2>4, AmendLabelCalls DEF Exits, Barred
    <2>11. ASSUME NEW q \in Process \ {p} PROVE Own(q)'
      <3>1. pc'[q] = pc[q] /\ call'[q] = call[q] /\ Own(q)
        BY <2>3 DEF Others, IInv
      <3>2. CreateOwn(q)'
        BY <2>4, <2>6, <2>8, AmendSame DEF CreateOwn
      <3>3. RunOwn(q)' /\ SendOwn(q)'
        BY <2>2, <2>4, <3>1, AmendSame DEF Own, RunOwn, SendOwn, Holding, Choosing,
                                           Commanding, Still
      <3>4. ArchiveOwn(q)' /\ LabelOwn(q)'
        BY <2>2, <2>4, <3>1, AmendSame DEF Own, ArchiveOwn, LabelOwn, Holding, Fencing
      <3> QED
        BY <2>4, <3>2, <3>3, <3>4, AmendJournalOwn DEF Own
    <2>12. Own(p)'
      BY <2>3, <2>4, AmendSame, ExitOwn DEF Amends
    <2>13. Claims'
      <3>1. AloneCreating'
        BY <2>8 DEF AloneCreating
      <3>2. \A q \in Process, op \in Ops : Holding(q, op)' => Holding(q, op)
        BY <2>3 DEF Others, Holding, Exits
      <3> QED
        BY <2>4, <3>1, <3>2, AmendSame, ClaimsStay
    <2>14. Backs(journal, action, agent)'
      BY <2>4, AmendBacks
    <2>15. \A q \in Process : Own(q)'
      BY <2>11, <2>12
    <2> QED
      BY <2>5, <2>7, <2>9, <2>10, <2>13, <2>14, <2>15 DEF IInv
  <1> QED
    BY <1>2, <1>3 DEF Commit

\* The end of each step that changes claims.
LEMMA AmendStep ==
    ASSUME IInv, NEW p \in Process, Amends(p), intent' = intent,
           action'.present = action.present, pc'[p] # "create", TypeOK',
           Core', LabelCalls', Own(p)',
           \A q \in Process \ {p} : /\ RunOwn(q)' /\ SendOwn(q)'
                                    /\ ArchiveOwn(q)' /\ LabelOwn(q)',
           \/ \A op \in Ops : Holding(p, op)' => Holding(p, op)
           \/ Claims'
    PROVE  IInv'
  <1>1. CreateInv' /\ \A q \in Process \ {p} : CreateOwn(q)'
    BY AmendCreate
  <1>2. \A q \in Process : Own(q)'
    BY <1>1, AmendJournalOwn DEF Own
  <1>3. Claims'
    <2>1. ASSUME \A op \in Ops : Holding(p, op)' => Holding(p, op)
          PROVE  Claims'
      <3>1. \A q \in Process, op \in Ops : Holding(q, op)' => Holding(q, op)
        BY <2>1 DEF Amends, Others, Holding
      <3>2. AloneCreating'
        BY DEF IInv, Claims, AloneCreating, Amends, Others
      <3> QED
        BY <3>1, <3>2, AmendSame, ClaimsStay
    <2> QED
      BY <2>1
  <1> QED
    BY <1>1, <1>2, <1>3, AmendBacks DEF IInv

------------------------------------------------------------------------------
(* Writing the record: claims, their undoing and their quiescence.         *)

\* A call that ends or looks again and changes nothing.
LEMMA QuietExit ==
    ASSUME IInv, NEW p \in Process, Finish(p) \/ Readback(p), pc[p] # "wait",
           UNCHANGED <<journal, intent, action, provider, calls, dispatched>>
    PROVE  IInv'
  <1>1. TypeOK /\ action' \in ActionValue
    BY DEF IInv, TypeOK
  <1>2. /\ pc' \in [Process -> Stages] /\ call' \in [Process -> Local]
        /\ Others(p) /\ Exits(p)
    BY <1>1, Ends, ReadsBack
  <1>3. Calm(p)
    BY <1>1, <1>2, Steady, SameCalls
  <1>4. TypeOK'
    BY <1>1, <1>2, SteadyTypes DEF TypeOK
  <1>5. Backs(journal, action, agent)'
    BY <1>3, CalmBacks
  <1> QED
    BY <1>2, <1>3, <1>4, <1>5, ExitKeeps DEF IntentKept

LEMMA QuiesceKeeps ==
    ASSUME IInv, NEW p \in Process, Quiesce(p)
    PROVE  IInv'
  <1>1. /\ TypeOK /\ pc[p] = "quiesce" /\ (Finish(p) \/ Readback(p))
        /\ UNCHANGED <<journal, intent, provider, calls, dispatched>>
    BY DEF Quiesce, IInv
  <1>2. CASE action' = action
    BY <1>1, <1>2, QuietExit
  <1>3. CASE action' # action
    <2>1. /\ action.fence = p /\ ~action.fenced
          /\ action' = [action EXCEPT !.quiesced = TRUE]
      BY <1>3 DEF Quiesce
    <2>2. action \in ActionValue
      BY <1>1 DEF TypeOK
    <2>3. /\ action' \in ActionValue /\ action'.quiesced
          /\ action'.present = action.present
          /\ action'.start = action.start /\ action'.bound = action.bound
          /\ action'.resume = action.resume /\ action'.park = action.park
          /\ action'.parked = action.parked /\ action'.fence = action.fence
          /\ action'.fenced = action.fenced
          /\ action'.retire = action.retire /\ action'.output = action.output
      BY <2>1, <2>2 DEF ActionValue
    <2>4. /\ pc' \in [Process -> Stages] /\ call' \in [Process -> Local]
          /\ Others(p) /\ Exits(p)
      BY <1>1, <2>3, ReadsBack, Ends
    <2>5. Amends(p)
      BY <1>1, <2>3, <2>4 DEF Amends, Older
    <2>6. TypeOK'
      BY <1>1, <2>4, <2>5, AmendTypes DEF TypeOK
    <2>7. Own(p) /\ Core
      BY DEF IInv
    <2>8. agent.label \/ ~FenceFlight
      BY <1>1, <2>7 DEF Own, LabelOwn
    <2>10. Core'
      <3>1. RunInv'
        BY <2>3, <2>5, <2>7, AmendSame DEF Core, RunInv
      <3>2. action.bound
        BY <2>1, <2>7, NobodyAssumption DEF Core, BoundInv
      <3>3. BoundInv'
        BY <2>3, <2>5, <2>7, <3>2, AmendSame DEF Core, BoundInv
      <3>4. SendInv' /\ ArchiveInv'
        BY <2>3, <2>5, <2>7, AmendSame DEF Core, SendInv, ArchiveInv, Still
      <3> QED
        BY <3>1, <3>3, <3>4 DEF Core
    <2>11. LabelCalls'
      BY <1>1, <2>4, <2>5, <2>8, AmendLabelCalls
    <2>12. Own(p)'
      BY <2>4, <2>5, AmendSame, ExitOwn DEF Amends
    <2>13. ASSUME NEW q \in Process \ {p}
           PROVE  RunOwn(q)' /\ SendOwn(q)' /\ ArchiveOwn(q)' /\ LabelOwn(q)'
      <3>1. pc'[q] = pc[q] /\ call'[q] = call[q] /\ Own(q)
        BY <2>4 DEF Others, IInv
      <3>2. RunOwn(q)' /\ SendOwn(q)' /\ ArchiveOwn(q)'
        BY <2>3, <2>5, <3>1, AmendSame DEF Own, RunOwn, SendOwn, ArchiveOwn, Holding,
                                           Choosing, Commanding, Still
      <3>3. LabelOwn(q)'
        BY <2>1, <2>3, <2>5, <3>1, AmendSame DEF Own, LabelOwn, Holding, Fencing
      <3> QED
        BY <3>2, <3>3
    <2>14. pc'[p] # "create" /\ \A op \in Ops : ~Holding(p, op)'
      BY <2>4 DEF Exits, Holding
    <2> QED
      BY <1>1, <2>3, <2>5, <2>6, <2>10, <2>11, <2>12, <2>13, <2>14, AmendStep
  <1> QED
    BY <1>2, <1>3

\* What undoing a claim changes.
Unclaims(op, a, b) ==
    /\ b \in ActionValue
    /\ b.present = a.present /\ b.bound = a.bound /\ b.output = a.output
    /\ b.fenced = a.fenced /\ b.parked = a.parked /\ b.quiesced = a.quiesced
    /\ IF op = "progress" THEN ~b.start ELSE b.start = a.start
    /\ IF op = "resume" THEN ~b.resume ELSE b.resume = a.resume
    /\ IF op = "park" THEN ~b.park ELSE b.park = a.park
    /\ IF op = "fence" THEN b.fence = Nobody ELSE b.fence = a.fence
    /\ IF op = "retire" THEN ~b.retire ELSE b.retire = a.retire

LEMMA RestoredFields ==
    ASSUME NEW a \in ActionValue, NEW op \in Ops, NEW b, b = Restored(op, a)
    PROVE  Unclaims(op, a, b)
  <1> USE DEF Unclaims
  <1>1. CASE op = "progress"
    <2>1. b = [a EXCEPT !.start = FALSE]
      BY <1>1 DEF Restored
    <2> QED
      BY <1>1, <2>1 DEF ActionValue
  <1>2. CASE op = "resume"
    <2>1. b = [a EXCEPT !.resume = FALSE]
      BY <1>2 DEF Restored
    <2> QED
      BY <1>2, <2>1 DEF ActionValue
  <1>3. CASE op = "park"
    <2>1. b = [a EXCEPT !.park = FALSE]
      BY <1>3 DEF Restored
    <2> QED
      BY <1>3, <2>1 DEF ActionValue
  <1>4. CASE op = "fence"
    <2>1. b = [a EXCEPT !.fence = Nobody]
      BY <1>4 DEF Restored
    <2> QED
      BY <1>4, <2>1 DEF ActionValue
  <1>5. CASE op = "retire"
    <2>1. b = [a EXCEPT !.retire = FALSE]
      BY <1>5 DEF Restored
    <2> QED
      BY <1>5, <2>1 DEF ActionValue
  <1> QED
    BY <1>1, <1>2, <1>3, <1>4, <1>5 DEF Ops

LEMMA UndoKeeps ==
    ASSUME IInv, NEW p \in Process, Undo(p)
    PROVE  IInv'
  <1>1. /\ TypeOK /\ pc[p] = "undo"
        /\ UNCHANGED <<journal, intent, provider, calls, dispatched>>
    BY DEF Undo, IInv
  <1>2. CASE action' = action /\ Finish(p)
    BY <1>1, <1>2, QuietExit
  <1>3. CASE action' = Restored(call[p].op, action) /\ Readback(p)
    <2> DEFINE op == call[p].op
    <2>1. action \in ActionValue /\ op \in Ops
      BY <1>1, ObservationTypes DEF TypeOK, Local
    <2>2. Unclaims(op, action, action')
      BY <1>3, <2>1, RestoredFields
    <2> USE DEF Unclaims
    <2>3. /\ pc' \in [Process -> Stages] /\ call' \in [Process -> Local]
          /\ Others(p) /\ Exits(p)
      BY <1>1, <1>3, <2>2, ReadsBack
    <2>4. Amends(p)
      BY <1>1, <2>2, <2>3 DEF Amends, Older
    <2>5. TypeOK'
      BY <1>1, <2>3, <2>4, AmendTypes DEF TypeOK
    <2>6. Own(p) /\ Core /\ Claims /\ Holding(p, op)
      BY <1>1 DEF IInv, Holding
    <2>7. /\ op = "progress" => dispatched["run"] = 0
          /\ op = "resume" => Still /\ ~Flight("send")
          /\ op = "retire" /\ ~agent.archived => ~Flight("archive")
          /\ ~agent.label /\ op = "fence" => Fencing(p) /\ ~FenceFlight
      BY <2>6 DEF Own, RunOwn, SendOwn, ArchiveOwn, LabelOwn
    <2> HIDE DEF op
    <2>8. Core'
      <3>1. RunInv'
        BY <2>2, <2>4, <2>6, <2>7, AmendSame DEF Core, RunInv
      <3>2. BoundInv'
        BY <2>2, <2>4, <2>6, AmendSame DEF Core, BoundInv
      <3>3. SendInv'
        BY <2>2, <2>4, <2>6, <2>7, AmendSame DEF Core, SendInv, Still
      <3>4. ArchiveInv'
        BY <2>2, <2>4, <2>6, <2>7, AmendSame DEF Core, ArchiveInv
      <3> QED
        BY <3>1, <3>2, <3>3, <3>4 DEF Core
    <2>9. LabelCalls'
      <3>1. ~agent.label /\ FenceFlight =>
               action'.fence = action.fence /\ action'.quiesced = action.quiesced
        BY <2>2, <2>7
      <3>2. ~Barred(p)'
        BY <2>3 DEF Exits, Barred
      <3> QED
        BY <1>1, <2>4, <3>1, <3>2, AmendLabelCalls
    <2>10. Own(p)'
      BY <2>3, <2>4, AmendSame, ExitOwn DEF Amends
    <2>11. ASSUME NEW q \in Process \ {p}
           PROVE  RunOwn(q)' /\ SendOwn(q)' /\ ArchiveOwn(q)' /\ LabelOwn(q)'
      <3>1. pc'[q] = pc[q] /\ call'[q] = call[q] /\ Own(q)
        BY <2>3 DEF Others, IInv
      <3>2. /\ op = "progress" => ~Holding(q, "progress")
            /\ op = "resume" => ~Holding(q, "resume")
            /\ op = "retire" /\ ~agent.archived => ~Holding(q, "retire")
        BY <2>6 DEF Claims, AloneHolding
      <3>3. RunOwn(q)'
        BY <2>2, <2>4, <3>1, <3>2, AmendSame DEF Own, RunOwn, Holding, Choosing, Commanding
      <3>4. SendOwn(q)'
        BY <2>2, <2>4, <3>1, <3>2, AmendSame DEF Own, SendOwn, Holding, Still
      <3>5. ArchiveOwn(q)'
        BY <2>2, <2>4, <3>1, <3>2, AmendSame DEF Own, ArchiveOwn, Holding
      <3>6. LabelOwn(q)'
        BY <2>2, <2>4, <2>7, <3>1, AmendSame DEF Own, LabelOwn, Holding, Fencing
      <3> QED
        BY <3>3, <3>4, <3>5, <3>6
    <2>12. pc'[p] # "create" /\ \A o \in Ops : ~Holding(p, o)'
      BY <2>3 DEF Exits, Holding
    <2> QED
      BY <1>1, <2>2, <2>4, <2>5, <2>8, <2>9, <2>10, <2>11, <2>12, AmendStep
  <1> QED
    BY <1>2, <1>3 DEF Undo

\* What a claim changes.
TakesClaim(p, op, a, b) ==
    /\ b \in ActionValue
    /\ b.present = a.present /\ b.bound = a.bound /\ b.output = a.output
    /\ b.fenced = a.fenced /\ b.parked = a.parked
    /\ IF op = "progress" THEN b.start ELSE b.start = a.start
    /\ IF op = "resume" THEN b.resume
       ELSE IF op = "park" THEN ~b.resume ELSE b.resume = a.resume
    /\ IF op = "park" THEN b.park
       ELSE IF op = "resume" THEN ~b.park ELSE b.park = a.park
    /\ IF op = "fence" THEN b.fence = p /\ ~b.quiesced
       ELSE b.fence = a.fence /\ b.quiesced = a.quiesced
    /\ IF op = "retire" THEN b.retire ELSE b.retire = a.retire

LEMMA ClaimedFields ==
    ASSUME NEW a \in ActionValue, NEW op \in Ops, NEW p \in Process,
           NEW b, b = Claimed(p, op, a)
    PROVE  TakesClaim(p, op, a, b)
  <1> USE DEF TakesClaim
  <1>1. CASE op = "progress"
    <2>1. b = [a EXCEPT !.start = TRUE]
      BY <1>1 DEF Claimed
    <2> QED
      BY <1>1, <2>1 DEF ActionValue
  <1>2. CASE op = "resume"
    <2>1. b = [a EXCEPT !.park = FALSE, !.resume = TRUE]
      BY <1>2 DEF Claimed
    <2> QED
      BY <1>2, <2>1 DEF ActionValue
  <1>3. CASE op = "park"
    <2>1. b = [a EXCEPT !.park = TRUE, !.resume = FALSE]
      BY <1>3 DEF Claimed
    <2> QED
      BY <1>3, <2>1 DEF ActionValue
  <1>4. CASE op = "fence"
    <2>1. b = [a EXCEPT !.fence = p, !.quiesced = FALSE]
      BY <1>4 DEF Claimed
    <2> QED
      BY <1>4, <2>1 DEF ActionValue
  <1>5. CASE op = "retire"
    <2>1. b = [a EXCEPT !.retire = TRUE]
      BY <1>5 DEF Claimed
    <2> QED
      BY <1>5, <2>1 DEF ActionValue
  <1> QED
    BY <1>1, <1>2, <1>3, <1>4, <1>5 DEF Ops

LEMMA ClaimKeeps ==
    ASSUME IInv, NEW p \in Process, Claim(p)
    PROVE  IInv'
  <1> DEFINE op == call[p].op
             d == [call[p] EXCEPT !.seen = action']
  <1>1. /\ TypeOK /\ pc[p] = "claim"
        /\ UNCHANGED <<journal, intent, provider, calls, dispatched>>
    BY DEF Claim, IInv
  <1>2. CASE action' = action /\ Finish(p)
    BY <1>1, <1>2, QuietExit
  <1>3. CASE /\ action = call[p].seen /\ ~Owned(op, action)
             /\ action' = Claimed(p, op, action) /\ Continue(p, "dispatch", d)
    <2>1. action \in ActionValue /\ op \in Ops /\ call[p] \in Local
      BY <1>1, ObservationTypes DEF TypeOK, Local
    <2>2. TakesClaim(p, op, action, action')
      BY <1>3, <2>1, ClaimedFields
    <2> USE DEF TakesClaim
    <2>3. d \in Local /\ d.op = op /\ d.entry = call[p].entry /\ "dispatch" \in Stages
      BY <2>1, <2>2 DEF Local, Stages
    <2> HIDE DEF d
    <2>4. /\ pc' \in [Process -> Stages] /\ call' \in [Process -> Local]
          /\ Others(p) /\ pc'[p] = "dispatch" /\ call'[p] = d
      BY <1>1, <1>3, <2>3, Moves, ArrivalTypes DEF Arrives
    <2>5. Amends(p)
      BY <1>1, <2>2, <2>4 DEF Amends, Older
    <2>6. TypeOK'
      BY <1>1, <2>4, <2>5, AmendTypes DEF TypeOK
    <2>7. Own(p) /\ Core /\ Claims
      BY DEF IInv
    <2>8. /\ op = "progress" => action.present /\ ~action.bound /\ ~action.start
          /\ op # "progress" => action.bound
      BY <1>1, <1>3, <2>7 DEF Own, RunOwn, Choosing, Commanding
    <2>9. /\ op = "park" => ~action.parked /\ ~action.resume
          /\ op = "resume" => action.parked /\ ~action.output /\ ~action.resume
          /\ op = "fence" => ~action.fenced /\ action.fence = Nobody
          /\ op = "retire" => ~action.retire
      BY <1>1, <1>3, <2>7 DEF Own, SendOwn, Owned
    <2> HIDE DEF op
    <2>10. op = "progress" => dispatched["run"] = 0
      BY <2>7, <2>8 DEF Core, RunInv
    <2>11. op = "resume" => ~agent.busy /\ ~agent.result /\ ~Flight("send")
      BY <2>7, <2>9 DEF Core, SendInv, Still
    <2>12. op = "retire" /\ ~agent.archived => ~Flight("archive")
      BY <2>7, <2>9 DEF Core, ArchiveInv
    <2>13. ~agent.label /\ op = "fence" => ~FenceFlight
      <3>1. SUFFICES ASSUME ~agent.label, op = "fence", NEW c \in calls, Fence(c) PROVE FALSE
        BY DEF FenceFlight
      <3>2. action.fence = c.by /\ c.by \in Process
        BY <1>1, <3>1, CallTypes DEF IInv, LabelCalls, LabelCall, Fencing
      <3> QED
        BY <2>9, <3>1, <3>2, NobodyAssumption
    <2>14. Core'
      <3>1. RunInv'
        BY <2>2, <2>5, <2>7, <2>8, <2>10, AmendSame DEF Core, RunInv
      <3>2. BoundInv'
        BY <2>2, <2>5, <2>7, <2>8, AmendSame DEF Core, BoundInv
      <3>3. SendInv'
        BY <2>2, <2>5, <2>7, <2>9, <2>11, AmendSame DEF Core, SendInv, Still
      <3>4. ArchiveInv'
        BY <2>2, <2>5, <2>7, AmendSame DEF Core, ArchiveInv
      <3> QED
        BY <3>1, <3>2, <3>3, <3>4 DEF Core
    <2>15. LabelCalls'
      <3>1. ~agent.label /\ FenceFlight =>
               action'.fence = action.fence /\ action'.quiesced = action.quiesced
        BY <2>2, <2>13
      <3>2. ~agent.label /\ Barred(p)' => ~FenceFlight
        BY <2>3, <2>4, <2>13 DEF Barred
      <3> QED
        BY <1>1, <2>5, <3>1, <3>2, AmendLabelCalls
    <2>16. Own(p)'
      <3>1. CreateOwn(p)'
        BY <2>4 DEF CreateOwn
      <3>2. RunOwn(p)'
        BY <2>2, <2>3, <2>4, <2>5, <2>8, <2>10, AmendSame
        DEF RunOwn, Holding, Choosing, Commanding
      <3>3. SendOwn(p)'
        BY <2>2, <2>3, <2>4, <2>5, <2>9, <2>11, AmendSame DEF SendOwn, Holding, Still
      <3>4. ArchiveOwn(p)'
        BY <2>2, <2>3, <2>4, <2>5, <2>12, AmendSame DEF ArchiveOwn, Holding
      <3>5. LabelOwn(p)'
        BY <2>2, <2>3, <2>4, <2>5, <2>13, AmendSame DEF LabelOwn, Holding, Fencing
      <3>6. JournalOwn(p)'
        <4>1. Backs(call'[p].entry, action', agent')
          BY <2>3, <2>4, <2>5, <2>7, AmendSame, BacksOn DEF Own, JournalOwn, Amends
        <4> QED
          BY <2>4, <4>1 DEF JournalOwn
      <3> QED
        BY <3>1, <3>2, <3>3, <3>4, <3>5, <3>6 DEF Own
    <2>17. ASSUME NEW q \in Process \ {p}
           PROVE  RunOwn(q)' /\ SendOwn(q)' /\ ArchiveOwn(q)' /\ LabelOwn(q)'
      <3>1. pc'[q] = pc[q] /\ call'[q] = call[q] /\ Own(q)
        BY <2>4 DEF Others, IInv
      <3>2. RunOwn(q)'
        BY <2>2, <2>5, <3>1, AmendSame DEF Own, RunOwn, Holding, Choosing, Commanding
      <3>3. SendOwn(q)'
        BY <2>2, <2>5, <2>9, <3>1, AmendSame DEF Own, SendOwn, Holding, Still
      <3>4. ArchiveOwn(q)'
        BY <2>2, <2>5, <3>1, AmendSame DEF Own, ArchiveOwn, Holding
      <3>5. LabelOwn(q)'
        BY <2>2, <2>5, <2>9, <2>13, <3>1, AmendSame, NobodyAssumption
        DEF Own, LabelOwn, Holding, Fencing
      <3> QED
        BY <3>2, <3>3, <3>4, <3>5
    <2>18. Claims'
      <3>1. AloneCreating'
        BY <2>4, <2>7 DEF Claims, AloneCreating, Others
      <3>2. ASSUME NEW o \in {"progress", "resume", "retire"},
                   op = o => \A q \in Process : ~Holding(q, o),
                   AloneHolding(o)
            PROVE  AloneHolding(o)'
        BY <2>3, <2>4, <3>2 DEF AloneHolding, Holding, Others
      <3>3. op = "progress" => \A q \in Process : ~Holding(q, "progress")
        BY <2>8 DEF IInv, Own, RunOwn
      <3>4. op = "resume" => \A q \in Process : ~Holding(q, "resume")
        BY <2>9 DEF IInv, Own, SendOwn, Still
      <3>5. op = "retire" /\ ~agent.archived => \A q \in Process : ~Holding(q, "retire")
        BY <2>9 DEF IInv, Own, ArchiveOwn
      <3>6. agent' = agent
        BY <2>5, AmendSame
      <3>7. AloneHolding("progress")' /\ AloneHolding("resume")'
        BY <2>7, <3>2, <3>3, <3>4 DEF Claims
      <3>8. ~agent.archived => AloneHolding("retire")'
        BY <2>7, <3>2, <3>5 DEF Claims
      <3> QED
        BY <3>1, <3>6, <3>7, <3>8 DEF Claims
    <2> QED
      BY <1>1, <2>2, <2>4, <2>5, <2>6, <2>14, <2>15, <2>16, <2>17, <2>18, AmendStep
  <1> QED
    BY <1>2, <1>3 DEF Claim

------------------------------------------------------------------------------
(* The daemon and the Agent; the invariant.                                *)

\* A step of the daemon or the Agent.
Outside ==
    /\ UNCHANGED <<durable, dispatched, pc, call>>
    /\ calls' \subseteq calls
    /\ workspaces' \in Nat /\ agents' \in Nat /\ agent' \in AgentValue
    /\ workspaces = 1 => workspaces' = 1
    /\ agent.archived => agent'.archived
    /\ agent.label => agent'.label

LEMMA OutsideFlights ==
    ASSUME Outside
    PROVE  /\ \A k : Flight(k)' => Flight(k)
           /\ FenceFlight' => FenceFlight
           /\ \A k : AloneInFlight(k) => AloneInFlight(k)'
           /\ action' = action /\ intent' = intent /\ journal' = journal
           /\ dispatched' = dispatched /\ pc' = pc /\ call' = call
  BY DEF Outside, Flight, FenceFlight, AloneInFlight, durable

LEMMA OutsideKeeps ==
    ASSUME IInv, Outside, CreateInv', RunInv', BoundInv', SendInv', LabelCalls',
           \A q \in Process : Holding(q, "resume") => Still'
    PROVE  IInv'
  <1>1. TypeOK'
    BY DEF IInv, TypeOK, Outside, durable
  <1>2. ArchiveInv'
    BY OutsideFlights DEF IInv, Core, ArchiveInv, Outside, Effects
  <1>3. Older(action, action')
    BY OutsideFlights DEF Older
  <1>4. Backs(journal, action, agent)'
    BY <1>3, OutsideFlights, BacksOn DEF IInv, Outside
  <1>5. ASSUME NEW q \in Process PROVE Own(q)'
    <2>1. pc'[q] = pc[q] /\ call'[q] = call[q] /\ Own(q) /\ action' = action
      BY OutsideFlights DEF IInv
    <2>2. CreateOwn(q)'
      BY <2>1, OutsideFlights DEF Own, CreateOwn, Outside
    <2>3. RunOwn(q)'
      BY <2>1, OutsideFlights DEF Own, RunOwn, Holding, Choosing, Commanding
    <2>4. SendOwn(q)'
      BY <2>1, OutsideFlights DEF Own, SendOwn, Holding
    <2>5. ArchiveOwn(q)'
      BY <2>1, OutsideFlights DEF Own, ArchiveOwn, Holding, Outside
    <2>6. LabelOwn(q)'
      BY <2>1, OutsideFlights DEF Own, LabelOwn, Holding, Fencing, Outside
    <2>7. JournalOwn(q)'
      BY <1>3, <2>1, JournalOwnOn DEF Own, Outside
    <2> QED
      BY <2>2, <2>3, <2>4, <2>5, <2>6, <2>7 DEF Own
  <1>6. Claims'
    <2>1. \A q \in Process, op \in Ops : Holding(q, op)' => Holding(q, op)
      BY OutsideFlights DEF Holding
    <2>2. AloneCreating'
      BY OutsideFlights DEF IInv, Claims, AloneCreating
    <2> QED
      BY <2>1, <2>2, ClaimsStay DEF Outside
  <1> QED
    BY <1>1, <1>2, <1>4, <1>5, <1>6 DEF IInv, Core

\* What the landing of c changes.
Lands(c) ==
    /\ Outside
    /\ c \in calls /\ c \notin calls'
    /\ IF c.kind = "create" THEN workspaces' = workspaces + 1 ELSE workspaces' = workspaces
    /\ IF c.kind = "run" THEN agents' = agents + 1 ELSE agents' = agents
    /\ agent'.busy = agent.busy
       \/ (c.kind \in {"run", "send"} /\ ~agent.archived)
       \/ (c.kind \in {"stop", "archive"} /\ ~agent'.busy)
    /\ agent'.archived = agent.archived \/ c.kind = "archive"
    /\ agent'.label = agent.label \/ (c.kind = "label" /\ agent'.label)
    /\ c.kind = "label" => agent'.label
    /\ agent'.result = agent.result

LEMMA LandFacts ==
    ASSUME IInv, NEW c \in calls, Land(c)
    PROVE  Lands(c)
  <1>1. TypeOK /\ agent \in AgentValue /\ c.kind \in Effects
    BY CallTypes DEF IInv, TypeOK
  <1>2. /\ agent.busy \in BOOLEAN /\ agent.archived \in BOOLEAN
        /\ agent.label \in BOOLEAN /\ agent.result \in BOOLEAN
    BY <1>1 DEF AgentValue
  <1> DEFINE busy == IF agent.archived THEN agent.busy
                     ELSE IF c.kind \in {"run", "send"} THEN TRUE
                     ELSE IF c.kind \in {"stop", "archive"} THEN FALSE ELSE agent.busy
             archived == agent.archived \/ c.kind = "archive"
             label == agent.label \/ c.kind = "label"
  <1>3. agent' = [agent EXCEPT !.busy = busy, !.archived = archived, !.label = label]
    BY DEF Land
  <1>4. busy \in BOOLEAN /\ archived \in BOOLEAN /\ label \in BOOLEAN
    BY <1>2
  <1>5. busy = agent.busy \/ (c.kind \in {"run", "send"} /\ ~agent.archived)
           \/ (c.kind \in {"stop", "archive"} /\ ~busy)
    OBVIOUS
  <1>6. /\ archived = agent.archived \/ c.kind = "archive"
        /\ agent.archived => archived
        /\ label = agent.label \/ (c.kind = "label" /\ label)
        /\ c.kind = "label" => label
        /\ agent.label => label
    BY <1>2
  <1> HIDE DEF busy, archived, label
  <1>7. /\ agent' \in AgentValue
        /\ agent'.busy = busy /\ agent'.archived = archived /\ agent'.label = label
        /\ agent'.result = agent.result
    BY <1>1, <1>3, <1>4 DEF AgentValue
  <1>8. /\ UNCHANGED <<durable, dispatched, pc, call>>
        /\ calls' = calls \ {c}
        /\ workspaces' = (IF c.kind = "create" THEN workspaces + 1 ELSE workspaces)
        /\ agents' = (IF c.kind = "run" THEN agents + 1 ELSE agents)
    BY DEF Land
  <1>9. workspaces' \in Nat /\ agents' \in Nat
    BY <1>1, <1>8 DEF TypeOK
  <1>10. workspaces = 1 => workspaces' = 1
    <2>1. workspaces = 1 => c.kind # "create"
      BY DEF IInv, CreateInv, Flight
    <2> QED
      BY <1>8, <2>1
  <1>11. Outside
    BY <1>6, <1>7, <1>8, <1>9, <1>10 DEF Outside
  <1> QED
    BY <1>5, <1>6, <1>7, <1>8, <1>11 DEF Lands

LEMMA LandKeeps ==
    ASSUME IInv, NEW c \in calls, Land(c)
    PROVE  IInv'
  <1>1. Lands(c) /\ Outside /\ TypeOK /\ CreateInv /\ Core
    BY LandFacts DEF Lands, IInv
  <1>2. c.kind \in Effects /\ Flight(c.kind) /\ c.by \in Process
    BY <1>1, CallTypes DEF Flight
  <1>3. ASSUME AloneInFlight(c.kind) PROVE ~Flight(c.kind)'
    BY <1>1, <1>3 DEF Lands, Outside, Flight, AloneInFlight
  <1>4. CreateInv'
    <2>1. CASE c.kind = "create"
      BY <1>1, <1>2, <1>3, <2>1, OutsideFlights DEF CreateInv, Lands
    <2>2. CASE c.kind # "create"
      BY <1>1, <2>2, OutsideFlights DEF CreateInv, Lands
    <2> QED
      BY <2>1, <2>2
  <1>5. c.kind = "run" => agents = 0 /\ ~action.bound /\ action.start /\ ~Flight("run")'
    BY <1>1, <1>2, <1>3 DEF Core, RunInv
  <1>6. c.kind = "send" => Still /\ ~Flight("send")'
    BY <1>1, <1>2, <1>3 DEF Core, SendInv
  <1>7. RunInv'
    <2>1. CASE c.kind = "run"
      BY <1>1, <1>2, <1>5, <2>1, OutsideFlights DEF Core, RunInv, Lands
    <2>2. CASE c.kind # "run"
      BY <1>1, <2>2, OutsideFlights DEF Core, RunInv, Lands
    <2> QED
      BY <2>1, <2>2
  <1>8. BoundInv'
    <2>1. \A e \in calls' : e.kind \in {"send", "stop", "label", "archive"} => action.bound
      BY <1>1 DEF Core, BoundInv, Outside
    <2>2. c.kind \in {"send", "stop", "label", "archive"} => agents' = 1
      BY <1>1 DEF Core, BoundInv, RunInv, Lands
    <2>3. c.kind = "run" => agents' = 1
      BY <1>1, <1>5 DEF Lands
    <2>4. agent'.busy \/ agent'.result \/ agent'.label \/ agent'.archived => agents' = 1
      <3>1. CASE c.kind \in {"run", "send", "stop", "label", "archive"}
        BY <2>2, <2>3, <3>1
      <3>2. CASE c.kind = "create"
        BY <1>1, <3>2 DEF Core, BoundInv, Lands
      <3> QED
        BY <1>2, <3>1, <3>2 DEF Effects
    <2> QED
      BY <1>1, <2>1, <2>4, OutsideFlights DEF Core, BoundInv, Outside
  <1>9. action.bound \/ action.resume \/ action.parked => c.kind # "run"
    BY <1>1, <1>5 DEF Core, BoundInv
  <1>10. ~action.resume => c.kind # "send"
    BY <1>6 DEF Still
  <1>11. c.kind # "send" /\ Still => Still'
    BY <1>1, <1>9, OutsideFlights DEF Still, Lands
  <1>12. SendInv'
    <2>1. action.parked /\ ~action.resume => ~agent'.busy /\ ~agent'.result
      BY <1>1, <1>9, <1>10 DEF Core, SendInv, Lands
    <2>2. Flight("send")' => Still'
      BY <1>1, <1>6, <1>11, OutsideFlights DEF Core, SendInv
    <2> QED
      BY <1>1, <2>1, <2>2, OutsideFlights DEF Core, SendInv
  <1>13. LabelCalls'
    <2> SUFFICES ASSUME ~agent'.label, NEW e \in calls', Fence(e)
                 PROVE  LabelCall(e)'
      BY DEF LabelCalls, Fence
    <2>1. ~agent.label /\ e \in calls /\ LabelCall(e)
      BY <1>1 DEF Outside, IInv, LabelCalls
    <2> QED
      BY <1>1, <2>1, OutsideFlights DEF LabelCall, Fencing
  <1>14. \A q \in Process : Holding(q, "resume") => Still'
    BY <1>2, <1>11 DEF IInv, Own, SendOwn
  <1> QED
    BY <1>1, <1>4, <1>7, <1>8, <1>12, <1>13, <1>14, OutsideKeeps

\* The Agent ends its turn, with or without a result.
LEMMA TurnKeeps ==
    ASSUME IInv, WriteResult \/ EndTurn
    PROVE  IInv' /\ agent'.busy = FALSE
  <1>1. TypeOK /\ CreateInv /\ Core /\ agent \in AgentValue /\ agent.busy
    BY DEF IInv, TypeOK, WriteResult, EndTurn
  <1>2. \/ agent' = [agent EXCEPT !.result = TRUE, !.busy = FALSE]
        \/ agent' = [agent EXCEPT !.busy = FALSE]
    BY DEF WriteResult, EndTurn
  <1>3. /\ agent' \in AgentValue /\ agent'.busy = FALSE
        /\ agent'.archived = agent.archived /\ agent'.label = agent.label
    <2>1. CASE agent' = [agent EXCEPT !.result = TRUE, !.busy = FALSE]
      BY <1>1, <2>1 DEF AgentValue
    <2>2. CASE agent' = [agent EXCEPT !.busy = FALSE]
      BY <1>1, <2>2 DEF AgentValue
    <2> QED
      BY <1>2, <2>1, <2>2
  <1>4. UNCHANGED <<durable, workspaces, agents, calls, dispatched, pc, call>>
    BY DEF WriteResult, EndTurn
  <1>5. Outside
    BY <1>1, <1>3, <1>4 DEF Outside, TypeOK
  <1>6. ~Still /\ ~(action.parked /\ ~action.resume) /\ ~Flight("send") /\ agents = 1
    BY <1>1 DEF Still, Core, SendInv, BoundInv
  <1>7. CreateInv' /\ RunInv'
    BY <1>1, <1>4, <1>5, OutsideFlights DEF Core, CreateInv, RunInv
  <1>8. BoundInv' /\ SendInv'
    BY <1>1, <1>3, <1>4, <1>5, <1>6, OutsideFlights DEF Core, BoundInv, SendInv, Outside
  <1>9. LabelCalls'
    BY <1>3, <1>4, <1>5, OutsideFlights DEF IInv, LabelCalls, LabelCall, Fencing
  <1>10. \A q \in Process : Holding(q, "resume") => Still'
    BY <1>6 DEF IInv, Own, SendOwn
  <1> QED
    BY <1>3, <1>5, <1>7, <1>8, <1>9, <1>10, OutsideKeeps

LEMMA StepKeeps ==
    ASSUME IInv, NEW p \in Process, Step(p)
    PROVE  IInv'
  BY CallsKeep, SeeKeeps, NoteKeeps, RecordKeeps, PrepareKeeps, LookupKeeps, ReserveKeeps,
     CreateKeeps, CreateNotDispatchedKeeps, CreateEndsKeeps, CommitKeeps, GateKeeps,
     ClaimKeeps, IssueKeeps, NotDispatchedKeeps, UndoKeeps, SucceedKeeps, FailKeeps,
     QuiesceKeeps, DieKeeps
  DEF Step

LEMMA NextKeeps ==
    ASSUME IInv, [Next]_vars
    PROVE  IInv'
  <1>1. CASE UNCHANGED vars
    <2>1. /\ journal' = journal /\ intent' = intent /\ action' = action
          /\ workspaces' = workspaces /\ agents' = agents /\ agent' = agent
          /\ calls' = calls /\ dispatched' = dispatched /\ pc' = pc /\ call' = call
      BY <1>1 DEF vars, durable, provider
    <2>2. Outside
      BY <2>1 DEF Outside, IInv, TypeOK, durable
    <2>3. CreateInv' /\ RunInv' /\ BoundInv'
      BY <2>1, <2>2, OutsideFlights DEF IInv, Core, CreateInv, RunInv, BoundInv
    <2>4. SendInv' /\ LabelCalls'
      BY <2>1, <2>2, OutsideFlights
      DEF IInv, Core, SendInv, Still, LabelCalls, LabelCall, Fencing
    <2>5. \A q \in Process : Holding(q, "resume") => Still'
      BY <2>1 DEF IInv, Own, SendOwn, Still
    <2> QED
      BY <2>2, <2>3, <2>4, <2>5, OutsideKeeps
  <1>2. CASE \E p \in Process : Step(p)
    BY <1>2, StepKeeps
  <1>3. CASE \E c \in calls : Land(c)
    BY <1>3, LandKeeps
  <1>4. CASE WriteResult \/ EndTurn
    BY <1>4, TurnKeeps
  <1> QED
    BY <1>1, <1>2, <1>3, <1>4 DEF Next

LEMMA InitInv == Init => IInv
  <1> SUFFICES ASSUME Init PROVE IInv
    OBVIOUS
  <1>1. /\ action = Absent /\ calls = {} /\ intent = "none" /\ workspaces = 0 /\ agents = 0
        /\ journal = [life |-> "none", fenced |-> FALSE]
        /\ agent = [busy |-> FALSE, archived |-> FALSE, label |-> FALSE, result |-> FALSE]
        /\ dispatched = [e \in Materializing |-> 0]
        /\ pc = [p \in Process |-> "idle"] /\ call = [p \in Process |-> Idle]
    BY DEF Init
  <1>2. dispatched["create"] = 0 /\ dispatched["run"] = 0
    BY <1>1 DEF Materializing
  <1>3. /\ ~action.present /\ ~action.start /\ ~action.bound /\ ~action.resume /\ ~action.park
        /\ ~action.parked /\ action.fence = Nobody /\ ~action.quiesced /\ ~action.fenced
        /\ ~action.retire /\ ~action.output
    BY <1>1 DEF Absent
  <1>4. ~agent.busy /\ ~agent.archived /\ ~agent.label /\ ~agent.result
    BY <1>1
  <1>5. TypeOK
    <2>1. journal \in JournalValue /\ intent \in Phases /\ agent \in AgentValue
      BY <1>1 DEF JournalValue, Recordable, Phases, AgentValue
    <2>2. action \in ActionValue /\ call \in [Process -> Local]
      BY <1>1, IdleTypes
    <2>3. pc \in [Process -> Stages] /\ dispatched \in [Materializing -> Nat]
      BY <1>1 DEF Stages
    <2> QED
      BY <1>1, <2>1, <2>2, <2>3 DEF TypeOK
  <1>6. \A k : ~Flight(k) /\ AloneInFlight(k)
    BY <1>1 DEF Flight, AloneInFlight
  <1>7. CreateInv /\ Core /\ LabelCalls
    BY <1>1, <1>2, <1>3, <1>4, <1>6
    DEF CreateInv, Core, RunInv, BoundInv, SendInv, ArchiveInv, LabelCalls
  <1>8. \A j : j = [life |-> "none", fenced |-> FALSE] => Backs(j, action, agent)
    BY DEF Backs, BoundLife
  <1>9. ASSUME NEW p \in Process PROVE Own(p)
    <2>1. pc[p] = "idle" /\ call[p].entry = [life |-> "none", fenced |-> FALSE]
      BY <1>1 DEF Idle
    <2>2. CreateOwn(p) /\ RunOwn(p) /\ SendOwn(p) /\ ArchiveOwn(p) /\ LabelOwn(p)
      BY <2>1 DEF CreateOwn, RunOwn, SendOwn, ArchiveOwn, LabelOwn, Holding, Choosing, Commanding
    <2>3. JournalOwn(p)
      BY <1>8, <2>1 DEF JournalOwn
    <2> QED
      BY <2>2, <2>3 DEF Own
  <1>10. Claims
    BY <1>1 DEF Claims, AloneCreating, AloneHolding, Holding
  <1> QED
    BY <1>1, <1>5, <1>7, <1>8, <1>9, <1>10 DEF IInv

LEMMA Inductive == Spec => []IInv
  <1>1. Init => IInv
    BY InitInv
  <1>2. IInv /\ [Next]_vars => IInv'
    BY NextKeeps
  <1> QED
    BY <1>1, <1>2, PTL DEF Spec

------------------------------------------------------------------------------
(* The theorems.                                                           *)

\* The types of the journals, of the daemon and of the calls, for any
\* processes and whatever they ask.
THEOREM TypeCorrect == Spec => []TypeOK
  <1>1. IInv => TypeOK
    BY DEF IInv
  <1> QED
    BY <1>1, Inductive, PTL

\* The Gateway's one-shot promise: however many processes drive an action,
\* and whatever dies, times out or lands late, its Workspace and its Agent
\* are asked for at most once.
THEOREM MaterializedOnce == Spec => []OneMaterialization
  <1>1. IInv => OneMaterialization
    BY DEF IInv, Core, CreateInv, RunInv, OneMaterialization
  <1> QED
    BY <1>1, Inductive, PTL

\* The journal of the Gateway never says of a binding, a result, a
\* retirement or a fence what the adapter's record and the daemon do not
\* back, not even from an observation that another call has overtaken.
THEOREM JournalHasBacking == Spec => []JournalBacked
  <1>1. IInv => JournalBacked
    BY DEF IInv, Backs, JournalBacked
  <1> QED
    BY <1>1, Inductive, PTL

\* An effect that may still land has the claim on record that dispatched it,
\* whichever effects land late and whoever died over them; only of a label
\* call that its caller left at its timeout nothing is promised
\* (runtime_gateway.py takes the end of the CLI process for the end of the
\* call).
THEOREM EffectsOnRecord == Spec => []PendingEvidence
  <1>1. ASSUME IInv, NEW c \in calls PROVE Awaited(c)
    <2>1. Flight(c.kind) /\ c.kind \in Effects /\ c.by \in Process
      BY <1>1, CallTypes DEF Flight, IInv
    <2>2. Core /\ CreateInv /\ LabelCalls
      BY <1>1 DEF IInv
    <2>3. CASE c.kind = "create"
      <3>1. dispatched["create"] = 1 /\ workspaces # 1
        BY <2>1, <2>2, <2>3 DEF CreateInv
      <3>2. intent = "create_pending"
        BY <2>2, <3>1 DEF CreateInv
      <3> QED
        BY <2>3, <3>2 DEF Awaited
    <2>4. CASE c.kind = "run"
      <3>1. dispatched["run"] = 1 /\ agents # 1
        BY <2>1, <2>2, <2>4 DEF Core, RunInv
      <3>2. action.start
        BY <2>2, <3>1 DEF Core, RunInv
      <3> QED
        BY <2>4, <3>2 DEF Awaited
    <2>5. CASE c.kind = "send"
      BY <2>1, <2>2, <2>5 DEF Core, SendInv, Still, Awaited
    <2>6. CASE c.kind = "archive"
      BY <2>1, <2>2, <2>6 DEF Core, ArchiveInv, Awaited
    <2>7. CASE c.kind = "label"
      <3>1. c.caller = "left" \/ agent.label \/ action.fence = c.by
        BY <1>1, <2>1, <2>2, <2>7 DEF LabelCalls, LabelCall, Fencing, Fence
      <3> QED
        BY <2>1, <2>7, <3>1, NobodyAssumption DEF Awaited
    <2>8. CASE c.kind = "stop"
      BY <2>8 DEF Awaited
    <2> QED
      BY <2>1, <2>3, <2>4, <2>5, <2>6, <2>7, <2>8 DEF Effects
  <1>2. IInv => PendingEvidence
    BY <1>1 DEF PendingEvidence
  <1> QED
    BY <1>2, Inductive, PTL

\* Only two transactions write the journal.
LEMMA JournalWrites ==
    ASSUME TypeOK, [Next]_vars, journal' # journal
    PROVE  \E p \in Process :
              /\ pc[p] \in {"note", "record"}
              /\ journal = call[p].entry /\ journal' = Observation(p)
  <1>1. CASE UNCHANGED vars
    BY <1>1 DEF vars, durable
  <1>2. CASE \E c \in calls : Land(c)
    BY <1>2 DEF Land, durable
  <1>3. CASE WriteResult \/ EndTurn
    BY <1>3 DEF WriteResult, EndTurn, durable
  <1>4. CASE \E p \in Process : Step(p)
    <2>1. PICK p \in Process : Step(p)
      BY <1>4
    <2>2. Note(p) \/ Record(p)
      <3>1. \A op : ~Call(p, op)
        BY DEF Call, durable
      <3>2. /\ ~See(p) /\ ~Prepare(p) /\ ~Lookup(p) /\ ~Reserve(p) /\ ~Create(p)
            /\ ~CreateNotDispatched(p) /\ ~CreateEnds(p) /\ ~Commit(p)
        BY DEF See, Prepare, Lookup, Reserve, Create, CreateNotDispatched, CreateEnds,
               Commit, durable
      <3>3. /\ ~Gate(p) /\ ~Claim(p) /\ ~Issue(p) /\ ~NotDispatched(p) /\ ~Undo(p)
            /\ ~Succeed(p) /\ ~Fail(p) /\ ~Quiesce(p) /\ ~Die(p)
        BY DEF Gate, Claim, Issue, NotDispatched, Undo, Succeed, Fail, Quiesce, Die, durable
      <3> QED
        BY <2>1, <3>1, <3>2, <3>3 DEF Step
    <2>3. CASE Note(p)
      BY <2>3 DEF Note
    <2>4. CASE Record(p)
      BY <2>4 DEF Record
    <2> QED
      BY <2>2, <2>3, <2>4
  <1> QED
    BY <1>1, <1>2, <1>3, <1>4 DEF Next

\* The journal of the Gateway is written by compare-and-swap: of any number
\* of concurrent calls none takes its life or its fence back.
THEOREM JournalAdvances == Spec => JournalForward
  <1> DEFINE Forward == /\ Rank[journal.life] <= Rank[journal'.life]
                        /\ journal.fenced => journal'.fenced
  <1>1. ASSUME IInv, [Next]_vars PROVE [Forward]_journal
    <2> SUFFICES ASSUME journal' # journal PROVE Forward
      OBVIOUS
    <2>1. PICK p \in Process :
             /\ pc[p] \in {"note", "record"}
             /\ journal = call[p].entry /\ journal' = Observation(p)
      BY <1>1, JournalWrites DEF IInv
    <2>2. JournalOwn(p)
      BY <1>1 DEF IInv, Own
    <2>3. /\ Rank[call[p].entry.life] <= Rank[call[p].life]
          /\ call[p].entry.fenced => call[p].seen.fenced
      BY <2>1, <2>2 DEF JournalOwn
    <2>4. journal'.life = call[p].life /\ journal'.fenced = call[p].seen.fenced
      BY <2>1 DEF Observation
    <2> QED
      BY <2>1, <2>3, <2>4
  <1> QED
    BY <1>1, Inductive, PTL DEF Spec, JournalForward

\* A fenced binding that has no resume on record does not begin to work
\* again: no effect that is under way, late or orphaned could start it.
THEOREM FencedStays == Spec => FencedStaysStopped
  <1> DEFINE Stays == action.fenced /\ ~action.resume /\ ~agent.busy => ~agent'.busy
  <1>1. ASSUME IInv, [Next]_vars PROVE [Stays]_agent
    <2> SUFFICES ASSUME agent' # agent, action.fenced, ~action.resume, ~agent.busy
                 PROVE  ~agent'.busy
      OBVIOUS
    <2>1. CASE UNCHANGED vars
      BY <2>1 DEF vars, provider
    <2>2. CASE \E p \in Process : Step(p)
      BY <2>2 DEF Step, Call, See, Note, Record, Prepare, Lookup, Reserve, Create,
         CreateNotDispatched, CreateEnds, Commit, Gate, Claim, Issue, NotDispatched, Undo,
         Succeed, Fail, Quiesce, Die, provider
    <2>3. ASSUME NEW c \in calls, Land(c) PROVE ~agent'.busy
      <3>1. Lands(c) /\ Core /\ Flight(c.kind)
        BY <1>1, <2>3, LandFacts DEF IInv, Flight
      <3>2. c.kind # "run"
        BY <3>1 DEF Core, RunInv, BoundInv
      <3>3. c.kind # "send"
        BY <3>1 DEF Core, SendInv, Still
      <3> QED
        BY <3>1, <3>2, <3>3 DEF Lands
    <2>4. CASE WriteResult \/ EndTurn
      BY <1>1, <2>4, TurnKeeps
    <2> QED
      BY <1>1, <2>1, <2>2, <2>3, <2>4 DEF Next
  <1> QED
    BY <1>1, Inductive, PTL DEF Spec, FencedStaysStopped
==============================================================================
