------------------------- MODULE BatchDelivery_proof -------------------------
(***************************************************************************)
(* What BatchDelivery keeps for every set of Campaigns and Tickets, every  *)
(* member and retry limit, and however often processes die and others push.*)
(*                                                                         *)
(* First, formation: what a Batch is, whatever Candidates are offered.     *)
(*                                                                         *)
(* Then delivery.  The invariant IInv says of each request what its        *)
(* records say of the Batch ref, the published SHA, the receipt and the    *)
(* merge of each action (RecordOk) and what a dissolved Batch says of its  *)
(* Singletons (ParentQueue), and of each process what it still knows at    *)
(* each of its steps (ProcInv).  Beside the owner of a request there is a  *)
(* probe: overtaken says which of them has an old version of the request's *)
(* record, and what it may then not rely on.  A step of one process leaves *)
(* the other requests alone (FrameKeeps) and what the other process of its *)
(* own request knows true (AsideKeeps); one lemma per action shows that    *)
(* its request and the process itself keep the invariant.                  *)
(*                                                                         *)
(* Last, the lease: LeaseInv follows its holder into death and back.       *)
(***************************************************************************)
EXTENDS BatchDelivery, WellFoundedInduction, TLAPS

\* A property of numbers that fails somewhere has a least number where it does.
LEMMA LeastNat ==
    ASSUME NEW T, T \subseteq Nat, T # {}
    PROVE  \E n \in T : \A m \in T : n <= m
  <1>1. PICK n \in T : \A m \in T : <<m, n>> \notin OpToRel(<, Nat)
    BY WFMin, NatLessThanWellFounded
  <1>2. \A m \in T : ~ (m < n)
    BY <1>1 DEF OpToRel
  <1> QED
    BY <1>2

------------------------------------------------------------------------------
(* Formation.                                                              *)

\* The definition of Selections, for the first candidates.
IsSelection(f, c, n) ==
    f = [i \in 1 .. n |->
            IF i = 1 THEN <<c[1]>>
            ELSE IF Joins(c[i], f[i - 1])
            THEN Append(f[i - 1], c[i]) ELSE f[i - 1]]

\* It defines something.
LEMMA SelectionsExist ==
    ASSUME NEW c \in Seq(Ticket), NEW n \in Nat
    PROVE  \E f : IsSelection(f, c, n)
  <1> DEFINE Missing == {m \in Nat : ~ \E f : IsSelection(f, c, m)}
  <1>1. ASSUME Missing # {} PROVE FALSE
    <2>1. PICK m \in Missing : \A k \in Missing : m <= k
      BY <1>1, LeastNat
    <2>2. CASE m = 0
      <3>1. IsSelection([i \in {} |-> <<>>], c, 0)
        BY DEF IsSelection
      <3> QED
        BY <2>1, <2>2, <3>1
    <2>3. CASE m # 0
      <3>1. m - 1 \in Nat /\ m - 1 \notin Missing
        BY <2>1, <2>3
      <3>2. PICK f : IsSelection(f, c, m - 1)
        BY <3>1
      <3> DEFINE last == IF m = 1 THEN <<c[1]>>
                         ELSE IF Joins(c[m], f[m - 1])
                         THEN Append(f[m - 1], c[m]) ELSE f[m - 1]
                 g == [i \in 1 .. m |-> IF i = m THEN last ELSE f[i]]
      <3>3. IsSelection(g, c, m)
        <4>1. \A i \in 1 .. m :
                 g[i] = IF i = 1 THEN <<c[1]>>
                        ELSE IF Joins(c[i], g[i - 1])
                        THEN Append(g[i - 1], c[i]) ELSE g[i - 1]
          <5>1. ASSUME NEW i \in 1 .. m, i # m
                PROVE  g[i] = IF i = 1 THEN <<c[1]>>
                              ELSE IF Joins(c[i], f[i - 1])
                              THEN Append(f[i - 1], c[i]) ELSE f[i - 1]
            <6>1. i \in 1 .. (m - 1) /\ g[i] = f[i]
              BY <5>1, <2>1
            <6> QED
              BY <6>1, <3>2, Zenon DEF IsSelection
          <5>2. \A i \in 1 .. m : i # 1 => i - 1 \in 1 .. m /\ i - 1 # m /\ g[i - 1] = f[i - 1]
            BY <2>1
          <5>3. g[m] = last /\ m \in 1 .. m
            BY <2>1, <2>3
          <5> HIDE DEF g
          <5> QED
            BY <5>1, <5>2, <5>3
        <4> QED
          BY <4>1 DEF IsSelection
      <3> QED
        BY <2>1, <3>3
    <2> QED
      BY <2>2, <2>3
  <1> QED
    BY <1>1

LEMMA SelectionsUnfold ==
    ASSUME NEW c \in Seq(Ticket) PROVE IsSelection(Selections(c), c, Len(c))
  <1>1. DOMAIN c = 1 .. Len(c) /\ Len(c) \in Nat
    OBVIOUS
  <1>2. \E f : IsSelection(f, c, Len(c))
    BY <1>1, SelectionsExist
  <1>3. Selections(c) = CHOOSE f : IsSelection(f, c, Len(c))
    BY <1>1 DEF Selections, IsSelection
  <1> QED
    BY <1>2, <1>3

\* What a Batch may be: the compatibility rules of form_batch_members.
Allowed(m) ==
    /\ Len(m) <= MemberLimit
    /\ \A i, j \in DOMAIN m : i < j =>
          m[i] \notin Protected /\ m[j] \notin Protected /\ {m[j], m[i]} \notin Incompatible

LEMMA SelectedFacts ==
    ASSUME NEW c \in Seq(Ticket), c # <<>>, c[1] \notin Protected,
           NEW n \in 1 .. Len(c)
    PROVE  LET m == Selections(c)[n]
           IN  m \in Seq(Ticket) /\ m # <<>> /\ Range(m) \subseteq Range(c)
               /\ Allowed(m) /\ \A i \in DOMAIN m : m[i] \notin Protected
  <1> DEFINE Good(m) == /\ m \in Seq(Ticket) /\ m # <<>> /\ Range(m) \subseteq Range(c)
                        /\ Allowed(m) /\ \A i \in DOMAIN m : m[i] \notin Protected
             f == Selections(c)
             Bad == {k \in 1 .. Len(c) : ~ Good(f[k])}
  <1>1. ASSUME Bad # {} PROVE FALSE
    <2>0. Bad \subseteq Nat
      OBVIOUS
    <2>1. PICK k \in Bad : \A l \in Bad : k <= l
      <3> HIDE DEF Bad
      <3> QED
        BY <1>1, <2>0, LeastNat
    <2>2. f[k] = IF k = 1 THEN <<c[1]>>
                 ELSE IF Joins(c[k], f[k - 1])
                 THEN Append(f[k - 1], c[k]) ELSE f[k - 1]
      BY <2>1, SelectionsUnfold DEF IsSelection
    <2>3. CASE k = 1
      <3> DEFINE m == <<c[1]>>
      <3>1. c[1] \in Ticket /\ 1 \in DOMAIN c
        BY <2>1
      <3>2. /\ m \in Seq(Ticket) /\ m # <<>> /\ Len(m) = 1
            /\ DOMAIN m = {1} /\ m[1] = c[1]
        BY <3>1
      <3>3. f[k] = m
        BY <2>2, <2>3
      <3> HIDE DEF m, f
      <3>4. Allowed(m) /\ Range(m) \subseteq Range(c)
        BY <3>1, <3>2, LimitAssumption DEF Range, Allowed
      <3> QED
        BY <2>1, <3>2, <3>3, <3>4
    <2>4. CASE k # 1
      <3>1. k - 1 \in 1 .. Len(c) /\ Good(f[k - 1]) /\ c[k] \in Ticket /\ c[k] \in Range(c)
        BY <2>1, <2>4 DEF Range
      <3>2. CASE ~ Joins(c[k], f[k - 1])
        BY <2>1, <2>2, <2>4, <3>1, <3>2
      <3>3. CASE Joins(c[k], f[k - 1])
        <4> DEFINE old == f[k - 1]
                   new == Append(old, c[k])
        <4>1. /\ old \in Seq(Ticket) /\ Len(old) < MemberLimit
              /\ c[k] \notin Protected
              /\ \A i \in DOMAIN old : {c[k], old[i]} \notin Incompatible
              /\ \A i \in DOMAIN old : old[i] \notin Protected
          BY <3>1, <3>3 DEF Joins
        <4>2. /\ new \in Seq(Ticket) /\ Len(new) = Len(old) + 1 /\ new # <<>>
              /\ DOMAIN new = 1 .. Len(old) + 1 /\ DOMAIN old = 1 .. Len(old)
              /\ \A i \in 1 .. Len(old) : new[i] = old[i]
              /\ new[Len(old) + 1] = c[k]
          BY <3>1, <4>1
        <4>3. Range(new) \subseteq Range(c)
          <5>1. \A i \in DOMAIN new : new[i] \in Range(old) \cup {c[k]}
            BY <4>2 DEF Range
          <5>2. Range(old) \subseteq Range(c)
            BY <3>1
          <5> QED
            BY <3>1, <5>1, <5>2 DEF Range
        <4>4. Len(old) \in Nat /\ MemberLimit \in Nat /\ Allowed(old)
          BY <3>1, LimitAssumption
        <4>5. f[k] = new
          BY <2>2, <2>4, <3>3
        <4> HIDE DEF new, old, f
        <4>6. Allowed(new)
          BY <4>1, <4>2, <4>4 DEF Allowed
        <4>7. \A i \in DOMAIN new : new[i] \notin Protected
          BY <4>1, <4>2, <4>4
        <4> QED
          BY <2>1, <4>2, <4>3, <4>5, <4>6, <4>7
      <3> QED
        BY <3>2, <3>3
    <2> QED
      BY <2>3, <2>4
  <1> QED
    BY <1>1

\* form_batch_members: whatever is offered, a Batch is a non-empty selection of
\* the Candidates within the member limit, a Candidate that requires a Singleton
\* is alone in it, and its members are pairwise compatible.
THEOREM FormationIsSound ==
    ASSUME NEW c \in Seq(Ticket), c # <<>>
    PROVE  LET m == FormBatchMembers(c)
           IN  m \in Seq(Ticket) /\ m # <<>> /\ Range(m) \subseteq Range(c) /\ Allowed(m)
  <1>1. Len(c) \in Nat /\ Len(c) >= 1 /\ c[1] \in Ticket /\ Head(c) = c[1] /\ c[1] \in Range(c)
    BY DEF Range
  <1>2. CASE c[1] \in Protected
    BY <1>1, <1>2, LimitAssumption DEF FormBatchMembers, Range, Allowed
  <1>3. CASE c[1] \notin Protected
    <2>1. FormBatchMembers(c) = Selections(c)[Len(Selections(c))]
      BY <1>1, <1>3 DEF FormBatchMembers, Last
    <2>2. DOMAIN Selections(c) = 1 .. Len(c)
      BY SelectionsUnfold DEF IsSelection
    <2>3. Len(Selections(c)) = Len(c)
      BY <1>1, <2>2
    <2> QED
      BY <1>1, <1>3, <2>1, <2>3, SelectedFacts
  <1> QED
    BY <1>2, <1>3
------------------------------------------------------------------------------
(* The invariant.                                                          *)

GoodMembers(r, m) ==
    m \in Seq(Ticket) /\ m # <<>> /\ Range(m) \subseteq Range(Offered[r])

\* What a record of action a says of the ref, the published SHA, the receipt
\* and the merge of a.
RecordOk(a, rec, made, public, commits, outcomes) ==
    /\ rec.phase = "absent" => rec = NoRecord
    /\ rec.phase # "absent" =>
          /\ GoodMembers(a.request, rec.members)
          /\ DOMAIN rec.status = DOMAIN rec.members
          /\ a.ticket # Whole => rec.members = <<a.ticket>> /\ a \in made
    /\ a.ticket # Whole => rec.generation = 0
    /\ rec.generation = 1 => rec.phase \in Settled /\ commits[a] = 0
    /\ rec.generation = 0 =>
          /\ rec.phase \in {"local_checked", "published", "hosted", "wait", "complete"} =>
                a \in made
          /\ rec.phase \in {"published", "hosted", "wait", "complete"} => a \in public
          /\ rec.phase = "complete" => commits[a] # 0
          /\ \A i \in DOMAIN rec.status :
                /\ rec.status[i] = "integrated" => commits[a] # 0
                /\ rec.status[i] = "resume_required" => rec.phase = "decision"
    /\ rec.phase = "hosted" => outcomes[a] = "passed"
    /\ commits[a] # 0 =>
          /\ rec.phase \in {"hosted", "complete", "blocked"}
          /\ a \in made /\ a \in public /\ outcomes[a] = "passed"
    /\ rec.waits = "retry" => rec.retries >= 1

RecordInv(a, rec) == RecordOk(a, rec, refs, published, merged, receipts)

\* What the record p of a request says of its Singletons.
ParentQueue(r, p, recs) ==
    LET child(i) == recs[Child(r, p.members[i])]
    IN  /\ p.generation = 0 => p.built = 0 /\ p.intent = NoTarget /\ ~ p.ready
        /\ p.generation = 1 =>
              /\ p.built <= Len(p.members)
              /\ p.intent # NoTarget => p.built < Len(p.members)
              /\ p.ready => p.built = Len(p.members)
              /\ \A i \in 1 .. p.built : child(i).phase # "absent"
              /\ p.ready /\ p.phase = "wait" => p.next \in 1 .. Len(p.members)
              /\ p.phase = "complete" =>
                    \A i \in DOMAIN p.status : p.status[i] = "integrated"
              /\ \A i \in DOMAIN p.status :
                    /\ p.status[i] = "integrated" => child(i).phase = "complete"
                    /\ p.status[i] = "resume_required" => child(i).phase = "decision"
        /\ ~ p.ready => p.next = 1

QueueOk(r, recs) ==
    /\ \A t \in Range(Offered[r]) :
          recs[Child(r, t)].phase # "absent" => recs[Parent(r)].generation = 1
    /\ ParentQueue(r, recs[Parent(r)], recs)

QueueInv(r) == QueueOk(r, records)

\* A Batch that does not compose has no ref: it is dissolved by the write that
\* follows its record, whoever makes it.
ComposeInv(r) ==
    Conflicts(r) =>
        /\ Parent(r) \notin refs
        /\ \/ records[Parent(r)].phase \in {"absent", "prepared"}
           \/ records[Parent(r)].generation = 1

RequestInv(r) ==
    /\ \A a \in Action : a.request = r => RecordInv(a, records[a])
    /\ QueueInv(r) /\ ComposeInv(r)

Preparing == {"freeze", "compose", "create"}
Queueing == {"queue", "build", "append"}
Merging == {"integrate", "verify", "release", "mismatch"}
Stepping == {"step", "commit"} \cup Merging
Completed(rec) ==
    [rec EXCEPT !.phase = "complete", !.status = [i \in DOMAIN @ |-> "integrated"]]

\* What a process knows at each of its steps.  Only a Singleton's record is
\* its own: that of its request may have been written by the other process.
Current(q) == q \notin overtaken \/ Work(q) # Parent(q.request)

WorkInv(q) ==
    /\ proc[q].pc # "idle" => Work(q) \in Action /\ Work(q).request = q.request
    /\ proc[q].pc \in Preparing \cup Queueing => Work(q) = Parent(q.request)
    /\ proc[q].pc \in Queueing \cup Stepping \cup {"fold"} =>
          Rec(q).phase # "absent" /\ (Current(q) => Rec(q) = records[Work(q)])

\* A probe executes nothing, and goes beyond preparation only to dissolve a
\* Batch that does not compose.  No other Batch has two writers.
RoleInv(q) ==
    /\ q.role = "owner" /\ ~ Conflicts(q.request) => q \notin overtaken
    /\ q.role = "probe" => proc[q].pc \notin Stepping \cup {"fold"}
    /\ q.role = "probe" /\ proc[q].pc \in Queueing => Conflicts(q.request)

PrepareInv(q) ==
    /\ q.role = "owner" /\ proc[q].pc \in Preparing /\ ~ Conflicts(q.request) =>
          records[Parent(q.request)].phase \in {"absent", "prepared"}
    /\ proc[q].pc = "create" /\ ~ Conflicts(q.request) => Parent(q.request) \in refs

BuildInv(q) ==
    /\ proc[q].pc = "queue" =>
          Rec(q).generation = 1 \/ Rec(q).phase \in {"prepared", "published"}
    /\ proc[q].pc \in {"build", "append"} =>
          /\ Rec(q).generation = 1 /\ Rec(q).phase = "wait" /\ ~ Rec(q).ready
          /\ GoodMembers(q.request, Rec(q).members)
          /\ Rec(q).intent # NoTarget => Rec(q).built < Len(Rec(q).members)
          /\ records[Parent(q.request)].generation = 1
    /\ proc[q].pc = "append" =>
          /\ Rec(q).intent # NoTarget
          /\ records[Child(q.request, Rec(q).members[Rec(q).built + 1])].phase # "absent"

StepInv(q) ==
    LET pc == proc[q].pc
        next == proc[q].next
    IN  /\ pc \in Stepping =>
              /\ Rec(q).generation = 0 /\ Rec(q).phase \notin Terminal /\ Work(q) \in refs
              /\ Conflicts(q.request) => Work(q) # Parent(q.request)
        /\ pc \in Merging => Rec(q).phase = "hosted"
        /\ pc \in Merging \ {"integrate"} => merged[Work(q)] # 0
        /\ pc \in Merging \ {"mismatch"} => lease = Work(q)
        /\ pc = "release" => next = NoRecord \/ next = Completed(Rec(q))
        /\ pc = "commit" =>
              /\ RecordInv(Work(q), next)
              /\ next.phase \notin {"absent", "prepared"}
              /\ next.generation = 0 /\ next.members = Rec(q).members
              /\ next.built = Rec(q).built /\ next.intent = Rec(q).intent
              /\ next.ready = Rec(q).ready /\ next.next = Rec(q).next

ChildInv(q) ==
    LET p == records[Parent(q.request)]
    IN  /\ proc[q].pc = "fold" => Work(q) # Parent(q.request) /\ Rec(q).phase \in Settled
        /\ proc[q].pc # "idle" /\ Work(q) # Parent(q.request) =>
              /\ p.generation = 1
              /\ q \notin overtaken =>
                    /\ p.ready /\ p.phase = "wait"
                    /\ Work(q) = Child(q.request, p.members[p.next])

ProcInv(q) ==
    /\ WorkInv(q) /\ RoleInv(q) /\ PrepareInv(q)
    /\ BuildInv(q) /\ StepInv(q) /\ ChildInv(q)

IInv ==
    /\ TypeOK
    /\ \A r \in Request : RequestInv(r)
    /\ \A q \in Process : ProcInv(q)

------------------------------------------------------------------------------
(* Actions and requests.                                                   *)

LEMMA ActionNames ==
    /\ \A r \in Request :
          /\ Parent(r) \in Action /\ Parent(r).request = r /\ Parent(r).ticket = Whole
          /\ \A t \in Range(Offered[r]) :
                /\ Child(r, t) \in Action /\ Child(r, t).request = r
                /\ Child(r, t).ticket = t /\ t # Whole /\ t \in Ticket
                /\ Child(r, t) # Parent(r)
    /\ \A a \in Action :
          /\ a.request \in Request
          /\ a = Parent(a.request) \/ \E t \in Range(Offered[a.request]) : a = Child(a.request, t)
          /\ a # Nobody
  <1>1. \A r \in Request : Range(Offered[r]) \subseteq Ticket
    BY OfferedAssumption DEF Range
  <1>2. \A r \in Request : Parent(r) \in Action
    BY DEF Action, Parents
  <1>3. \A r \in Request : \A t \in Range(Offered[r]) : Child(r, t) \in Action
    BY DEF Action, Children, Range
  <1>4. ASSUME NEW a \in Action
        PROVE  /\ a.request \in Request
               /\ a = Parent(a.request) \/ \E t \in Range(Offered[a.request]) : a = Child(a.request, t)
    <2>1. CASE a \in Parents
      BY <2>1 DEF Parents, Parent
    <2>2. CASE a \in Children
      <3>1. PICK r \in Request : a \in {Child(r, Offered[r][i]) : i \in DOMAIN Offered[r]}
        BY <2>2, Zenon DEF Children
      <3>2. PICK i \in DOMAIN Offered[r] : a = Child(r, Offered[r][i])
        BY <3>1
      <3>3. a.request = r /\ Offered[r][i] \in Range(Offered[r])
        BY <3>2 DEF Child, Range
      <3> QED
        BY <3>2, <3>3
    <2> QED
      BY <2>1, <2>2 DEF Action
  <1>5. \A r \in Request : Parent(r).request = r /\ Parent(r).ticket = Whole
    BY DEF Parent
  <1>6. \A r \in Request : \A t \in Range(Offered[r]) :
          /\ Child(r, t).request = r /\ Child(r, t).ticket = t
          /\ t \in Ticket /\ t # Whole /\ Child(r, t) # Parent(r)
    BY <1>1, <1>5, NameAssumption DEF Child
  <1>7. \A a \in Action : a # Nobody
    BY <1>4, NameAssumption DEF Nobody
  <1> QED
    BY <1>2, <1>3, <1>4, <1>5, <1>6, <1>7

\* The members of a request's record name actions of the request.
LEMMA MemberNames ==
    ASSUME NEW r \in Request, NEW m, GoodMembers(r, m), NEW i \in DOMAIN m
    PROVE  /\ Child(r, m[i]) \in Action /\ Child(r, m[i]).request = r
           /\ Child(r, m[i]) # Parent(r) /\ Child(r, m[i]).ticket = m[i] /\ m[i] # Whole
           /\ m[i] \in Range(Offered[r]) /\ m[i] \in Ticket
  <1>1. m[i] \in Range(Offered[r])
    BY DEF GoodMembers, Range
  <1> QED
    BY <1>1, ActionNames

\* A request has two processes.
LEMMA ProcessNames ==
    /\ \A q \in Process :
          /\ q.request \in Request /\ q.role \in {"owner", "probe"}
          /\ Other(q) \in Process /\ Other(q).request = q.request /\ Other(q) # q
          /\ Other(q).role # q.role
          /\ \A s \in Process : s.request = q.request => s = q \/ s = Other(q)
          /\ q.role = "owner" => q = Owner(q.request)
    /\ \A r \in Request :
          /\ Owner(r) \in Process /\ Owner(r).request = r /\ Owner(r).role = "owner"
          /\ Prober(r) \in Process /\ Prober(r).request = r /\ Prober(r).role = "probe"
  <1>1. \A q \in Process :
           /\ q.request \in Request /\ q.role \in {"owner", "probe"}
           /\ q = [request |-> q.request, role |-> q.role]
    BY DEF Process, Role
  <1>2. \A r \in Request :
           /\ Owner(r) \in Process /\ Owner(r).request = r /\ Owner(r).role = "owner"
           /\ Prober(r) \in Process /\ Prober(r).request = r /\ Prober(r).role = "probe"
    BY DEF Process, Role, Owner, Prober
  <1>3. \A q \in Process :
           \/ q.role = "owner" /\ q = Owner(q.request)
           \/ q.role = "probe" /\ q = Prober(q.request)
    BY <1>1 DEF Owner, Prober
  <1> QED
    BY <1>1, <1>2, <1>3 DEF Other

------------------------------------------------------------------------------
(* What a step leaves alone.                                               *)

\* The facts about an action that a record relies on.
Grows(a) ==
    /\ a \in refs => a \in refs'
    /\ a \in published => a \in published'
    /\ receipts[a] = "passed" => receipts'[a] = "passed"
    /\ merged'[a] = merged[a]

LEMMA RecordGrows ==
    ASSUME NEW a, NEW rec, NEW R, NEW P, NEW M, NEW Q, NEW R2, NEW P2, NEW M2, NEW Q2,
           a \in R => a \in R2, a \in P => a \in P2, M2[a] = M[a],
           Q[a] = "passed" => Q2[a] = "passed", RecordOk(a, rec, R, P, M, Q)
    PROVE  RecordOk(a, rec, R2, P2, M2, Q2)
  BY DEF RecordOk

\* What is done beside the process q, by the other process of its request or
\* by anyone else, and leaves what q knows true.
Aside(q) ==
    LET parent == Parent(q.request)
    IN  /\ proc'[q] = proc[q] /\ conflicting' = conflicting
        /\ q \in overtaken => q \in overtaken'
        /\ q \in overtaken' => q \in overtaken \/ q.role = "probe" \/ Conflicts(q.request)
        /\ \A a \in Action : a.request = q.request =>
              /\ a \in refs => a \in refs'
              /\ records[a].phase # "absent" => records'[a].phase # "absent"
              /\ q.role = "owner" =>
                    /\ Grows(a) /\ (lease = a => lease' = a)
                    /\ a # parent /\ records[a].phase # "absent" => records'[a] = records[a]
        /\ records[parent].generation = 1 => records'[parent].generation = 1
        /\ \/ records'[parent] = records[parent]
           \/ q \in overtaken' \/ proc[q].pc \in Preparing \cup {"idle"}
        /\ q.role = "owner" /\ ~ Conflicts(q.request) =>
              \/ records'[parent] = records[parent]
              \/ records[parent].phase = "absent" /\ records'[parent].phase = "prepared"

\* The part of the state a request and its processes rely on.
Kept(r) ==
    /\ \A a \in Action : a.request = r =>
          records'[a] = records[a] /\ Grows(a) /\ (a \in refs' <=> a \in refs)
    /\ \A q \in Process : q.request = r =>
          proc'[q] = proc[q] /\ (q \in overtaken' <=> q \in overtaken)
    /\ conflicting' = conflicting
    /\ \A a \in Action : a.request = r /\ lease = a => lease' = a

LEMMA QueueKept ==
    ASSUME NEW r \in Request, NEW recs, NEW recs2,
           \A a \in Action : a.request = r => recs2[a] = recs[a],
           GoodMembers(r, recs[Parent(r)].members) \/ recs[Parent(r)] = NoRecord,
           DOMAIN recs[Parent(r)].status = DOMAIN recs[Parent(r)].members,
           recs[Parent(r)].built \in Nat,
           QueueOk(r, recs)
    PROVE  QueueOk(r, recs2)
  <1> DEFINE p == recs[Parent(r)]
  <1>1. recs2[Parent(r)] = p
    BY ActionNames
  <1>2. \A t \in Range(Offered[r]) : recs2[Child(r, t)] = recs[Child(r, t)]
    BY ActionNames
  <1>3. \A i \in DOMAIN p.members : recs2[Child(r, p.members[i])] = recs[Child(r, p.members[i])]
    <2>1. CASE GoodMembers(r, p.members)
      BY <2>1, MemberNames
    <2>2. CASE p = NoRecord
      BY <2>2 DEF NoRecord
    <2> QED
      BY <2>1, <2>2
  <1>4. p.built <= Len(p.members) => \A i \in 1 .. p.built : i \in DOMAIN p.members
    BY DEF GoodMembers, NoRecord
  <1> HIDE DEF p
  <1> QED
    BY <1>1, <1>2, <1>3, <1>4 DEF QueueOk, ParentQueue, p

\* The shape of the record of a request.
LEMMA ParentShape ==
    ASSUME TypeOK, NEW r \in Request, RequestInv(r)
    PROVE  LET p == records[Parent(r)]
           IN  /\ GoodMembers(r, p.members) \/ p = NoRecord
               /\ DOMAIN p.status = DOMAIN p.members
               /\ p.built \in Nat /\ p \in Record
               /\ p.phase # "absent" => GoodMembers(r, p.members)
  <1>1. RecordOk(Parent(r), records[Parent(r)], refs, published, merged, receipts)
    BY ActionNames DEF RequestInv, RecordInv
  <1>2. records[Parent(r)] \in Record
    BY ActionNames DEF TypeOK
  <1>3. NoRecord.members = <<>> /\ NoRecord.status = <<>>
    BY DEF NoRecord
  <1>4. Parent(r).request = r
    BY ActionNames
  <1> QED
    BY <1>1, <1>2, <1>3, <1>4 DEF RecordOk, Record

LEMMA RecordsKept ==
    ASSUME TypeOK, NEW r \in Request, RequestInv(r),
           \A a \in Action : a.request = r => records'[a] = records[a] /\ Grows(a)
    PROVE  /\ \A a \in Action : a.request = r => RecordInv(a, records[a])'
           /\ QueueInv(r)'
  <1>1. ASSUME NEW a \in Action, a.request = r PROVE RecordInv(a, records[a])'
    BY <1>1, RecordGrows DEF RequestInv, RecordInv, Grows
  <1>2. QueueInv(r)'
    BY QueueKept, ParentShape DEF RequestInv, QueueInv
  <1> QED
    BY <1>1, <1>2

LEMMA ComposeKept ==
    ASSUME NEW r \in Request, ComposeInv(r), conflicting' = conflicting,
           records'[Parent(r)] = records[Parent(r)],
           Conflicts(r) /\ Parent(r) \notin refs => Parent(r) \notin refs'
    PROVE  ComposeInv(r)'
  BY DEF ComposeInv, Conflicts

\* A process keeps what it knows while others step.
LEMMA AsideKeeps ==
    ASSUME TypeOK, NEW r \in Request, NEW q \in Process, q.request = r,
           RequestInv(r), ProcInv(q), Aside(q)
    PROVE  ProcInv(q)'
  <1> DEFINE parent == Parent(r)
  <1>1. /\ proc'[q] = proc[q] /\ Work(q)' = Work(q) /\ Rec(q)' = Rec(q)
        /\ (Conflicts(r)' <=> Conflicts(r))
        /\ parent \in Action /\ parent.request = r /\ q.role \in {"owner", "probe"}
    BY ActionNames, ProcessNames DEF Aside, Work, Rec, Conflicts
  <1>2. /\ q \in overtaken => q \in overtaken'
        /\ q \in overtaken' => q \in overtaken \/ q.role = "probe" \/ Conflicts(r)
        /\ records[parent].generation = 1 => records'[parent].generation = 1
        /\ \/ records'[parent] = records[parent]
           \/ q \in overtaken' \/ proc[q].pc \in Preparing \cup {"idle"}
        /\ q.role = "owner" /\ ~ Conflicts(r) =>
              \/ records'[parent] = records[parent]
              \/ records[parent].phase = "absent" /\ records'[parent].phase = "prepared"
    BY DEF Aside
  <1>3. \A a \in Action : a.request = r =>
          /\ a \in refs => a \in refs'
          /\ records[a].phase # "absent" => records'[a].phase # "absent"
          /\ q.role = "owner" =>
                /\ Grows(a) /\ (lease = a => lease' = a)
                /\ a # parent /\ records[a].phase # "absent" => records'[a] = records[a]
    BY DEF Aside
  <1>4. /\ WorkInv(q) /\ RoleInv(q) /\ PrepareInv(q) /\ BuildInv(q) /\ StepInv(q)
        /\ ChildInv(q)
    BY DEF ProcInv
  <1>5. Current(q)' => Current(q)
    BY <1>1, <1>2 DEF Current
  <1>6. proc[q].pc \in Queueing \cup Stepping \cup {"fold"} => proc[q].pc \notin Preparing \cup {"idle"}
    BY DEF Preparing, Queueing, Stepping, Merging
  <1>7. RoleInv(q)'
    BY <1>1, <1>2, <1>4 DEF RoleInv
  <1>8. WorkInv(q)'
    <2>1. ASSUME proc[q].pc \in Queueing \cup Stepping \cup {"fold"}, Current(q)'
          PROVE  Rec(q) = records'[Work(q)]
      <3>1. /\ Work(q) \in Action /\ Work(q).request = r /\ Rec(q) = records[Work(q)]
            /\ Rec(q).phase # "absent"
        BY <1>4, <1>5, <1>6, <2>1 DEF WorkInv
      <3>2. CASE Work(q) = parent
        <4>1. q \notin overtaken'
          BY <1>1, <2>1, <3>2 DEF Current
        <4> QED
          BY <1>2, <1>6, <2>1, <3>1, <3>2, <4>1
      <3>3. CASE Work(q) # parent
        <4>1. q.role = "owner"
          BY <1>1, <1>4, <2>1, <3>3 DEF RoleInv, WorkInv
        <4> QED
          BY <1>3, <3>1, <3>3, <4>1
      <3> QED
        BY <3>2, <3>3
    <2> QED
      BY <1>1, <1>4, <2>1 DEF WorkInv
  <1>9. PrepareInv(q)'
    BY <1>1, <1>2, <1>3, <1>4 DEF PrepareInv
  <1>10. BuildInv(q)'
    <2>1. CASE proc[q].pc # "append"
      BY <1>1, <1>2, <1>4, <2>1 DEF BuildInv
    <2>2. CASE proc[q].pc = "append"
      <3>1. /\ GoodMembers(r, Rec(q).members) /\ Rec(q).built < Len(Rec(q).members)
            /\ Rec(q).built \in Nat
        <4>1. Rec(q) \in Record
          BY DEF TypeOK, Rec
        <4> QED
          BY <1>4, <2>2, <4>1 DEF BuildInv, Record
      <3>2. Rec(q).built + 1 \in DOMAIN Rec(q).members
        BY <3>1 DEF GoodMembers
      <3>3. LET c == Child(r, Rec(q).members[Rec(q).built + 1])
            IN  c \in Action /\ c.request = r
        BY <3>1, <3>2, MemberNames
      <3> QED
        BY <1>1, <1>2, <1>3, <1>4, <2>2, <3>3 DEF BuildInv
    <2> QED
      BY <2>1, <2>2
  <1>11. StepInv(q)'
    <2>1. proc[q].pc \in Stepping =>
             /\ Work(q) \in Action /\ Work(q).request = r
             /\ Grows(Work(q)) /\ (lease = Work(q) => lease' = Work(q))
      <3>1. proc[q].pc \in Stepping => proc[q].pc # "idle" /\ q.role = "owner"
        BY <1>1, <1>4 DEF RoleInv, Stepping, Merging
      <3> QED
        BY <1>3, <1>4, <3>1 DEF WorkInv
    <2>2. proc[q].pc = "commit" => RecordInv(Work(q), proc[q].next)'
      <3>1. SUFFICES ASSUME proc[q].pc = "commit"
                     PROVE  RecordOk(Work(q), proc[q].next, refs, published, merged, receipts)'
        BY DEF RecordInv
      <3>2. RecordOk(Work(q), proc[q].next, refs, published, merged, receipts) /\ Grows(Work(q))
        BY <1>4, <2>1, <3>1 DEF StepInv, RecordInv, Stepping
      <3> QED
        BY <1>1, <3>2, RecordGrows DEF Grows
    <2> QED
      BY <1>1, <1>4, <2>1, <2>2 DEF StepInv, Grows, Stepping, Merging
  <1>12. ChildInv(q)'
    <2>1. ASSUME proc[q].pc # "idle", Work(q) # parent, q \notin overtaken'
          PROVE  records'[parent] = records[parent]
      BY <1>2, <1>4, <2>1 DEF WorkInv
    <2> QED
      BY <1>1, <1>2, <1>4, <2>1 DEF ChildInv
  <1> QED
    BY <1>7, <1>8, <1>9, <1>10, <1>11, <1>12 DEF ProcInv

\* A request and its processes keep their invariants while others step.
LEMMA FrameKeeps ==
    ASSUME TypeOK, NEW r \in Request, RequestInv(r), Kept(r),
           \A q \in Process : q.request = r => ProcInv(q)
    PROVE  RequestInv(r)' /\ \A q \in Process : q.request = r => ProcInv(q)'
  <1>1. /\ \A a \in Action : a.request = r => RecordInv(a, records[a])'
        /\ QueueInv(r)'
    BY RecordsKept DEF Kept
  <1>2. ComposeInv(r)'
    BY ComposeKept, ActionNames DEF RequestInv, Kept
  <1>3. ASSUME NEW q \in Process, q.request = r PROVE ProcInv(q)'
    <2>1. Aside(q)
      BY <1>3, ActionNames DEF Kept, Aside
    <2> QED
      BY <1>3, <2>1, AsideKeeps
  <1> QED
    BY <1>1, <1>2, <1>3 DEF RequestInv

------------------------------------------------------------------------------
(* A step of one process.                                                  *)

Local(q) ==
    /\ \A a \in Action : a.request # q.request =>
          records'[a] = records[a] /\ Grows(a) /\ (a \in refs' <=> a \in refs)
    /\ \A s \in Process \ {q} : proc'[s] = proc[s]
    /\ \A s \in Process : s.request # q.request => (s \in overtaken' <=> s \in overtaken)
    /\ conflicting' = conflicting
    /\ lease' = lease \/ lease = Nobody \/ lease.request = q.request

LEMMA LocalKeeps ==
    ASSUME IInv, NEW r \in Request, NEW q \in Process, q.request = r, Local(q),
           Aside(Other(q)), TypeOK', RequestInv(r)', ProcInv(q)'
    PROVE  IInv'
  <1>1. ASSUME NEW s \in Request, s # r
        PROVE  RequestInv(s)' /\ \A p \in Process : p.request = s => ProcInv(p)'
    <2>1. Kept(s)
      BY <1>1, ActionNames DEF Local, Kept
    <2>2. TypeOK /\ RequestInv(s) /\ \A p \in Process : p.request = s => ProcInv(p)
      BY DEF IInv
    <2> QED
      BY <2>1, <2>2, FrameKeeps
  <1>2. ProcInv(Other(q))'
    <2>1. /\ Other(q) \in Process /\ Other(q).request = r /\ TypeOK /\ RequestInv(r)
          /\ ProcInv(Other(q))
      BY ProcessNames DEF IInv
    <2>2. PICK o \in Process : o = Other(q)
      BY <2>1
    <2>3. ProcInv(o)'
      BY <2>1, <2>2, AsideKeeps
    <2> QED
      BY <2>2, <2>3
  <1>3. ASSUME NEW p \in Process PROVE ProcInv(p)'
    <2>1. CASE p.request # r
      BY <1>1, <2>1, ProcessNames
    <2>2. CASE p.request = r
      <3>1. p = q \/ p = Other(q)
        BY <2>2, ProcessNames
      <3>2. PICK o \in Process : o = Other(q)
        BY ProcessNames
      <3> QED
        BY <1>2, <3>1, <3>2
    <2> QED
      BY <2>1, <2>2
  <1> QED
    BY <1>1, <1>3 DEF IInv

\* Steps that write no record.
LEMMA QuietStep ==
    ASSUME IInv, NEW r \in Request, NEW q \in Process, q.request = r,
           records' = records, conflicting' = conflicting,
           lease' = lease \/ (q.role = "owner" /\ (lease = Nobody \/ lease.request = r)),
           refs \subseteq refs', refs' \subseteq refs \cup {Parent(r)},
           Conflicts(r) => refs' = refs,
           published \subseteq published', merged' = merged,
           \A a \in Action : receipts[a] = "passed" => receipts'[a] = "passed",
           \A s \in Process \ {q} : proc'[s] = proc[s],
           \A s \in Process \ {q} : s \in overtaken' <=> s \in overtaken,
           TypeOK', ProcInv(q)'
    PROVE  IInv'
  <1>1. \A a \in Action : Grows(a)
    BY DEF Grows
  <1>2. Local(q)
    BY <1>1, ActionNames DEF Local
  <1>3. /\ \A a \in Action : a.request = r => RecordInv(a, records[a])'
        /\ QueueInv(r)'
    BY <1>1, RecordsKept DEF IInv
  <1>4. ComposeInv(r)'
    BY ComposeKept DEF IInv, RequestInv
  <1>5. Aside(Other(q))
    BY <1>1, ProcessNames DEF Aside
  <1> QED
    BY <1>2, <1>3, <1>4, <1>5, LocalKeeps DEF RequestInv

ProcType ==
    [pc : Pcs, work : Action \cup {Nobody}, rec : Record, next : Record,
     preparing : BOOLEAN]

LEMMA BasicTypes ==
    /\ NoRecord \in Record /\ Idle \in ProcType
    /\ \A m \in Seq(Ticket), target \in Nat : NewRecord(m, target) \in Record
  <1>1. NoRecord \in Record
    BY LimitAssumption DEF NoRecord, Record, Phases, NoTarget
  <1>2. Idle \in ProcType
    BY <1>1 DEF Idle, ProcType, Pcs
  <1>3. ASSUME NEW m \in Seq(Ticket), NEW target \in Nat
        PROVE  NewRecord(m, target) \in Record
    <2>1. [i \in DOMAIN m |-> "preserved"] \in Seq(Statuses)
      BY DEF Statuses
    <2> QED
      BY <1>1, <2>1 DEF NewRecord, NoRecord, Record, Phases
  <1> QED
    BY <1>1, <1>2, <1>3

LEMMA ProcWrites ==
    ASSUME TypeOK, NEW q \in Process, NEW x \in ProcType, proc' = [proc EXCEPT ![q] = x]
    PROVE  /\ proc' \in [Process -> ProcType] /\ proc'[q] = x
           /\ \A s \in Process \ {q} : proc'[s] = proc[s]
  BY DEF TypeOK, ProcType

LEMMA GotoWrites ==
    ASSUME TypeOK, NEW q \in Process, NEW pc \in Pcs, Goto(q, pc)
    PROVE  /\ proc' \in [Process -> ProcType]
           /\ \A s \in Process \ {q} : proc'[s] = proc[s]
           /\ proc'[q].pc = pc /\ proc'[q].work = proc[q].work
           /\ proc'[q].rec = proc[q].rec /\ proc'[q].next = proc[q].next
  <1>1. proc[q] \in ProcType
    BY DEF TypeOK, ProcType
  <1>2. [proc[q] EXCEPT !.pc = pc] \in ProcType
    BY <1>1 DEF ProcType
  <1>3. proc' = [proc EXCEPT ![q] = [proc[q] EXCEPT !.pc = pc]]
    BY DEF Goto
  <1> QED
    BY <1>1, <1>2, <1>3, ProcWrites DEF ProcType

LEMMA ProposeWrites ==
    ASSUME TypeOK, NEW q \in Process, NEW next \in Record, Propose(q, next)
    PROVE  /\ proc' \in [Process -> ProcType]
           /\ \A s \in Process \ {q} : proc'[s] = proc[s]
           /\ proc'[q].pc = "commit" /\ proc'[q].work = proc[q].work
           /\ proc'[q].rec = proc[q].rec /\ proc'[q].next = next
  <1>1. proc[q] \in ProcType
    BY DEF TypeOK, ProcType
  <1> DEFINE x == [proc[q] EXCEPT !.pc = "commit", !.next = next]
  <1>2. x \in ProcType
    BY <1>1 DEF ProcType, Pcs
  <1>3. proc' = [proc EXCEPT ![q] = x]
    BY <1>1 DEF Propose, TypeOK, ProcType
  <1>4. /\ x.pc = "commit" /\ x.work = proc[q].work /\ x.rec = proc[q].rec
        /\ x.next = next
    BY <1>1 DEF ProcType
  <1> HIDE DEF x
  <1> QED
    BY <1>2, <1>3, <1>4, ProcWrites

LEMMA ReturnWrites ==
    ASSUME TypeOK, NEW q \in Process, Return(q),
           q.role = "owner" /\ ~ Conflicts(q.request)' => q \notin overtaken'
    PROVE  /\ proc' \in [Process -> ProcType] /\ proc'[q] = Idle
           /\ \A s \in Process \ {q} : proc'[s] = proc[s]
           /\ ProcInv(q)'
  <1>1. /\ proc' \in [Process -> ProcType] /\ proc'[q] = Idle
        /\ \A s \in Process \ {q} : proc'[s] = proc[s]
    BY ProcWrites, BasicTypes DEF Return
  <1>2. proc'[q].pc = "idle"
    BY <1>1 DEF Idle
  <1>3. ProcInv(q)'
    BY <1>2 DEF ProcInv, WorkInv, RoleInv, PrepareInv, BuildInv, StepInv, ChildInv,
       Preparing, Queueing, Stepping, Merging
  <1> QED
    BY <1>1, <1>3

\* Where execute takes up a prepared request.
LEMMA ResumeProc ==
    ASSUME TypeOK', NEW r \in Request, NEW q \in Process, q.request = r,
           RequestInv(r)', q.role = "owner", q \notin overtaken',
           \A t \in Range(Offered[r]) : records'[Child(r, t)] = records[Child(r, t)],
           records'[Parent(r)].phase \notin Terminal \cup {"absent"},
           records'[Parent(r)].phase = "prepared" => Parent(r) \in refs',
           proc'[q] = Resume(r, Parent(r), records'[Parent(r)])
    PROVE  ProcInv(q)'
  <1> DEFINE p == records'[Parent(r)]
             x == proc'[q]
             c == Child(r, p.members[p.next])
  <1>1. /\ RecordOk(Parent(r), p, refs', published', merged', receipts')
        /\ p \in Record /\ Parent(r) \in Action /\ Parent(r).request = r
        /\ Parent(r).ticket = Whole
    BY ActionNames DEF RequestInv, RecordInv, TypeOK
  <1>2. /\ GoodMembers(r, p.members)
        /\ p.generation \in {0, 1}
        /\ p.generation = 1 => p.phase = "wait"
    BY <1>1 DEF RecordOk, Record, Settled
  <1>6. \A a \in Action : a.request = r => RecordInv(a, records[a])'
    BY DEF RequestInv
  <1>7. QueueInv(r)' /\ RoleInv(q)'
    BY <1>2 DEF RequestInv, RoleInv
  <1>3. CASE p.generation = 0
    <2>0. StepPc(Parent(r), p) = "step"
      BY <1>3 DEF StepPc
    <2>1. x = [Idle EXCEPT !.pc = StepPc(Parent(r), p), !.work = Parent(r), !.rec = p]
      <3>1. p.generation # 1
        BY <1>3
      <3> QED
        BY <3>1, Zenon DEF Resume
    <2>2. x.pc = "step" /\ x.work = Parent(r) /\ x.rec = p
      BY <2>0, <2>1 DEF Idle
    <2>3. Parent(r) \in refs'
      BY <1>1, <1>3 DEF RecordOk, Record, Phases, Settled, Terminal
    <2>4. ~ Conflicts(r)'
      BY <1>3, <2>3 DEF RequestInv, ComposeInv
    <2> HIDE DEF x, p
    <2> QED
      BY <1>1, <1>3, <1>7, <2>2, <2>3, <2>4
      DEF x, p, ProcInv, WorkInv, PrepareInv, BuildInv, StepInv, ChildInv, Preparing,
         Queueing, Stepping, Merging, Work, Rec
  <1>4. CASE p.generation = 1 /\ ~ p.ready
    <2>0. StepPc(Parent(r), p) = "build"
      BY <1>4 DEF StepPc
    <2>1. x = [Idle EXCEPT !.pc = StepPc(Parent(r), p), !.work = Parent(r), !.rec = p]
      BY <1>4, Zenon DEF Resume
    <2>2. x.pc = "build" /\ x.work = Parent(r) /\ x.rec = p
      BY <2>0, <2>1 DEF Idle
    <2>3. p.intent # NoTarget => p.built < Len(p.members)
      BY <1>4, <1>7 DEF QueueInv, QueueOk, ParentQueue
    <2> HIDE DEF x, p
    <2> QED
      BY <1>1, <1>2, <1>4, <1>7, <2>2, <2>3
      DEF x, p, ProcInv, WorkInv, PrepareInv, BuildInv, StepInv, ChildInv, Preparing,
         Queueing, Stepping, Merging, Work, Rec
  <1>5. CASE p.generation = 1 /\ p.ready
    <2>1. p.next \in DOMAIN p.members /\ p.next \in 1 .. p.built
      <3>1. p.next \in 1 .. Len(p.members) /\ p.built = Len(p.members)
        BY <1>7, <1>2, <1>5 DEF QueueInv, QueueOk, ParentQueue
      <3> QED
        BY <1>2, <3>1 DEF GoodMembers
    <2>2. /\ c \in Action /\ c.request = r /\ c # Parent(r) /\ c.ticket # Whole
          /\ p.members[p.next] \in Range(Offered[r])
      BY <1>2, <2>1, MemberNames
    <2>3. records'[c] = records[c] /\ records'[c].phase # "absent"
      BY <1>7, <1>5, <2>1, <2>2 DEF QueueInv, QueueOk, ParentQueue
    <2>4. RecordOk(c, records'[c], refs', published', merged', receipts')
      BY <1>6, <2>2 DEF RecordInv
    <2>5. /\ records'[c].generation = 0 /\ c \in refs'
          /\ records'[c].phase \in Phases
      BY <2>2, <2>3, <2>4 DEF RecordOk, TypeOK, Record
    <2>6. x = [Idle EXCEPT !.pc = IF records[c].phase \in Terminal THEN "fold" ELSE "step",
                           !.work = c, !.rec = records[c]]
      BY <1>5, <2>2, <2>3, <2>5 DEF Resume, StepPc
    <2>7. /\ x.pc = IF records'[c].phase \in Terminal THEN "fold" ELSE "step"
          /\ x.work = c /\ x.rec = records'[c]
      BY <2>3, <2>6 DEF Idle
    <2> HIDE DEF x, p, c
    <2>8. WorkInv(q)' /\ PrepareInv(q)' /\ BuildInv(q)'
      BY <2>2, <2>3, <2>7
      DEF x, WorkInv, PrepareInv, BuildInv, Preparing, Queueing, Stepping, Merging,
         Work, Rec
    <2>9. StepInv(q)'
      BY <2>2, <2>5, <2>7 DEF x, StepInv, Stepping, Merging, Work, Rec
    <2>10. ChildInv(q)'
      BY <1>2, <1>5, <2>2, <2>7 DEF x, p, c, ChildInv, Work, Rec, Settled
    <2> QED
      BY <1>7, <2>8, <2>9, <2>10 DEF ProcInv
  <1> QED
    BY <1>2, <1>3, <1>4, <1>5

LEMMA ResumeTyped ==
    ASSUME TypeOK, NEW r \in Request, NEW p \in Record,
           p.generation = 1 /\ p.ready => p.members[p.next] \in Range(Offered[r])
    PROVE  Resume(r, Parent(r), p) \in ProcType
  <1> DEFINE c == Child(r, p.members[p.next])
             work == IF p.generation = 1 /\ p.ready THEN c ELSE Parent(r)
             its == IF work = Parent(r) THEN p ELSE records[c]
  <1>1. work \in Action /\ (work # Parent(r) => work = c)
    BY ActionNames
  <1>2. its \in Record
    BY <1>1 DEF TypeOK
  <1>3. StepPc(work, its) \in Pcs
    BY DEF StepPc, Pcs
  <1>4. Resume(r, Parent(r), p) = [Idle EXCEPT !.pc = StepPc(work, its), !.work = work, !.rec = its]
    BY DEF Resume
  <1> HIDE DEF work, its
  <1> QED
    BY <1>1, <1>2, <1>3, <1>4, BasicTypes DEF Idle, ProcType

------------------------------------------------------------------------------
(* The steps that write no record.                                         *)

\* Who executes has the record in hand as it is.
LEMMA Working ==
    ASSUME IInv, NEW r \in Request, NEW q \in Process, q.request = r
    PROVE  /\ proc[q] \in ProcType /\ Rec(q) \in Record /\ proc[q].next \in Record
           /\ Parent(r) \in Action /\ Parent(r).request = r
           /\ RecordInv(Parent(r), records[Parent(r)])
           /\ proc[q].pc # "idle" => Work(q) \in Action /\ Work(q).request = r
           /\ proc[q].pc \in Queueing \cup Stepping \cup {"fold"} => Rec(q).phase # "absent"
           /\ proc[q].pc \in Stepping \cup {"fold"} => q.role = "owner" /\ Current(q)
           /\ proc[q].pc \in Queueing \cup Stepping \cup {"fold"} /\ Current(q) =>
                 Rec(q) = records[Work(q)] /\ RecordInv(Work(q), Rec(q))
  <1>1. proc[q] \in ProcType
    BY DEF IInv, TypeOK, ProcType
  <1>2. /\ \A a \in Action : a.request = r => RecordInv(a, records[a])
        /\ WorkInv(q) /\ RoleInv(q) /\ StepInv(q) /\ ChildInv(q)
    BY DEF IInv, RequestInv, ProcInv
  <1>3. Queueing \cup Stepping \cup {"fold"} \subseteq Pcs \ {"idle"}
    BY DEF Queueing, Stepping, Merging, Pcs
  <1>4. proc[q].pc \in Stepping \cup {"fold"} => q.role = "owner" /\ Current(q)
    BY <1>2, ProcessNames DEF RoleInv, StepInv, ChildInv, Current
  <1> QED
    BY <1>1, <1>2, <1>3, <1>4, ActionNames DEF ProcType, Work, Rec, WorkInv

\* A sound successor of the record of the action at hand.
Successor(a, rec, next, made, public, commits, outcomes) ==
    /\ next \in Record
    /\ RecordOk(a, next, made, public, commits, outcomes)
    /\ next.phase \notin {"absent", "prepared"}
    /\ next.generation = 0 /\ next.members = rec.members
    /\ next.built = rec.built /\ next.intent = rec.intent
    /\ next.ready = rec.ready /\ next.next = rec.next

LEMMA ProposeKeeps ==
    ASSUME IInv, NEW r \in Request, NEW q \in Process, q.request = r, NEW next, proc[q].pc = "step",
           records' = records, conflicting' = conflicting, overtaken' = overtaken,
           \A a \in Action : Grows(a), Propose(q, next),
           Successor(Work(q), Rec(q), next, refs', published', merged', receipts')
    PROVE  /\ ProcInv(q)' /\ proc' \in [Process -> ProcType]
           /\ \A s \in Process \ {q} : proc'[s] = proc[s]
  <1>1. /\ proc' \in [Process -> ProcType]
        /\ \A s \in Process \ {q} : proc'[s] = proc[s]
        /\ proc'[q].pc = "commit" /\ Work(q)' = Work(q) /\ Rec(q)' = Rec(q)
        /\ proc'[q].next = next
    BY ProposeWrites DEF IInv, Successor, Work, Rec
  <1>2. /\ Work(q) \in Action /\ Work(q).request = r
        /\ Rec(q) = records[Work(q)] /\ Rec(q).phase # "absent"
        /\ Rec(q).generation = 0 /\ Rec(q).phase \notin Terminal /\ Work(q) \in refs
        /\ q.role = "owner" /\ (Conflicts(r) => Work(q) # Parent(r))
        /\ (Conflicts(r)' <=> Conflicts(r))
    BY Working DEF IInv, ProcInv, StepInv, Stepping, Conflicts
  <1>3. WorkInv(q)' /\ PrepareInv(q)' /\ BuildInv(q)' /\ RoleInv(q)'
    BY <1>1, <1>2
    DEF WorkInv, PrepareInv, BuildInv, RoleInv, Preparing, Queueing, IInv, ProcInv
  <1>4. StepInv(q)'
    BY <1>1, <1>2 DEF StepInv, Merging, Grows, RecordInv, Successor
  <1>5. ChildInv(q)'
    BY <1>1 DEF IInv, ProcInv, ChildInv
  <1> QED
    BY <1>1, <1>3, <1>4, <1>5 DEF ProcInv

\* A step that goes on at another pc of the same step.
LEMMA StepGoto ==
    ASSUME IInv, NEW r \in Request, NEW q \in Process, q.request = r, NEW pc \in Stepping \ {"commit"}, proc[q].pc \in Stepping,
           records' = records, refs' = refs, conflicting' = conflicting,
           overtaken' = overtaken, Goto(q, pc),
           pc \in Merging => Rec(q).phase = "hosted",
           pc \in Merging \ {"integrate"} => merged'[Work(q)] # 0,
           pc \in Merging \ {"mismatch"} => lease' = Work(q),
           pc = "release" => proc[q].next = NoRecord \/ proc[q].next = Completed(Rec(q))
    PROVE  /\ ProcInv(q)' /\ proc' \in [Process -> ProcType]
           /\ \A s \in Process \ {q} : proc'[s] = proc[s]
  <1>0. pc \in Pcs /\ TypeOK
    BY DEF Pcs, Stepping, Merging, IInv
  <1>1. /\ proc' \in [Process -> ProcType]
        /\ \A s \in Process \ {q} : proc'[s] = proc[s]
        /\ proc'[q].pc = pc /\ Work(q)' = Work(q) /\ Rec(q)' = Rec(q)
        /\ proc'[q].next = proc[q].next
    BY <1>0, GotoWrites DEF Work, Rec
  <1>2. /\ Work(q) \in Action /\ Work(q).request = r
        /\ Rec(q) = records[Work(q)] /\ Rec(q).phase # "absent"
        /\ Rec(q).generation = 0 /\ Rec(q).phase \notin Terminal /\ Work(q) \in refs
        /\ q.role = "owner" /\ (Conflicts(r) => Work(q) # Parent(r))
        /\ (Conflicts(r)' <=> Conflicts(r))
    <2>1. proc[q].pc # "idle"
      BY DEF Stepping, Merging
    <2>2. StepInv(q)
      BY DEF IInv, ProcInv
    <2> QED
      BY <2>1, <2>2, Working DEF StepInv, Conflicts
  <1>3. pc \notin Preparing \cup Queueing \cup {"fold", "idle"} /\ proc[q].pc # "idle"
    BY DEF Preparing, Queueing, Stepping, Merging
  <1>4. WorkInv(q)' /\ PrepareInv(q)' /\ BuildInv(q)' /\ RoleInv(q)'
    BY <1>1, <1>2, <1>3
    DEF WorkInv, PrepareInv, BuildInv, RoleInv, Preparing, Queueing, IInv, ProcInv
  <1>5. StepInv(q)'
    BY <1>1, <1>2 DEF StepInv
  <1>6. ChildInv(q)'
    BY <1>1, <1>3 DEF IInv, ProcInv, ChildInv
  <1> QED
    BY <1>1, <1>4, <1>5, <1>6 DEF ProcInv

LEMMA QueueGoto ==
    ASSUME IInv, NEW r \in Request, NEW q \in Process, q.request = r, proc[q].pc = "step", records' = records,
           conflicting' = conflicting, overtaken' = overtaken, Goto(q, "queue"), Len(Rec(q).members) > 1,
           Rec(q).phase \in {"prepared", "published"}
    PROVE  /\ ProcInv(q)' /\ proc' \in [Process -> ProcType]
           /\ \A s \in Process \ {q} : proc'[s] = proc[s]
  <1>0. TypeOK
    BY DEF IInv
  <1>1. /\ proc' \in [Process -> ProcType]
        /\ \A s \in Process \ {q} : proc'[s] = proc[s]
        /\ proc'[q].pc = "queue" /\ Work(q)' = Work(q) /\ Rec(q)' = Rec(q)
    BY <1>0, GotoWrites DEF Work, Rec, Pcs
  <1>2. /\ Work(q) \in Action /\ Work(q).request = r
        /\ Rec(q) = records[Work(q)] /\ Rec(q).phase # "absent"
        /\ RecordInv(Work(q), Rec(q)) /\ q.role = "owner" /\ RoleInv(q)
    BY Working DEF Stepping, IInv, ProcInv
  <1>3. Work(q) = Parent(r)
    <2>1. ASSUME Work(q).ticket # Whole PROVE FALSE
      <3>1. Rec(q).members = <<Work(q).ticket>>
        BY <1>2, <2>1 DEF RecordInv, RecordOk
      <3> QED
        BY <3>1
    <2> QED
      BY <1>2, <2>1, ActionNames
  <1>4. /\ WorkInv(q)' /\ RoleInv(q)' /\ PrepareInv(q)' /\ BuildInv(q)'
        /\ StepInv(q)' /\ ChildInv(q)'
    BY <1>1, <1>2, <1>3
    DEF WorkInv, RoleInv, Conflicts, PrepareInv, BuildInv, StepInv, ChildInv, Preparing, Queueing, Stepping,
       Merging
  <1> QED
    BY <1>1, <1>4 DEF ProcInv

------------------------------------------------------------------------------
(* The steps that write no record keep the invariant.                      *)

LEMMA CrashKeeps ==
    ASSUME IInv, NEW r \in Request, NEW q \in Process, q.request = r, Crash(q)
    PROVE  IInv'
  <1>1. TypeOK /\ Return(q) /\ (q.role = "owner" /\ ~ Conflicts(r)' => q \notin overtaken')
    BY DEF IInv, Crash, ProcInv, RoleInv, Conflicts, journal
  <1>2. /\ proc' \in [Process -> ProcType] /\ ProcInv(q)'
        /\ \A s \in Process \ {q} : proc'[s] = proc[s]
    BY <1>1, ReturnWrites
  <1>3. UNCHANGED <<journal, refs, hosted, head, bound, conflicting>> 
        /\ faults' \in 0..MaxFault /\ orphaned' \in BOOLEAN
    BY <1>1, BatchBoundAssumption DEF Crash, TypeOK
  <1>4. TypeOK'
    BY <1>1, <1>2, <1>3 DEF TypeOK, ProcType, journal, hosted
  <1> QED
    BY <1>2, <1>3, <1>4, QuietStep DEF journal, hosted

\* A process that turns to the preparation of its request.
LEMMA PrepareProc ==
    ASSUME TypeOK, NEW r \in Request, NEW q \in Process, q.request = r,
           proc' = [proc EXCEPT ![q] = Prepares(r)], ~ Prepared(r),
           records' = records, q.role = "owner" => q \notin overtaken'
    PROVE  /\ proc' \in [Process -> ProcType] /\ ProcInv(q)'
           /\ \A s \in Process \ {q} : proc'[s] = proc[s]
  <1> DEFINE x == Prepares(r)
  <1>1. /\ x \in ProcType /\ x.pc \in {"freeze", "compose"} /\ x.work = Parent(r)
    BY BasicTypes, ActionNames DEF Prepares, Idle, ProcType, Pcs
  <1> HIDE DEF x
  <1>2. /\ proc' \in [Process -> ProcType] /\ proc'[q] = x
        /\ \A s \in Process \ {q} : proc'[s] = proc[s]
    BY <1>1, ProcWrites DEF x
  <1>3. records[Parent(r)].phase \in {"absent", "prepared"}
    BY DEF Prepared
  <1>4. ProcInv(q)'
    BY <1>1, <1>2, <1>3, ActionNames
    DEF ProcInv, WorkInv, RoleInv, PrepareInv, BuildInv, StepInv, ChildInv, Preparing,
       Queueing, Stepping, Merging, Work
  <1> QED
    BY <1>2, <1>4

LEMMA DeliverKeeps ==
    ASSUME IInv, NEW r \in Request, Deliver(r)
    PROVE  IInv'
  <1> DEFINE p == records[Parent(r)]
  <1>0. PICK q \in Process : q = Owner(r) /\ q.request = r /\ q.role = "owner"
    BY ProcessNames
  <1>1. TypeOK /\ RequestInv(r) /\ p.phase \notin Terminal /\ p \in Record
    BY ActionNames DEF IInv, Deliver, TypeOK
  <1>2. /\ UNCHANGED <<records, prepared, receipts, lease, refs, hosted, head, conflicting,
                       history>>
        /\ overtaken' = overtaken \ {q}
    BY <1>0 DEF Deliver, Reads
  <1>3. RequestInv(r)'
    <2>1. /\ \A a \in Action : a.request = r => RecordInv(a, records[a])'
          /\ QueueInv(r)'
      BY <1>1, <1>2, RecordsKept DEF hosted, Grows
    <2>2. ComposeInv(r)'
      BY <1>1, <1>2, ComposeKept DEF RequestInv
    <2> QED
      BY <2>1, <2>2 DEF RequestInv
  <1>4. bound' \in [Request -> Nat]
    BY <1>1 DEF Deliver, TypeOK
  <1>5. /\ proc' \in [Process -> ProcType] /\ ProcInv(q)'
        /\ \A s \in Process \ {q} : proc'[s] = proc[s]
    <2>1. CASE Prepared(r)
      <3>1. proc' = [proc EXCEPT ![q] = Resume(r, Parent(r), p)]
        BY <1>0, <2>1, Zenon DEF Deliver
      <3>2. p.phase \notin Terminal \cup {"absent"} /\ (p.phase = "prepared" => Parent(r) \in refs)
        BY <1>1, <2>1 DEF Prepared
      <3>3. p.generation = 1 /\ p.ready => p.members[p.next] \in Range(Offered[r])
        <4>1. SUFFICES ASSUME p.generation = 1, p.ready
                       PROVE  p.members[p.next] \in Range(Offered[r])
          OBVIOUS
        <4>2. p.phase = "wait" /\ GoodMembers(r, p.members)
          BY <1>0, <1>1, <3>2, <4>1, Working, ParentShape DEF RecordInv, RecordOk, Settled
        <4>3. p.next \in 1 .. Len(p.members)
          BY <1>1, <4>1, <4>2 DEF RequestInv, QueueInv, QueueOk, ParentQueue
        <4>4. p.next \in DOMAIN p.members
          BY <4>2, <4>3 DEF GoodMembers
        <4> QED
          BY <4>2, <4>4, MemberNames
      <3>4. Resume(r, Parent(r), p) \in ProcType
        BY <1>1, <3>3, ResumeTyped
      <3>5. /\ proc' \in [Process -> ProcType] /\ proc'[q] = Resume(r, Parent(r), p)
            /\ \A s \in Process \ {q} : proc'[s] = proc[s]
        BY <1>1, <3>1, <3>4, ProcWrites
      <3>6. TypeOK'
        BY <1>1, <1>2, <1>4, <3>5 DEF TypeOK, ProcType, history, hosted
      <3>7. ProcInv(q)'
        BY <1>0, <1>2, <1>3, <3>2, <3>5, <3>6, ResumeProc
      <3> QED
        BY <3>5, <3>7
    <2>2. CASE ~ Prepared(r)
      <3>1. proc' = [proc EXCEPT ![q] = Prepares(r)]
        BY <1>0, <2>2, Zenon DEF Deliver
      <3> QED
        BY <1>0, <1>1, <1>2, <2>2, <3>1, PrepareProc
    <2> QED
      BY <2>1, <2>2
  <1>6. TypeOK'
    BY <1>1, <1>2, <1>4, <1>5 DEF TypeOK, ProcType, history, hosted
  <1> QED
    BY <1>0, <1>2, <1>5, <1>6, QuietStep DEF hosted

LEMMA ProbeKeeps ==
    ASSUME IInv, NEW r \in Request, Probe(r)
    PROVE  IInv'
  <1>0. PICK q \in Process : q = Prober(r) /\ q.request = r /\ q.role = "probe"
    BY ProcessNames
  <1>1. /\ TypeOK /\ ~ Prepared(r) /\ proc' = [proc EXCEPT ![q] = Prepares(r)]
        /\ UNCHANGED <<journal, refs, hosted, head, bound, conflicting, orphaned>>
        /\ faults' \in 0..MaxFault
    BY <1>0, BatchBoundAssumption DEF Probe, IInv, TypeOK
  <1>2. /\ proc' \in [Process -> ProcType] /\ ProcInv(q)'
        /\ \A s \in Process \ {q} : proc'[s] = proc[s]
    BY <1>0, <1>1, PrepareProc DEF journal
  <1>3. TypeOK'
    BY <1>1, <1>2 DEF TypeOK, ProcType, journal, hosted
  <1> QED
    BY <1>0, <1>1, <1>2, <1>3, QuietStep DEF journal, hosted

\* A call that ends without a write of its own to the journal.
LEMMA EndingStep ==
    ASSUME IInv, NEW r \in Request, NEW q \in Process, q.request = r, Return(q),
           UNCHANGED <<records, prepared, lease, overtaken, refs, hosted, head, bound,
                       conflicting, history>>,
           \A a \in Action : receipts[a] = "passed" => receipts'[a] = "passed",
           receipts' \in [Action -> {"none", "passed", "code_failure"}]
    PROVE  IInv'
  <1>1. TypeOK /\ (q.role = "owner" /\ ~ Conflicts(r)' => q \notin overtaken')
    BY DEF IInv, ProcInv, RoleInv, Conflicts
  <1>2. /\ proc' \in [Process -> ProcType] /\ ProcInv(q)'
        /\ \A s \in Process \ {q} : proc'[s] = proc[s]
    BY <1>1, ReturnWrites
  <1>3. TypeOK'
    BY <1>2, <1>1 DEF TypeOK, ProcType, hosted, history
  <1> QED
    BY <1>2, <1>3, QuietStep DEF hosted

LEMMA RoundType ==
    ASSUME IInv
    PROVE  /\ receipts \in [Action -> {"none", "passed", "code_failure"}]
           /\ checks \in [Action -> Outcomes] /\ published \subseteq Action
           /\ retried \in [Action -> SUBSET (1..RetryLimit)]
  BY DEF IInv, TypeOK

LEMMA FreezeKeeps ==
    ASSUME IInv, NEW r \in Request, NEW q \in Process, q.request = r, Freeze(q)
    PROVE  IInv'
  <1>1. TypeOK /\ ProcInv(q) /\ proc[q].pc = "freeze"
    BY DEF IInv, Freeze
  <1>2. UNCHANGED <<records, receipts, lease, overtaken, refs, hosted, head, bound,
                    conflicting, history>>
    BY DEF Freeze
  <1>3. CASE head = bound[r]
    <2>1. prepared' = prepared \cup {r} /\ Goto(q, "compose")
      BY <1>3 DEF Freeze
    <2>2. /\ proc' \in [Process -> ProcType]
          /\ \A s \in Process \ {q} : proc'[s] = proc[s]
          /\ proc'[q].pc = "compose" /\ Work(q)' = Work(q)
      BY <1>1, <2>1, GotoWrites DEF Work, Pcs
    <2>3. TypeOK'
      BY <1>1, <1>2, <2>1, <2>2 DEF TypeOK, ProcType, hosted, history
    <2>4. ProcInv(q)'
      <3>1. /\ Work(q) = Parent(r) /\ RoleInv(q) /\ (Conflicts(r)' <=> Conflicts(r))
            /\ q.role = "owner" /\ ~ Conflicts(r) =>
                  records[Parent(r)].phase \in {"absent", "prepared"}
        BY <1>1, <1>2 DEF ProcInv, WorkInv, PrepareInv, Preparing, Conflicts
      <3> QED
        BY <1>2, <2>2, <3>1, ActionNames
        DEF ProcInv, WorkInv, RoleInv, PrepareInv, BuildInv, StepInv, ChildInv, Preparing,
           Queueing, Stepping, Merging
    <2> QED
      BY <1>2, <2>2, <2>3, <2>4, QuietStep DEF hosted
  <1>4. CASE head # bound[r]
    <2>1. Return(q) /\ prepared' = prepared
      BY <1>4 DEF Freeze
    <2> QED
      BY <1>2, <2>1, RoundType, EndingStep
  <1> QED
    BY <1>3, <1>4

LEMMA ComposeKeeps ==
    ASSUME IInv, NEW r \in Request, NEW q \in Process, q.request = r, Compose(q)
    PROVE  IInv'
  <1>1. TypeOK /\ ProcInv(q) /\ proc[q].pc = "compose"
    BY DEF IInv, Compose
  <1>2. UNCHANGED <<journal, hosted, head, bound, conflicting, history>>
    BY DEF Compose
  <1>3. CASE head = bound[r]
    <2>1. /\ refs' = IF Conflicts(r) THEN refs ELSE refs \cup {Parent(r)}
          /\ Goto(q, "create")
      BY <1>3, Zenon DEF Compose
    <2>2. /\ proc' \in [Process -> ProcType]
          /\ \A s \in Process \ {q} : proc'[s] = proc[s]
          /\ proc'[q].pc = "create" /\ Work(q)' = Work(q)
      BY <1>1, <2>1, GotoWrites DEF Work, Pcs
    <2>3. TypeOK'
      BY <1>1, <1>2, <2>1, <2>2, ActionNames DEF TypeOK, ProcType, journal, hosted, history
    <2>4. ProcInv(q)'
      <3>1. /\ Work(q) = Parent(r) /\ RoleInv(q) /\ (Conflicts(r)' <=> Conflicts(r))
            /\ q.role = "owner" /\ ~ Conflicts(r) =>
                  records[Parent(r)].phase \in {"absent", "prepared"}
        BY <1>1, <1>2 DEF ProcInv, WorkInv, PrepareInv, Preparing, Conflicts
      <3>2. records' = records /\ overtaken' = overtaken
        BY <1>2 DEF journal
      <3> QED
        BY <2>1, <2>2, <3>1, <3>2, ActionNames
        DEF ProcInv, WorkInv, RoleInv, PrepareInv, BuildInv, StepInv, ChildInv, Preparing,
           Queueing, Stepping, Merging
    <2>5. /\ refs \subseteq refs' /\ refs' \subseteq refs \cup {Parent(r)}
          /\ Conflicts(r) => refs' = refs
      BY <2>1
    <2> QED
      BY <1>2, <2>2, <2>3, <2>4, <2>5, QuietStep DEF journal, hosted
  <1>4. CASE head # bound[r]
    <2>1. Return(q) /\ refs' = refs
      BY <1>4 DEF Compose
    <2> QED
      BY <1>2, <2>1, RoundType, EndingStep DEF journal
  <1> QED
    BY <1>3, <1>4

------------------------------------------------------------------------------
(* One delivery step.                                                      *)

\* What a process at "step" may rely on.
LEMMA AtStep ==
    ASSUME IInv, NEW r \in Request, NEW q \in Process, q.request = r, proc[q].pc \in Stepping
    PROVE  LET a == Work(q)
               rec == Rec(q)
           IN  /\ a \in Action /\ a.request = r /\ rec = records[a] /\ rec \in Record
               /\ RecordOk(a, rec, refs, published, merged, receipts)
               /\ GoodMembers(r, rec.members) /\ DOMAIN rec.status = DOMAIN rec.members
               /\ rec.phase \notin Terminal \cup {"absent"} /\ rec.generation = 0
               /\ a \in refs /\ q.role = "owner" /\ (Conflicts(r) => a # Parent(r))
               /\ rec.phase \notin {"hosted"} => merged[a] = 0
  <1>1. StepInv(q) /\ TypeOK
    BY DEF IInv, ProcInv
  <1>2. /\ Work(q) \in Action /\ Work(q).request = r /\ Rec(q) = records[Work(q)]
        /\ Rec(q) \in Record /\ Rec(q).phase # "absent"
        /\ RecordOk(Work(q), Rec(q), refs, published, merged, receipts)
        /\ q.role = "owner"
    BY Working DEF RecordInv, Stepping, Merging
  <1>3. /\ Rec(q).phase \notin Terminal \cup {"absent"} /\ Rec(q).generation = 0
        /\ Work(q) \in refs /\ (Conflicts(r) => Work(q) # Parent(r))
    BY <1>1, <1>2 DEF StepInv
  <1>4. GoodMembers(r, Rec(q).members) /\ DOMAIN Rec(q).status = DOMAIN Rec(q).members
    BY <1>2 DEF RecordOk
  <1>5. Rec(q).phase \notin {"hosted"} => merged[Work(q)] = 0
    BY <1>2, <1>3 DEF RecordOk, Terminal
  <1> QED
    BY <1>2, <1>3, <1>4, <1>5

\* A step that proposes a record and touches the provider or the receipts.
LEMMA ProposingStep ==
    ASSUME IInv, NEW r \in Request, NEW q \in Process, q.request = r, NEW next, proc[q].pc = "step",
           UNCHANGED <<records, prepared, lease, overtaken, refs, merged, head, bound,
                       conflicting, history>>,
           published \subseteq published', published' \subseteq Action,
           \A a \in Action : receipts[a] = "passed" => receipts'[a] = "passed",
           receipts' \in [Action -> {"none", "passed", "code_failure"}],
           checks' \in [Action -> Outcomes],
           retried' \in [Action -> SUBSET (1..RetryLimit)],
           Propose(q, next),
           Successor(Work(q), Rec(q), next, refs', published', merged', receipts')
    PROVE  IInv'
  <1>1. \A a \in Action : Grows(a)
    BY DEF Grows
  <1>2. /\ ProcInv(q)' /\ proc' \in [Process -> ProcType]
        /\ \A s \in Process \ {q} : proc'[s] = proc[s]
    BY <1>1, ProposeKeeps
  <1>3. TypeOK'
    BY <1>2 DEF IInv, TypeOK, ProcType, history
  <1> QED
    BY <1>2, <1>3, QuietStep

LEMMA ReadPendingAgainKeeps ==
    ASSUME IInv, NEW r \in Request, NEW q \in Process, q.request = r, ReadPendingAgain(q)
    PROVE  IInv'
  <1> DEFINE rec == Rec(q)
             next == [Rec(q) EXCEPT !.phase = "published", !.waits = "nothing"]
  <1>1. proc[q].pc = "step" /\ rec.phase = "wait" /\ Propose(q, next)
    BY DEF ReadPendingAgain, At
  <1>2. UNCHANGED <<journal, refs, hosted, head, bound, conflicting, history>>
    BY DEF ReadPendingAgain
  <1>3. /\ rec \in Record /\ rec.generation = 0
        /\ RecordOk(Work(q), rec, refs, published, merged, receipts) /\ merged[Work(q)] = 0
    BY <1>1, AtStep DEF Stepping
  <1>4. Successor(Work(q), rec, next, refs, published, merged, receipts)
    <2>1. next \in Record
      BY <1>3 DEF Record, Phases, Settled
    <2>2. /\ next.phase = "published" /\ next.waits = "nothing"
          /\ next.members = rec.members /\ next.status = rec.status
          /\ next.generation = 0 /\ next.built = rec.built /\ next.intent = rec.intent
          /\ next.ready = rec.ready /\ next.next = rec.next
      BY <1>3 DEF Record
    <2> HIDE DEF next, rec
    <2> QED
      BY <1>1, <1>3, <2>1, <2>2 DEF Successor, RecordOk
  <1> HIDE DEF next
  <1> QED
    BY <1>1, <1>2, <1>4, RoundType, ProposingStep DEF journal, hosted

LEMMA PerformRetryKeeps ==
    ASSUME IInv, NEW r \in Request, NEW q \in Process, q.request = r, PerformRetry(q)
    PROVE  IInv'
  <1> DEFINE rec == Rec(q)
             next == [Rec(q) EXCEPT !.phase = "published", !.waits = "nothing"]
  <1>1. /\ proc[q].pc = "step" /\ rec.phase = "wait" /\ rec.waits = "retry"
        /\ Propose(q, next)
    BY DEF PerformRetry, At
  <1>2. UNCHANGED <<journal, refs, published, merged, head, bound, conflicting, history>>
    BY DEF PerformRetry
  <1>3. /\ rec \in Record /\ rec.generation = 0 /\ Work(q) \in Action
        /\ RecordOk(Work(q), rec, refs, published, merged, receipts) /\ merged[Work(q)] = 0
    BY <1>1, AtStep DEF Stepping
  <1>4. Successor(Work(q), rec, next, refs, published, merged, receipts)
    <2>1. next \in Record
      BY <1>3 DEF Record, Phases, Settled
    <2>2. /\ next.phase = "published" /\ next.waits = "nothing"
          /\ next.members = rec.members /\ next.status = rec.status
          /\ next.generation = 0 /\ next.built = rec.built /\ next.intent = rec.intent
          /\ next.ready = rec.ready /\ next.next = rec.next
      BY <1>3 DEF Record
    <2> HIDE DEF next, rec
    <2> QED
      BY <1>1, <1>3, <2>1, <2>2 DEF Successor, RecordOk
  <1>5. rec.retries \in 1..RetryLimit
    <2>1. rec.retries >= 1
      BY <1>1, <1>3 DEF RecordOk
    <2>2. rec.retries \in 0..RetryLimit
      BY <1>3 DEF Record
    <2> QED
      BY <2>1, <2>2, LimitAssumption
  <1>6. /\ checks' = [checks EXCEPT ![Work(q)] = IF rec.retries \in retried[Work(q)] THEN @ ELSE "pending"]
        /\ retried' = [retried EXCEPT ![Work(q)] = @ \cup {rec.retries}]
    BY DEF PerformRetry
  <1>7. checks' \in [Action -> Outcomes]
    BY <1>6, RoundType DEF Outcomes
  <1>8. retried' \in [Action -> SUBSET (1..RetryLimit)]
    BY <1>3, <1>5, <1>6, RoundType
  <1> HIDE DEF next, rec
  <1> QED
    BY <1>1, <1>2, <1>4, <1>7, <1>8, RoundType, ProposingStep DEF journal, rec

\* _classify_failure hands the record back or dissolves the Batch.
LEMMA ClassifyKeeps ==
    ASSUME IInv, NEW r \in Request, NEW q \in Process, q.request = r, proc[q].pc = "step", Classify(q),
           Rec(q).phase \in {"prepared", "published"},
           UNCHANGED <<records, prepared, lease, overtaken, refs, hosted, head, bound,
                       conflicting, history>>,
           \A a \in Action : receipts[a] = "passed" => receipts'[a] = "passed",
           receipts' \in [Action -> {"none", "passed", "code_failure"}]
    PROVE  IInv'
  <1> DEFINE rec == Rec(q)
             next == [Rec(q) EXCEPT !.phase = "decision", !.waits = "nothing",
                                    !.status = <<"resume_required">>]
  <1>1. /\ rec \in Record /\ rec.generation = 0 /\ Work(q) \in Action
        /\ RecordOk(Work(q), rec, refs, published, merged, receipts) /\ merged[Work(q)] = 0
        /\ GoodMembers(r, rec.members)
    BY AtStep DEF Stepping
  <1>2. CASE Len(rec.members) > 1
    <2>1. Goto(q, "queue")
      BY <1>2 DEF Classify
    <2>2. /\ ProcInv(q)' /\ proc' \in [Process -> ProcType]
          /\ \A s \in Process \ {q} : proc'[s] = proc[s]
      BY <1>2, <2>1, QueueGoto
    <2>3. TypeOK'
      BY <2>2 DEF IInv, TypeOK, ProcType, hosted, history
    <2> QED
      BY <2>2, <2>3, QuietStep DEF hosted
  <1>3. CASE ~ Len(rec.members) > 1
    <2>1. Propose(q, next)
      BY <1>3 DEF Classify
    <2>2. next \in Record
      <3>1. <<"resume_required">> \in Seq(Statuses)
        BY DEF Statuses
      <3> QED
        BY <1>1, <3>1 DEF Record, Phases, Settled, Terminal
    <2>3. /\ next.phase = "decision" /\ next.waits = "nothing"
          /\ next.members = rec.members /\ next.status = <<"resume_required">>
          /\ next.generation = 0 /\ next.built = rec.built /\ next.intent = rec.intent
          /\ next.ready = rec.ready /\ next.next = rec.next
      BY <1>1 DEF Record
    <2>4. DOMAIN next.status = DOMAIN rec.members
      <3>1. rec.members \in Seq(Ticket) /\ rec.members # <<>>
        BY <1>1 DEF GoodMembers
      <3>2. PICK m \in Seq(Ticket) : m = rec.members
        BY <3>1
      <3>3. Len(m) \in Nat /\ Len(m) # 0 /\ Len(m) <= 1
        BY <1>3, <3>1, <3>2
      <3>4. Len(m) = 1
        <4>1. \A n \in Nat : n # 0 /\ n <= 1 => n = 1
          OBVIOUS
        <4> QED
          BY <3>3, <4>1, Zenon
      <3> QED
        BY <2>3, <3>2, <3>4
    <2> HIDE DEF next, rec
    <2>5. RecordOk(Work(q), next, refs, published, merged, receipts')
      BY <1>1, <2>3, <2>4 DEF RecordOk, GoodMembers, Settled, rec
    <2>6. Successor(Work(q), rec, next, refs, published, merged, receipts')
      BY <2>2, <2>3, <2>5 DEF Successor
    <2> QED
      BY <2>1, <2>6, RoundType, ProposingStep DEF hosted, rec
  <1> QED
    BY <1>2, <1>3

LEMMA LocalCheckKeeps ==
    ASSUME IInv, NEW r \in Request, NEW q \in Process, q.request = r, LocalCheck(q)
    PROVE  IInv'
  <1> DEFINE rec == Rec(q)
             next == [Rec(q) EXCEPT !.phase = "local_checked"]
  <1>1. proc[q].pc = "step" /\ rec.phase = "prepared"
    BY DEF LocalCheck, At
  <1>2. UNCHANGED <<journal, refs, hosted, head, bound, conflicting, history>>
    BY DEF LocalCheck
  <1>3. CASE Propose(q, next)
    <2>1. /\ rec \in Record /\ rec.generation = 0 /\ Work(q) \in refs
          /\ RecordOk(Work(q), rec, refs, published, merged, receipts) /\ merged[Work(q)] = 0
      BY <1>1, AtStep DEF Stepping
    <2>2. next \in Record
      BY <2>1 DEF Record, Phases, Settled
    <2>3. /\ next.phase = "local_checked" /\ next.waits = rec.waits
          /\ next.members = rec.members /\ next.status = rec.status
          /\ next.generation = 0 /\ next.built = rec.built /\ next.intent = rec.intent
          /\ next.ready = rec.ready /\ next.next = rec.next /\ next.retries = rec.retries
      BY <2>1 DEF Record
    <2> HIDE DEF next, rec
    <2>4. Successor(Work(q), rec, next, refs, published, merged, receipts)
      BY <1>1, <2>1, <2>2, <2>3 DEF Successor, RecordOk
    <2> QED
      BY <1>1, <1>2, <1>3, <2>4, RoundType, ProposingStep DEF journal, hosted, rec
  <1>4. CASE Classify(q)
    BY <1>1, <1>2, <1>4, RoundType, ClassifyKeeps DEF journal
  <1>5. CASE Return(q)
    BY <1>2, <1>5, RoundType, EndingStep DEF journal
  <1> QED
    BY <1>3, <1>4, <1>5 DEF LocalCheck

LEMMA PublishKeeps ==
    ASSUME IInv, NEW r \in Request, NEW q \in Process, q.request = r, Publish(q)
    PROVE  IInv'
  <1> DEFINE rec == Rec(q)
             next == [Rec(q) EXCEPT !.phase = "published"]
  <1>1. proc[q].pc = "step" /\ rec.phase = "local_checked" /\ Propose(q, next)
    BY DEF Publish, At
  <1>2. /\ UNCHANGED <<journal, refs, checks, retried, merged, head, bound, conflicting, history>>
        /\ published' = published \cup {Work(q)}
    BY DEF Publish
  <1>3. /\ rec \in Record /\ rec.generation = 0 /\ Work(q) \in refs /\ Work(q) \in Action
        /\ RecordOk(Work(q), rec, refs, published, merged, receipts) /\ merged[Work(q)] = 0
    BY <1>1, AtStep DEF Stepping
  <1>4. next \in Record
    BY <1>3 DEF Record, Phases, Settled
  <1>5. /\ next.phase = "published" /\ next.waits = rec.waits
        /\ next.members = rec.members /\ next.status = rec.status
        /\ next.generation = 0 /\ next.built = rec.built /\ next.intent = rec.intent
        /\ next.ready = rec.ready /\ next.next = rec.next /\ next.retries = rec.retries
    BY <1>3 DEF Record
  <1> HIDE DEF next, rec
  <1>6. Successor(Work(q), rec, next, refs, published', merged, receipts)
    BY <1>1, <1>2, <1>3, <1>4, <1>5 DEF Successor, RecordOk
  <1> QED
    BY <1>1, <1>2, <1>3, <1>6, RoundType, ProposingStep DEF journal, rec

LEMMA HostedResultKeeps ==
    ASSUME IInv, NEW r \in Request, NEW q \in Process, q.request = r, HostedResult(q)
    PROVE  IInv'
  <1> DEFINE rec == Rec(q)
             outcome == Outcome(Work(q))
             pending == [Rec(q) EXCEPT !.phase = "wait", !.waits = "pending"]
             again == [Rec(q) EXCEPT !.phase = "wait", !.waits = "retry", !.retries = @ + 1]
             blocked == [Rec(q) EXCEPT !.phase = "blocked"]
             passed == [Rec(q) EXCEPT !.phase = "hosted"]
  <1>1. proc[q].pc = "step" /\ rec.phase = "published"
    BY DEF HostedResult, At
  <1>2. UNCHANGED <<records, prepared, lease, overtaken, refs, hosted, head, bound,
                       conflicting, history>>
    BY DEF HostedResult
  <1>3. /\ rec \in Record /\ rec.generation = 0 /\ Work(q) \in refs /\ Work(q) \in Action
        /\ RecordOk(Work(q), rec, refs, published, merged, receipts) /\ merged[Work(q)] = 0
        /\ Work(q) \in published
    BY <1>1, AtStep DEF Stepping, RecordOk
  <1>4. outcome \in Outcomes
    BY <1>3, RoundType DEF Outcome, Outcomes
  <1>5. receipts' = [receipts EXCEPT ![Work(q)] = Persisted(outcome, @)]
    BY DEF HostedResult
  <1>6. /\ receipts' \in [Action -> {"none", "passed", "code_failure"}]
        /\ \A a \in Action : receipts[a] = "passed" => receipts'[a] = "passed"
        /\ outcome = "passed" => receipts'[Work(q)] = "passed"
    BY <1>3, <1>5, RoundType DEF Persisted, Outcome
  <1> HIDE DEF outcome
  <1>7. ASSUME NEW next \in Record, Propose(q, next),
               next.phase \in {"wait", "blocked", "hosted"},
               next.phase = "hosted" => outcome = "passed",
               next.waits = "retry" => next.retries >= 1,
               next.members = rec.members, next.status = rec.status,
               next.generation = 0, next.built = rec.built, next.intent = rec.intent,
               next.ready = rec.ready, next.next = rec.next
        PROVE  IInv'
    <2> HIDE DEF rec
    <2>1. Successor(Work(q), rec, next, refs, published, merged, receipts')
      BY <1>1, <1>3, <1>6, <1>7 DEF Successor, RecordOk
    <2> QED
      BY <1>1, <1>2, <1>6, <1>7, <2>1, RoundType, ProposingStep DEF hosted, rec
  <1>8. CASE Propose(q, pending)
    <2>1. pending \in Record
      BY <1>3 DEF Record, Phases, Settled
    <2>2. /\ pending.phase = "wait" /\ pending.waits = "pending"
          /\ pending.members = rec.members /\ pending.status = rec.status
          /\ pending.generation = 0 /\ pending.built = rec.built
          /\ pending.intent = rec.intent /\ pending.ready = rec.ready
          /\ pending.next = rec.next
      BY <1>3 DEF Record
    <2> HIDE DEF pending, rec
    <2> QED
      BY <1>7, <1>8, <2>1, <2>2
  <1>9. CASE RetryLeft(rec.retries) /\ Propose(q, again)
    <2>1. rec.retries \in 0..RetryLimit /\ rec.retries + 1 \in 0..RetryLimit
      BY <1>3, <1>9, LimitAssumption DEF RetryLeft, Record
    <2>2. again \in Record
      BY <1>3, <2>1 DEF Record, Phases, Settled
    <2>3. /\ again.phase = "wait" /\ again.retries = rec.retries + 1
          /\ again.members = rec.members /\ again.status = rec.status
          /\ again.generation = 0 /\ again.built = rec.built
          /\ again.intent = rec.intent /\ again.ready = rec.ready
          /\ again.next = rec.next
      BY <1>3 DEF Record
    <2>4. again.retries >= 1
      BY <2>1, <2>3, LimitAssumption
    <2> HIDE DEF again, rec
    <2> QED
      BY <1>7, <1>9, <2>2, <2>3, <2>4
  <1>10. CASE Propose(q, blocked)
    <2>1. blocked \in Record
      BY <1>3 DEF Record, Phases, Settled, Terminal
    <2>2. /\ blocked.phase = "blocked" /\ blocked.waits = rec.waits
          /\ blocked.retries = rec.retries
          /\ blocked.members = rec.members /\ blocked.status = rec.status
          /\ blocked.generation = 0 /\ blocked.built = rec.built
          /\ blocked.intent = rec.intent /\ blocked.ready = rec.ready
          /\ blocked.next = rec.next
      BY <1>3 DEF Record
    <2>3. blocked.waits = "retry" => blocked.retries >= 1
      BY <1>3, <2>2 DEF RecordOk
    <2> HIDE DEF blocked, rec
    <2> QED
      BY <1>7, <1>10, <2>1, <2>2, <2>3
  <1>11. CASE outcome = "passed" /\ Propose(q, passed)
    <2>1. passed \in Record
      BY <1>3 DEF Record, Phases
    <2>2. /\ passed.phase = "hosted" /\ passed.waits = rec.waits
          /\ passed.retries = rec.retries
          /\ passed.members = rec.members /\ passed.status = rec.status
          /\ passed.generation = 0 /\ passed.built = rec.built
          /\ passed.intent = rec.intent /\ passed.ready = rec.ready
          /\ passed.next = rec.next
      BY <1>3 DEF Record
    <2>3. passed.waits = "retry" => passed.retries >= 1
      BY <1>3, <2>2 DEF RecordOk
    <2> HIDE DEF passed, rec
    <2> QED
      BY <1>7, <1>11, <2>1, <2>2, <2>3
  <1>12. CASE Classify(q)
    BY <1>1, <1>2, <1>6, <1>12, ClassifyKeeps
  <1>13. CASE Return(q)
    BY <1>2, <1>6, <1>13, EndingStep
  <1>14. \/ Propose(q, pending)
         \/ RetryLeft(rec.retries) /\ Propose(q, again)
         \/ Propose(q, blocked)
         \/ outcome = "passed" /\ Propose(q, passed)
         \/ Classify(q)
         \/ Return(q)
    BY DEF HostedResult, outcome
  <1> QED
    BY <1>8, <1>9, <1>10, <1>11, <1>12, <1>13, <1>14

LEMMA AcquireLeaseKeeps ==
    ASSUME IInv, NEW r \in Request, NEW q \in Process, q.request = r, AcquireLease(q)
    PROVE  IInv'
  <1>1. proc[q].pc = "step" /\ Rec(q).phase = "hosted" /\ TypeOK
    BY DEF AcquireLease, At, IInv
  <1>2. UNCHANGED <<records, prepared, receipts, overtaken, refs, hosted, head, bound,
                    conflicting, faults>>
    BY DEF AcquireLease
  <1>3. Work(q) \in Action /\ Work(q).request = r /\ q.role = "owner"
    BY <1>1, AtStep DEF Stepping
  <1>4. CASE LeaseFree(Work(q))
    <2>1. /\ lease' = Work(q) /\ Goto(q, "integrate") /\ lease \in {Nobody, Work(q)}
          /\ orphaned' = FALSE
      BY <1>4 DEF AcquireLease, LeaseFree
    <2>2. /\ ProcInv(q)' /\ proc' \in [Process -> ProcType]
          /\ \A s \in Process \ {q} : proc'[s] = proc[s]
      BY <1>1, <1>2, <2>1, StepGoto DEF Stepping, Merging
    <2>3. TypeOK'
      BY <1>1, <1>2, <1>3, <2>1, <2>2 DEF TypeOK, ProcType, hosted
    <2> QED
      BY <1>2, <1>3, <2>1, <2>2, <2>3, QuietStep DEF hosted
  <1>5. CASE ~ LeaseFree(Work(q))
    <2>1. lease' = lease /\ Return(q) /\ orphaned' = orphaned
      BY <1>5 DEF AcquireLease
    <2> QED
      BY <1>2, <2>1, RoundType, EndingStep DEF history
  <1> QED
    BY <1>4, <1>5

LEMMA VerifyTargetKeeps ==
    ASSUME IInv, NEW r \in Request, NEW q \in Process, q.request = r, VerifyTarget(q)
    PROVE  IInv'
  <1> DEFINE rec == Rec(q)
             next == IF merged[Work(q)] = head THEN Completed(Rec(q)) ELSE NoRecord
             x == [proc[q] EXCEPT !.pc = "release", !.next = next]
  <1>1. proc[q].pc = "verify" /\ TypeOK /\ ProcInv(q)
    BY DEF VerifyTarget, IInv
  <1>2. UNCHANGED <<journal, refs, hosted, head, bound, conflicting, history>>
    BY DEF VerifyTarget
  <1>3. /\ rec \in Record /\ Work(q) \in Action /\ Work(q).request = r
        /\ rec = records[Work(q)] /\ rec.generation = 0
        /\ rec.phase \notin Terminal \cup {"absent"} /\ Work(q) \in refs
        /\ q.role = "owner" /\ (Conflicts(r) => Work(q) # Parent(r))
        /\ (Conflicts(r)' <=> Conflicts(r))
    BY <1>1, <1>2, AtStep DEF Stepping, Merging, Conflicts
  <1>4. rec.phase = "hosted" /\ merged[Work(q)] # 0 /\ lease = Work(q)
    BY <1>1 DEF ProcInv, StepInv, Merging
  <1>5. next \in Record
    <2>1. [i \in DOMAIN rec.status |-> "integrated"] \in Seq(Statuses)
      BY <1>3 DEF Record, Statuses
    <2>2. Completed(rec) \in Record
      BY <1>3, <2>1 DEF Completed, Record, Phases, Settled, Terminal
    <2> QED
      BY <2>2, BasicTypes
  <1>6. /\ proc[q] \in ProcType
        /\ proc' = [proc EXCEPT ![q].pc = "release", ![q].next = next]
    BY Working DEF VerifyTarget, Completed
  <1>7. next = NoRecord \/ next = Completed(rec)
    OBVIOUS
  <1> HIDE DEF next
  <1>8. proc' = [proc EXCEPT ![q] = x]
    BY <1>1, <1>6 DEF TypeOK, ProcType
  <1>9. /\ x \in ProcType /\ x.pc = "release" /\ x.work = Work(q) /\ x.rec = rec
        /\ x.next = next
    BY <1>5, <1>6 DEF ProcType, Pcs, Work, Rec
  <1> HIDE DEF x, rec
  <1>10. /\ proc' \in [Process -> ProcType] /\ proc'[q] = x
         /\ \A s \in Process \ {q} : proc'[s] = proc[s]
    BY <1>1, <1>8, <1>9, ProcWrites
  <1>11. Work(q)' = Work(q) /\ Rec(q)' = rec
    BY <1>9, <1>10 DEF Work, Rec
  <1>12. ProcInv(q)'
    <2>1. WorkInv(q)' /\ RoleInv(q)' /\ PrepareInv(q)' /\ BuildInv(q)'
      BY <1>1, <1>2, <1>3, <1>9, <1>10, <1>11
      DEF WorkInv, RoleInv, PrepareInv, BuildInv, Preparing, Queueing, journal, ProcInv
    <2>2. StepInv(q)'
      BY <1>2, <1>3, <1>4, <1>7, <1>9, <1>10, <1>11 DEF StepInv, Merging, journal, hosted
    <2>3. ChildInv(q)'
      BY <1>1, <1>2, <1>9, <1>10, <1>11 DEF ProcInv, ChildInv, journal
    <2> QED
      BY <2>1, <2>2, <2>3 DEF ProcInv
  <1>13. TypeOK'
    BY <1>1, <1>2, <1>10 DEF TypeOK, ProcType, journal, hosted, history
  <1> QED
    BY <1>2, <1>10, <1>12, <1>13, QuietStep DEF journal, hosted

LEMMA ReleaseLeaseKeeps ==
    ASSUME IInv, NEW r \in Request, NEW q \in Process, q.request = r, ReleaseLease(q)
    PROVE  IInv'
  <1> DEFINE rec == Rec(q)
             next == proc[q].next
  <1>1. proc[q].pc = "release" /\ TypeOK /\ ProcInv(q) /\ lease' = Nobody
    BY DEF ReleaseLease, IInv
  <1>2. UNCHANGED <<records, prepared, receipts, overtaken, refs, hosted, head, bound,
                    conflicting, history>>
    BY DEF ReleaseLease
  <1>3. /\ rec \in Record /\ Work(q) \in Action /\ Work(q).request = r
        /\ rec = records[Work(q)] /\ rec.generation = 0
        /\ rec.phase \notin Terminal \cup {"absent"} /\ Work(q) \in refs
        /\ RecordOk(Work(q), rec, refs, published, merged, receipts)
        /\ DOMAIN rec.status = DOMAIN rec.members
        /\ q.role = "owner" /\ (Conflicts(r) => Work(q) # Parent(r))
        /\ (Conflicts(r)' <=> Conflicts(r))
    BY <1>1, <1>2, AtStep DEF Stepping, Merging, Conflicts
  <1>4. /\ rec.phase = "hosted" /\ merged[Work(q)] # 0 /\ lease = Work(q)
        /\ next = NoRecord \/ next = Completed(rec)
    BY <1>1 DEF ProcInv, StepInv, Merging
  <1>5. TypeOK' /\ ProcInv(q)' /\ \A s \in Process \ {q} : proc'[s] = proc[s]
    <2>1. CASE next = NoRecord
      <3>1. Goto(q, "mismatch")
        BY <2>1 DEF ReleaseLease
      <3>2. /\ ProcInv(q)' /\ proc' \in [Process -> ProcType]
            /\ \A s \in Process \ {q} : proc'[s] = proc[s]
        BY <1>1, <1>2, <1>4, <3>1, StepGoto DEF Stepping, Merging, hosted
      <3>3. TypeOK'
        BY <1>1, <1>2, <3>2 DEF TypeOK, ProcType, hosted, history
      <3> QED
        BY <3>2, <3>3
    <2>2. CASE next # NoRecord
      <3>1. Goto(q, "commit") /\ next = Completed(rec)
        BY <1>4, <2>2 DEF ReleaseLease
      <3>2. /\ proc' \in [Process -> ProcType]
            /\ \A s \in Process \ {q} : proc'[s] = proc[s]
            /\ proc'[q].pc = "commit" /\ Work(q)' = Work(q) /\ Rec(q)' = rec
            /\ proc'[q].next = next
        BY <1>1, <3>1, GotoWrites DEF Work, Rec, Pcs
      <3>3. TypeOK'
        BY <1>1, <1>2, <3>2 DEF TypeOK, ProcType, hosted, history
      <3>4. /\ next.phase = "complete" /\ next.waits = rec.waits
            /\ next.status = [i \in DOMAIN rec.status |-> "integrated"]
            /\ next.retries = rec.retries
            /\ next.members = rec.members /\ next.generation = 0
            /\ next.built = rec.built /\ next.intent = rec.intent
            /\ next.ready = rec.ready /\ next.next = rec.next
        BY <1>3, <3>1 DEF Completed, Record
      <3> HIDE DEF next, rec
      <3>5. RecordOk(Work(q), next, refs, published, merged, receipts)
        BY <1>3, <1>4, <3>4 DEF RecordOk
      <3>6. RecordInv(Work(q), next)'
        BY <1>2, <3>2, <3>5 DEF RecordInv, hosted, next
      <3>7. WorkInv(q)' /\ RoleInv(q)' /\ PrepareInv(q)' /\ BuildInv(q)'
        BY <1>1, <1>2, <1>3, <3>2
        DEF WorkInv, RoleInv, PrepareInv, BuildInv, Preparing, Queueing, ProcInv
      <3>8. StepInv(q)'
        BY <1>2, <1>3, <1>4, <3>2, <3>4, <3>6 DEF StepInv, Merging, next
      <3>9. ChildInv(q)'
        BY <1>1, <1>2, <3>2 DEF ProcInv, ChildInv
      <3> QED
        BY <3>2, <3>3, <3>7, <3>8, <3>9 DEF ProcInv
    <2> QED
      BY <2>1, <2>2
  <1> QED
    BY <1>1, <1>2, <1>3, <1>4, <1>5, QuietStep DEF hosted

\* The provider's merge changes what the records of one action rely on.
LEMMA IntegrateKeeps ==
    ASSUME IInv, NEW r \in Request, NEW q \in Process, q.request = r, Integrate(q)
    PROVE  IInv'
  <1> DEFINE a == Work(q)
  <1>1. /\ proc[q].pc = "integrate" /\ TypeOK /\ RequestInv(r) /\ ProcInv(q)
        /\ Goto(q, "verify")
    BY DEF Integrate, IInv
  <1>2. UNCHANGED <<journal, refs, published, checks, retried, bound, conflicting, history>>
    BY DEF Integrate
  <1>3. /\ a \in Action /\ a.request = r /\ RecordOk(a, records[a], refs, published, merged, receipts)
        /\ records[a].generation = 0 /\ q.role = "owner"
    BY <1>1, AtStep DEF Stepping, Merging
  <1>4. Rec(q).phase = "hosted" /\ lease = a /\ Rec(q) = records[a] /\ a \in refs
    BY <1>1, AtStep DEF ProcInv, StepInv, Stepping, Merging
  <1>5. /\ merged' \in [Action -> Nat] /\ head' \in Nat
        /\ merged'[a] # 0 /\ \A b \in Action \ {a} : merged'[b] = merged[b]
    <2>1. CASE merged[a] = 0
      <3>1. head \in Nat /\ head + 1 \in Nat /\ head + 1 # 0 /\ merged \in [Action -> Nat]
        BY <1>1 DEF TypeOK
      <3>2. head' = head + 1 /\ merged' = [merged EXCEPT ![a] = head + 1]
        BY <2>1 DEF Integrate
      <3> QED
        BY <1>3, <3>1, <3>2
    <2>2. CASE merged[a] # 0
      BY <1>1, <2>2 DEF Integrate, TypeOK
    <2> QED
      BY <2>1, <2>2
  <1>6. /\ proc' \in [Process -> ProcType] /\ ProcInv(q)'
        /\ \A s \in Process \ {q} : proc'[s] = proc[s]
    BY <1>1, <1>2, <1>4, <1>5, StepGoto DEF Stepping, Merging, journal
  <1>7. TypeOK'
    BY <1>1, <1>2, <1>5, <1>6 DEF TypeOK, ProcType, journal, history
  <1> HIDE DEF a
  <1>8. ASSUME NEW b \in Action, b.request = r
        PROVE  RecordInv(b, records[b])'
    <2>1. CASE b = a
      <3>1. RecordOk(b, records[b], refs, published, merged', receipts)
        BY <1>3, <1>4, <1>5, <2>1 DEF RecordOk
      <3> QED
        BY <1>2, <3>1 DEF RecordInv, journal
    <2>2. CASE b # a
      BY <1>1, <1>2, <1>5, <1>8, <2>2, RecordGrows DEF RequestInv, RecordInv, journal
    <2> QED
      BY <2>1, <2>2
  <1>9. QueueInv(r)' /\ ComposeInv(r)'
    BY <1>1, <1>2, ComposeKept DEF RequestInv, QueueInv, journal
  <1>10. Local(q)
    BY <1>2, <1>3, <1>4, <1>5, <1>6, ActionNames DEF Local, Grows, journal
  <1>11. Aside(Other(q))
    BY <1>2, <1>3, <1>6, ProcessNames DEF Aside, journal
  <1> QED
    BY <1>6, <1>7, <1>8, <1>9, <1>10, <1>11, LocalKeeps DEF RequestInv

LEMMA PushKeeps ==
    ASSUME IInv, Push
    PROVE  IInv'
  <1>1. /\ UNCHANGED <<journal, refs, hosted, bound, conflicting, proc, orphaned>>
        /\ head' \in Nat /\ faults' \in 0..MaxFault /\ TypeOK
    BY BatchBoundAssumption DEF Push, IInv, TypeOK
  <1>2. TypeOK'
    BY <1>1 DEF TypeOK, journal, hosted
  <1>3. ASSUME NEW r \in Request
        PROVE  RequestInv(r)' /\ \A q \in Process : q.request = r => ProcInv(q)'
    <2>1. Kept(r)
      BY <1>1 DEF Kept, Grows, journal, hosted
    <2> QED
      BY <2>1, FrameKeeps DEF IInv
  <1> QED
    BY <1>2, <1>3, ProcessNames DEF IInv

LEMMA ConcludeKeeps ==
    ASSUME IInv, NEW a \in Action, Conclude(a)
    PROVE  IInv'
  <1>1. /\ UNCHANGED <<journal, refs, published, retried, merged, head, bound, conflicting,
                       proc, history>>
        /\ checks' \in [Action -> Outcomes] /\ TypeOK
    BY DEF Conclude, IInv, TypeOK
  <1>2. TypeOK'
    BY <1>1 DEF TypeOK, journal, history
  <1>3. ASSUME NEW r \in Request
        PROVE  RequestInv(r)' /\ \A q \in Process : q.request = r => ProcInv(q)'
    <2>1. Kept(r)
      BY <1>1 DEF Kept, Grows, journal
    <2> QED
      BY <2>1, FrameKeeps DEF IInv
  <1> QED
    BY <1>2, <1>3, ProcessNames DEF IInv
------------------------------------------------------------------------------
(* The steps that write a record.                                          *)

LEMMA RecordWrites ==
    ASSUME TypeOK, NEW a \in Action, NEW rec \in Record,
           records' = [records EXCEPT ![a] = rec]
    PROVE  /\ records' \in [Action -> Record] /\ records'[a] = rec
           /\ \A b \in Action \ {a} : records'[b] = records[b]
  BY DEF TypeOK

\* Steps that write records of one request only, and nothing of the provider.
LEMMA WritingStep ==
    ASSUME IInv, NEW r \in Request, NEW q \in Process, q.request = r,
           records' \in [Action -> Record], proc' \in [Process -> ProcType],
           \A a \in Action : a.request # r => records'[a] = records[a],
           \A s \in Process \ {q} : proc'[s] = proc[s],
           prepared' \subseteq Request, overtaken' \subseteq Process,
           \A s \in Process : s.request # r => (s \in overtaken' <=> s \in overtaken),
           refs \subseteq refs', refs' \subseteq Action,
           \A a \in Action : a.request # r => (a \in refs' <=> a \in refs),
           UNCHANGED <<receipts, lease, hosted, head, bound, conflicting, history>>,
           Aside(Other(q)), RequestInv(r)', ProcInv(q)'
    PROVE  IInv'
  <1>1. TypeOK'
    BY DEF IInv, TypeOK, ProcType, hosted, history
  <1>2. Local(q)
    BY DEF Local, Grows, hosted
  <1> QED
    BY <1>1, <1>2, LocalKeeps

\* Writing the record of a request leaves the records of its Singletons.
LEMMA ParentWrite ==
    ASSUME IInv, NEW r \in Request, NEW rec \in Record,
           records' = [records EXCEPT ![Parent(r)] = rec],
           refs' = refs, published' = published, merged' = merged, receipts' = receipts,
           RecordOk(Parent(r), rec, refs, published, merged, receipts)
    PROVE  /\ records' \in [Action -> Record] /\ records'[Parent(r)] = rec
           /\ \A a \in Action : a # Parent(r) => records'[a] = records[a]
           /\ \A a \in Action : a.request # r => records'[a] = records[a]
           /\ \A t \in Range(Offered[r]) : records'[Child(r, t)] = records[Child(r, t)]
           /\ \A a \in Action : a.request = r => RecordInv(a, records[a])'
  <1>1. TypeOK /\ Parent(r) \in Action /\ Parent(r).request = r
    BY ActionNames DEF IInv
  <1>2. /\ records' \in [Action -> Record] /\ records'[Parent(r)] = rec
        /\ \A b \in Action \ {Parent(r)} : records'[b] = records[b]
    BY <1>1, RecordWrites
  <1>3. \A t \in Range(Offered[r]) : records'[Child(r, t)] = records[Child(r, t)]
    BY <1>2, ActionNames
  <1>4. ASSUME NEW a \in Action, a.request = r PROVE RecordInv(a, records[a])'
    <2>1. CASE a = Parent(r)
      BY <1>2, <2>1 DEF RecordInv
    <2>2. CASE a # Parent(r)
      BY <1>2, <1>4, <2>2 DEF IInv, RequestInv, RecordInv
    <2> QED
      BY <2>1, <2>2
  <1> QED
    BY <1>1, <1>2, <1>3, <1>4

\* The queue of a request whose record alone was written.
LEMMA QueueWrite ==
    ASSUME IInv, NEW r \in Request, NEW p \in Record, records'[Parent(r)] = p,
           \A t \in Range(Offered[r]) : records'[Child(r, t)] = records[Child(r, t)],
           RecordOk(Parent(r), p, refs, published, merged, receipts), p.phase # "absent",
           p.generation = 1 \/ records[Parent(r)].generation # 1,
           ParentQueue(r, p, records)
    PROVE  QueueInv(r)'
  <1>1. /\ GoodMembers(r, p.members) /\ DOMAIN p.status = DOMAIN p.members /\ p.built \in Nat
    BY ActionNames DEF RecordOk, Record
  <1>2. \A i \in DOMAIN p.members :
            records'[Child(r, p.members[i])] = records[Child(r, p.members[i])]
    BY <1>1, MemberNames
  <1>3. p.built <= Len(p.members) => \A i \in 1 .. p.built : i \in DOMAIN p.members
    BY <1>1 DEF GoodMembers
  <1>4. \A t \in Range(Offered[r]) :
            records'[Child(r, t)].phase # "absent" => p.generation = 1
    BY DEF IInv, RequestInv, QueueInv, QueueOk
  <1>5. ParentQueue(r, p, records')
    BY <1>1, <1>2, <1>3 DEF ParentQueue
  <1> QED
    BY <1>4, <1>5 DEF QueueOk, QueueInv

LEMMA OvertakesWrites ==
    ASSUME TypeOK, NEW q \in Process, Overtakes(q)
    PROVE  /\ overtaken' \subseteq Process /\ q \notin overtaken'
           /\ \A s \in Process : s.request # q.request => (s \in overtaken' <=> s \in overtaken)
           /\ Other(q) \in overtaken => Other(q) \in overtaken'
           /\ proc[Other(q)].pc # "idle" => Other(q) \in overtaken'
  BY ProcessNames DEF Overtakes, TypeOK

\* The record of a request is written by its owner, or by a probe if the Batch
\* does not compose: then it is, or becomes, a dissolved one.
MayWrite(q, rec) ==
    /\ q.role = "probe" => Conflicts(q.request)
    /\ Conflicts(q.request) => rec.generation = 1
    /\ rec.generation = 1 \/ records[Parent(q.request)].generation # 1

LEMMA ParentWritten ==
    ASSUME IInv, NEW r \in Request, NEW q \in Process, q.request = r, NEW rec \in Record,
           records' = [records EXCEPT ![Parent(r)] = rec], Overtakes(q), MayWrite(q, rec),
           \A s \in Process \ {q} : proc'[s] = proc[s],
           UNCHANGED <<receipts, lease, refs, hosted, head, bound, conflicting, history>>,
           RecordOk(Parent(r), rec, refs, published, merged, receipts), rec.phase # "absent",
           ParentQueue(r, rec, records)
    PROVE  /\ RequestInv(r)' /\ Aside(Other(q))
           /\ records' \in [Action -> Record] /\ records'[Parent(r)] = rec
           /\ \A a \in Action : a.request # r => records'[a] = records[a]
           /\ \A t \in Range(Offered[r]) : records'[Child(r, t)] = records[Child(r, t)]
           /\ overtaken' \subseteq Process /\ q \notin overtaken'
           /\ \A s \in Process : s.request # r => (s \in overtaken' <=> s \in overtaken)
  <1>1. TypeOK /\ Parent(r) \in Action /\ Parent(r).request = r
    BY ActionNames DEF IInv
  <1>2. /\ records' \in [Action -> Record] /\ records'[Parent(r)] = rec
        /\ \A a \in Action : a # Parent(r) => records'[a] = records[a]
        /\ \A a \in Action : a.request # r => records'[a] = records[a]
        /\ \A t \in Range(Offered[r]) : records'[Child(r, t)] = records[Child(r, t)]
        /\ \A a \in Action : a.request = r => RecordInv(a, records[a])'
    BY ParentWrite DEF hosted
  <1>3. QueueInv(r)'
    BY <1>2, QueueWrite DEF MayWrite
  <1>4. ComposeInv(r)'
    BY <1>2 DEF IInv, RequestInv, ComposeInv, MayWrite, Conflicts
  <1>5. /\ overtaken' \subseteq Process /\ q \notin overtaken'
        /\ \A s \in Process : s.request # r => (s \in overtaken' <=> s \in overtaken)
        /\ Other(q) \in overtaken => Other(q) \in overtaken'
        /\ proc[Other(q)].pc # "idle" => Other(q) \in overtaken'
    BY <1>1, OvertakesWrites
  <1>6. /\ Other(q) \in Process /\ Other(q).request = r /\ Other(q) # q
        /\ Other(q).role = "owner" => Conflicts(r)
        /\ Other(q).role \in {"owner", "probe"}
    BY ProcessNames DEF MayWrite
  <1>7. Aside(Other(q))
    <2>1. \A a \in Action : Grows(a) /\ (lease = a => lease' = a) /\ (a \in refs => a \in refs')
      BY DEF Grows, hosted
    <2>2. \A a \in Action : records[a].phase # "absent" => records'[a].phase # "absent"
      BY <1>2
    <2>3. records[Parent(r)].generation = 1 => records'[Parent(r)].generation = 1
      BY <1>2 DEF MayWrite
    <2> QED
      BY <1>2, <1>5, <1>6, <2>1, <2>2, <2>3 DEF Aside
  <1> QED
    BY <1>2, <1>3, <1>4, <1>5, <1>7 DEF RequestInv

LEMMA ParentStep ==
    ASSUME IInv, NEW r \in Request, NEW q \in Process, q.request = r, NEW rec \in Record,
           records' = [records EXCEPT ![Parent(r)] = rec], Overtakes(q), MayWrite(q, rec),
           proc' \in [Process -> ProcType], \A s \in Process \ {q} : proc'[s] = proc[s],
           prepared' \subseteq Request,
           UNCHANGED <<receipts, lease, refs, hosted, head, bound, conflicting, history>>,
           RecordOk(Parent(r), rec, refs, published, merged, receipts), rec.phase # "absent",
           ParentQueue(r, rec, records), ProcInv(q)'
    PROVE  IInv'
  <1>1. /\ RequestInv(r)' /\ Aside(Other(q))
        /\ records' \in [Action -> Record]
        /\ \A a \in Action : a.request # r => records'[a] = records[a]
        /\ overtaken' \subseteq Process
        /\ \A s \in Process : s.request # r => (s \in overtaken' <=> s \in overtaken)
    BY ParentWritten
  <1>2. refs' \subseteq Action
    BY DEF IInv, TypeOK
  <1> QED
    BY <1>1, <1>2, WritingStep

\* What a process that dissolves a Batch may rely on.
LEMMA AtQueue ==
    ASSUME IInv, NEW r \in Request, NEW q \in Process, q.request = r, proc[q].pc \in Queueing
    PROVE  LET rec == Rec(q)
           IN  /\ Work(q) = Parent(r) /\ rec \in Record
               /\ q.role = "probe" => Conflicts(r)
               /\ proc[q].pc # "queue" =>
                     /\ rec.generation = 1 /\ rec.phase = "wait" /\ ~ rec.ready
                     /\ GoodMembers(r, rec.members)
                     /\ rec.intent # NoTarget => rec.built < Len(rec.members)
                     /\ records[Parent(r)].generation = 1
               /\ q \notin overtaken =>
                     /\ rec = records[Parent(r)] /\ rec.phase # "absent"
                     /\ RecordOk(Parent(r), rec, refs, published, merged, receipts)
                     /\ GoodMembers(r, rec.members) /\ DOMAIN rec.status = DOMAIN rec.members
                     /\ ParentQueue(r, rec, records)
                     /\ merged[Parent(r)] = 0
  <1>1. /\ Work(q) = Parent(r) /\ BuildInv(q) /\ RoleInv(q) /\ RequestInv(r)
        /\ Rec(q) \in Record
    BY Working DEF IInv, ProcInv, WorkInv
  <1>2. ASSUME q \notin overtaken
        PROVE  /\ Rec(q) = records[Parent(r)] /\ Rec(q).phase # "absent"
               /\ RecordOk(Parent(r), Rec(q), refs, published, merged, receipts)
    BY <1>1, <1>2, Working DEF RecordInv, Current
  <1>3. ASSUME q \notin overtaken
        PROVE  /\ GoodMembers(r, Rec(q).members) /\ DOMAIN Rec(q).status = DOMAIN Rec(q).members
               /\ ParentQueue(r, Rec(q), records)
    BY <1>1, <1>2, <1>3, ActionNames DEF RecordOk, RequestInv, QueueInv, QueueOk
  <1>4. ASSUME q \notin overtaken
        PROVE  merged[Parent(r)] = 0
    BY <1>1, <1>2, <1>4 DEF RecordOk, BuildInv, Queueing
  <1> QED
    BY <1>1, <1>2, <1>3, <1>4 DEF BuildInv, RoleInv, Queueing

LEMMA StaleSwap ==
    ASSUME IInv, NEW r \in Request, NEW q \in Process, q.request = r, NEW pc, NEW next,
           Swap(q, pc, next), q \in overtaken,
           UNCHANGED <<prepared, receipts, lease, refs, hosted, head, bound, conflicting,
                       history>>
    PROVE  IInv'
  BY RoundType, EndingStep DEF Swap

LEMMA SwapKeeps ==
    ASSUME IInv, NEW r \in Request, NEW q \in Process, q.request = r, NEW next \in Record,
           proc[q].pc \in Queueing, Swap(q, "build", next), q \notin overtaken,
           UNCHANGED <<prepared, receipts, lease, refs, hosted, head, bound, conflicting,
                       history>>,
           RecordOk(Parent(r), next, refs, published, merged, receipts),
           ParentQueue(r, next, records),
           next.generation = 1, next.phase = "wait", ~ next.ready
    PROVE  IInv'
  <1> DEFINE x == [proc[q] EXCEPT !.pc = "build", !.rec = next]
  <1>1. /\ TypeOK /\ proc[q] \in ProcType /\ Work(q) = Parent(r)
        /\ Parent(r) \in Action /\ Parent(r).request = r
        /\ q.role = "probe" => Conflicts(r)
    BY AtQueue, Working DEF IInv
  <1>2. /\ records' = [records EXCEPT ![Parent(r)] = next]
        /\ proc' = [proc EXCEPT ![q] = x] /\ Overtakes(q)
    BY <1>1 DEF Swap, TypeOK, ProcType
  <1>3. /\ x \in ProcType /\ x.pc = "build" /\ x.work = Parent(r) /\ x.rec = next
    BY <1>1 DEF ProcType, Pcs, Work
  <1> HIDE DEF x
  <1>4. /\ proc' \in [Process -> ProcType] /\ proc'[q] = x
        /\ \A s \in Process \ {q} : proc'[s] = proc[s]
    BY <1>1, <1>2, <1>3, ProcWrites
  <1>5. MayWrite(q, next) /\ next.phase # "absent"
    BY <1>1 DEF MayWrite
  <1>6. records'[Parent(r)] = next /\ q \notin overtaken'
    BY <1>1, <1>2, RecordWrites, OvertakesWrites
  <1>7. GoodMembers(r, next.members) /\ (next.intent # NoTarget => next.built < Len(next.members))
    BY <1>1 DEF RecordOk, ParentQueue
  <1>8. (Conflicts(r)' <=> Conflicts(r)) /\ q.role \in {"owner", "probe"}
    BY ProcessNames DEF Conflicts
  <1>9. ProcInv(q)'
    BY <1>1, <1>3, <1>4, <1>6, <1>7, <1>8
    DEF ProcInv, WorkInv, RoleInv, PrepareInv, BuildInv, StepInv, ChildInv, Preparing,
       Queueing, Stepping, Merging, Work, Rec
  <1>10. prepared' \subseteq Request
    BY <1>1 DEF TypeOK
  <1> QED
    BY <1>2, <1>4, <1>5, <1>9, <1>10, ParentStep

LEMMA NewRecordShape ==
    ASSUME NEW m \in Seq(Ticket), NEW target \in Nat
    PROVE  LET rec == NewRecord(m, target)
           IN  /\ rec \in Record /\ rec.phase = "prepared" /\ rec.members = m
               /\ DOMAIN rec.status = DOMAIN m
               /\ \A i \in DOMAIN rec.status : rec.status[i] = "preserved"
               /\ rec.generation = 0 /\ rec.waits = "nothing" /\ rec.built = 0
               /\ rec.intent = NoTarget /\ ~ rec.ready /\ rec.next = 1
  <1>1. NewRecord(m, target) \in Record
    BY BasicTypes
  <1> QED
    BY <1>1 DEF NewRecord, NoRecord

LEMMA QueueSingletonsKeeps ==
    ASSUME IInv, NEW r \in Request, NEW q \in Process, q.request = r, QueueSingletons(q)
    PROVE  IInv'
  <1> DEFINE rec == Rec(q)
             new == NewRecord(Rec(q).members, Rec(q).target)
             next == [new EXCEPT !.phase = "wait", !.generation = 1,
                                 !.retries = Rec(q).retries]
  <1>1. /\ proc[q].pc = "queue" /\ Swap(q, "build", next)
        /\ UNCHANGED <<prepared, receipts, lease, refs, hosted, head, bound, conflicting,
                       history>>
    BY DEF QueueSingletons
  <1>2. CASE q \in overtaken
    BY <1>1, <1>2, StaleSwap
  <1>3. CASE q \notin overtaken
    <2>1. /\ rec \in Record /\ GoodMembers(r, rec.members) /\ merged[Parent(r)] = 0
          /\ RecordOk(Parent(r), rec, refs, published, merged, receipts)
          /\ Parent(r).ticket = Whole /\ Parent(r).request = r
      BY <1>1, <1>3, AtQueue, ActionNames DEF Queueing
    <2>2. rec.members \in Seq(Ticket) /\ rec.target \in Nat /\ rec.retries \in 0..RetryLimit
      BY <2>1 DEF Record
    <2>3. /\ new \in Record /\ new.members = rec.members
          /\ DOMAIN new.status = DOMAIN rec.members
          /\ \A i \in DOMAIN new.status : new.status[i] = "preserved"
          /\ new.waits = "nothing" /\ new.built = 0
          /\ new.intent = NoTarget /\ ~ new.ready /\ new.next = 1
      BY <2>2, NewRecordShape
    <2> HIDE DEF new
    <2>4. next \in Record
      <3>1. "wait" \in Phases /\ 1 \in 0..1
        BY DEF Phases, Settled
      <3> QED
        BY <2>2, <2>3, <3>1, Zenon DEF Record
    <2>5. /\ next.phase = "wait" /\ next.waits = "nothing" /\ next.generation = 1
          /\ next.status = new.status /\ next.members = rec.members
          /\ next.built = 0 /\ next.intent = NoTarget /\ ~ next.ready /\ next.next = 1
      BY <2>3 DEF Record
    <2> HIDE DEF next, rec
    <2>6. RecordOk(Parent(r), next, refs, published, merged, receipts)
      BY <2>1, <2>3, <2>5 DEF RecordOk, Settled
    <2>7. ParentQueue(r, next, records)
      <3>1. Len(rec.members) \in Nat
        BY <2>1 DEF GoodMembers
      <3> QED
        BY <2>3, <2>5, <3>1 DEF ParentQueue
    <2> QED
      BY <1>1, <1>3, <2>4, <2>5, <2>6, <2>7, SwapKeeps DEF Queueing
  <1> QED
    BY <1>2, <1>3

LEMMA IntendSingletonKeeps ==
    ASSUME IInv, NEW r \in Request, NEW q \in Process, q.request = r, IntendSingleton(q),
           q \notin overtaken
    PROVE  IInv'
  <1> DEFINE rec == Rec(q)
             next == [Rec(q) EXCEPT !.intent = head]
  <1>1. /\ proc[q].pc = "build" /\ Swap(q, "build", next)
        /\ UNCHANGED <<prepared, receipts, lease, refs, hosted, head, bound, conflicting,
                       history>>
        /\ rec.built < Len(rec.members) /\ head \in Nat
    BY DEF IntendSingleton, IInv, TypeOK
  <1>2. /\ rec \in Record /\ rec.phase = "wait" /\ rec.generation = 1 /\ ~ rec.ready
        /\ RecordOk(Parent(r), rec, refs, published, merged, receipts)
        /\ ParentQueue(r, rec, records)
    BY <1>1, AtQueue DEF Queueing
  <1>3. next \in Record
    BY <1>1, <1>2 DEF Record
  <1>4. /\ next.phase = "wait" /\ next.waits = rec.waits /\ next.generation = 1
        /\ next.status = rec.status /\ next.members = rec.members
        /\ next.built = rec.built /\ next.intent = head /\ next.retries = rec.retries
        /\ next.ready = rec.ready /\ next.next = rec.next
    BY <1>2 DEF Record
  <1> HIDE DEF next, rec
  <1>5. RecordOk(Parent(r), next, refs, published, merged, receipts)
    BY <1>2, <1>4 DEF RecordOk
  <1>6. ParentQueue(r, next, records)
    BY <1>1, <1>2, <1>4 DEF ParentQueue
  <1> QED
    BY <1>1, <1>2, <1>3, <1>4, <1>5, <1>6, SwapKeeps DEF Queueing

LEMMA AppendSingletonKeeps ==
    ASSUME IInv, NEW r \in Request, NEW q \in Process, q.request = r, AppendSingleton(q),
           q \notin overtaken
    PROVE  IInv'
  <1> DEFINE rec == Rec(q)
             next == [Rec(q) EXCEPT !.built = @ + 1, !.intent = NoTarget]
  <1>1. /\ proc[q].pc = "append" /\ Swap(q, "build", next)
        /\ UNCHANGED <<prepared, receipts, lease, refs, hosted, head, bound, conflicting,
                       history>>
    BY DEF AppendSingleton
  <1>2. /\ rec \in Record /\ rec.phase = "wait" /\ rec.generation = 1 /\ ~ rec.ready
        /\ RecordOk(Parent(r), rec, refs, published, merged, receipts)
        /\ ParentQueue(r, rec, records) /\ GoodMembers(r, rec.members)
    BY <1>1, AtQueue DEF Queueing
  <1>3. /\ rec.intent # NoTarget
        /\ records[Child(r, rec.members[rec.built + 1])].phase # "absent"
    BY <1>1 DEF IInv, ProcInv, BuildInv
  <1>4. rec.built \in Nat /\ rec.built < Len(rec.members) /\ Len(rec.members) \in Nat
    BY <1>2, <1>3 DEF Record, ParentQueue, GoodMembers
  <1>5. next \in Record
    <2>1. rec.built + 1 \in Nat /\ NoTarget \in Nat \cup {NoTarget}
      BY <1>4
    <2> QED
      BY <1>2, <2>1 DEF Record
  <1>6. /\ next.phase = "wait" /\ next.waits = rec.waits /\ next.generation = 1
        /\ next.status = rec.status /\ next.members = rec.members
        /\ next.built = rec.built + 1 /\ next.intent = NoTarget /\ next.retries = rec.retries
        /\ next.ready = rec.ready /\ next.next = rec.next
    BY <1>2 DEF Record
  <1> HIDE DEF next, rec
  <1>7. RecordOk(Parent(r), next, refs, published, merged, receipts)
    BY <1>2, <1>6 DEF RecordOk
  <1>8. \A i \in 1 .. (rec.built + 1) : records[Child(r, rec.members[i])].phase # "absent"
    <2>1. \A i \in 1 .. rec.built : records[Child(r, rec.members[i])].phase # "absent"
      BY <1>2 DEF ParentQueue
    <2>2. \A i \in 1 .. (rec.built + 1) : i \in 1 .. rec.built \/ i = rec.built + 1
      BY <1>4
    <2> QED
      BY <1>3, <2>1, <2>2
  <1>9. rec.built + 1 <= Len(rec.members)
    BY <1>4
  <1>10. ParentQueue(r, next, records)
    BY <1>2, <1>6, <1>8, <1>9 DEF ParentQueue
  <1> QED
    BY <1>1, <1>2, <1>5, <1>6, <1>7, <1>10, SwapKeeps DEF Queueing

\* Whoever was overtaken writes nothing.
LEMMA StaleQueueKeeps ==
    ASSUME IInv, NEW r \in Request, NEW q \in Process, q.request = r, q \in overtaken,
           IntendSingleton(q) \/ AppendSingleton(q)
    PROVE  IInv'
  <1>1. PICK next : Swap(q, "build", next)
    BY DEF IntendSingleton, AppendSingleton
  <1>2. UNCHANGED <<prepared, receipts, lease, refs, hosted, head, bound, conflicting, history>>
    BY DEF IntendSingleton, AppendSingleton
  <1> QED
    BY <1>1, <1>2, StaleSwap

\* Where the owner of a request goes on when its record is written.
LEMMA ResumeOwner ==
    ASSUME IInv, NEW r \in Request, NEW q \in Process, q.request = r, NEW rec \in Record,
           records' \in [Action -> Record], records'[Parent(r)] = rec,
           \A t \in Range(Offered[r]) : records'[Child(r, t)] = records[Child(r, t)],
           proc' = [proc EXCEPT ![q] = Resume(r, Parent(r), rec)],
           prepared' \subseteq Request, overtaken' \subseteq Process,
           UNCHANGED <<receipts, lease, refs, hosted, head, bound, conflicting, history>>,
           RequestInv(r)', q.role = "owner", q \notin overtaken',
           RecordOk(Parent(r), rec, refs, published, merged, receipts),
           ParentQueue(r, rec, records),
           rec.phase \notin Terminal \cup {"absent"},
           rec.phase = "prepared" => Parent(r) \in refs
    PROVE  /\ proc' \in [Process -> ProcType] /\ ProcInv(q)'
           /\ \A s \in Process \ {q} : proc'[s] = proc[s]
  <1>1. TypeOK /\ Parent(r).request = r /\ Parent(r) \in Action
    BY ActionNames DEF IInv
  <1>4. rec.generation = 1 /\ rec.ready => rec.members[rec.next] \in Range(Offered[r])
    <2>1. SUFFICES ASSUME rec.generation = 1, rec.ready
                   PROVE  rec.members[rec.next] \in Range(Offered[r])
      OBVIOUS
    <2>2. rec.phase = "wait" /\ GoodMembers(r, rec.members)
      BY <1>1, <2>1 DEF RecordOk, Settled
    <2>3. rec.next \in 1 .. Len(rec.members)
      BY <2>1, <2>2 DEF ParentQueue
    <2>4. rec.next \in DOMAIN rec.members
      BY <2>2, <2>3 DEF GoodMembers
    <2> QED
      BY <2>2, <2>4, MemberNames
  <1>5. Resume(r, Parent(r), rec) \in ProcType
    BY <1>1, <1>4, ResumeTyped
  <1>6. /\ proc' \in [Process -> ProcType] /\ proc'[q] = Resume(r, Parent(r), rec)
        /\ \A s \in Process \ {q} : proc'[s] = proc[s]
    BY <1>1, <1>5, ProcWrites
  <1>10. TypeOK'
    BY <1>1, <1>6 DEF TypeOK, ProcType, hosted, history
  <1>11. ProcInv(q)'
    BY <1>6, <1>10, ResumeProc
  <1> QED
    BY <1>6, <1>11

\* Freezing an offer selects some of its members.
LEMMA FrozenGood ==
    ASSUME NEW r \in Request
    PROVE  GoodMembers(r, Frozen(r))
  <1>1. Offered[r] \in Seq(Ticket) /\ Offered[r] # <<>>
    BY OfferedAssumption
  <1> QED
    BY <1>1, FormationIsSound DEF Frozen, GoodMembers

\* The first record of a request finds its other process with no record yet.
LEMMA FirstRecordAside ==
    ASSUME IInv, NEW r \in Request, NEW q \in Process, q.request = r, NEW rec \in Record,
           records' = [records EXCEPT ![Parent(r)] = rec],
           \/ rec = records[Parent(r)]
           \/ records[Parent(r)].phase = "absent" /\ rec.phase = "prepared",
           overtaken' = overtaken \ {q}, \A s \in Process \ {q} : proc'[s] = proc[s],
           UNCHANGED <<receipts, lease, refs, hosted, conflicting>>
    PROVE  Aside(Other(q))
  <1>1. PICK o \in Process : o = Other(q) /\ o.request = r /\ o # q
    BY ProcessNames
  <1>2. /\ records' \in [Action -> Record] /\ records'[Parent(r)] = rec
        /\ \A a \in Action : a # Parent(r) => records'[a] = records[a]
        /\ Parent(r) \in Action /\ Parent(r).request = r
    BY RecordWrites, ActionNames DEF IInv
  <1>3. \A a \in Action : Grows(a) /\ (lease = a => lease' = a) /\ (a \in refs => a \in refs')
    BY DEF Grows, hosted
  <1>4. records[Parent(r)].generation = 1 => rec = records[Parent(r)]
    BY <1>2 DEF IInv, RequestInv, RecordInv, RecordOk, NoRecord
  <1>5. \/ rec = records[Parent(r)]
        \/ o \in overtaken \/ proc[o].pc \in Preparing \cup {"idle"}
    <2>1. SUFFICES ASSUME records[Parent(r)].phase = "absent", o \notin overtaken,
                          proc[o].pc \notin Preparing \cup {"idle"}
                   PROVE  FALSE
      OBVIOUS
    <2>2. records[Parent(r)].generation # 1
      BY <1>2, <2>1 DEF IInv, RequestInv, RecordInv, RecordOk, NoRecord
    <2>3. WorkInv(o) /\ ChildInv(o) /\ proc[o].pc \in Pcs
      BY Working, <1>1 DEF IInv, ProcInv, ProcType
    <2>4. proc[o].pc \in Queueing \cup Stepping \cup {"fold"}
      BY <2>1, <2>3 DEF Pcs, Preparing, Queueing, Stepping, Merging
    <2>5. Work(o) = Parent(r)
      BY <1>1, <2>1, <2>2, <2>3 DEF ChildInv
    <2> QED
      BY <2>1, <2>3, <2>4, <2>5 DEF WorkInv, Current
  <1> QED
    BY <1>1, <1>2, <1>3, <1>4, <1>5 DEF Aside

LEMMA CreateActionKeeps ==
    ASSUME IInv, NEW r \in Request, NEW q \in Process, q.request = r, CreateAction(q)
    PROVE  IInv'
  <1> DEFINE a == Parent(r)
             m == Frozen(r)
             new == NewRecord(Frozen(r), bound[r])
             rec == IF records[Parent(r)].phase = "absent" THEN new ELSE records[Parent(r)]
  <1>1. /\ TypeOK /\ RequestInv(r) /\ ProcInv(q) /\ proc[q].pc = "create"
        /\ UNCHANGED <<receipts, lease, refs, hosted, head, bound, conflicting, history>>
    BY DEF CreateAction, IInv
  <1>2. /\ Work(q) = a /\ (~ Conflicts(r) => a \in refs)
        /\ q.role = "owner" /\ ~ Conflicts(r) => records[a].phase \in {"absent", "prepared"}
    BY <1>1 DEF ProcInv, WorkInv, PrepareInv, Preparing
  <1>3. /\ RecordOk(a, records[a], refs, published, merged, receipts)
        /\ records[a] \in Record /\ QueueInv(r) /\ ComposeInv(r)
        /\ a.ticket = Whole /\ a.request = r /\ a \in Action
    BY <1>1, ActionNames DEF RequestInv, RecordInv, TypeOK
  <1>4. GoodMembers(r, m) /\ m \in Seq(Ticket) /\ bound[r] \in Nat
    BY <1>1, FrozenGood DEF GoodMembers, TypeOK
  <1>5. /\ new \in Record /\ new.phase = "prepared" /\ new.members = m
        /\ DOMAIN new.status = DOMAIN m
        /\ \A i \in DOMAIN new.status : new.status[i] = "preserved"
        /\ new.generation = 0 /\ new.waits = "nothing" /\ new.built = 0
        /\ new.intent = NoTarget /\ ~ new.ready /\ new.next = 1
    BY <1>4, NewRecordShape
  <1> HIDE DEF a, new, m
  <1>6. /\ rec \in Record /\ rec.phase # "absent"
        /\ \/ rec = records[a]
           \/ records[a].phase = "absent" /\ rec.phase = "prepared" /\ rec.generation = 0
        /\ rec.generation = 1 \/ records[a].generation # 1
        /\ RecordOk(a, rec, refs, published, merged, receipts)
        /\ ParentQueue(r, rec, records)
    <2>1. CASE records[a].phase = "absent"
      <3>1. rec = new /\ merged[a] = 0 /\ records[a].generation # 1
        BY <1>3, <2>1 DEF a, RecordOk, NoRecord
      <3>2. RecordOk(a, new, refs, published, merged, receipts)
        BY <1>3, <1>4, <1>5, <3>1 DEF RecordOk
      <3>3. ParentQueue(r, new, records)
        BY <1>5 DEF ParentQueue
      <3> QED
        BY <1>5, <2>1, <3>1, <3>2, <3>3
    <2>2. CASE records[a].phase # "absent"
      <3>1. rec = records[a]
        BY <2>2 DEF a
      <3>2. ParentQueue(r, rec, records)
        BY <1>3, <3>1 DEF QueueInv, QueueOk, a
      <3> QED
        BY <1>3, <2>2, <3>1, <3>2
    <2> QED
      BY <2>1, <2>2
  <1>7. CASE ~ Conflicts(r) /\ head # bound[r]
    <2>1. Return(q) /\ records' = records /\ prepared' = prepared /\ overtaken' = overtaken
      BY <1>7 DEF CreateAction
    <2> QED
      BY <1>1, <2>1, RoundType, EndingStep
  <1>8. CASE Conflicts(r) \/ head = bound[r]
    <2>1. /\ records' = [records EXCEPT ![a] = rec]
          /\ overtaken' = overtaken \ {q}
          /\ Conflicts(r) =>
                /\ proc' = [proc EXCEPT ![q].pc = "queue", ![q].rec = rec, ![q].preparing = TRUE]
                /\ prepared' = prepared
          /\ ~ Conflicts(r) => PreparationEnds(q, rec) /\ prepared' = prepared \ {r}
      BY <1>8, Zenon DEF CreateAction, Reads, a, new
    <2> HIDE DEF rec
    <2>2. /\ records' \in [Action -> Record] /\ records'[Parent(r)] = rec
          /\ \A b \in Action : b.request # r => records'[b] = records[b]
          /\ \A t \in Range(Offered[r]) : records'[Child(r, t)] = records[Child(r, t)]
          /\ \A b \in Action : b.request = r => RecordInv(b, records[b])'
      BY <1>1, <1>6, <2>1, ParentWrite DEF hosted, a
    <2>3. QueueInv(r)'
      BY <1>6, <2>2, QueueWrite DEF a
    <2>4. ComposeInv(r)'
      BY <1>1, <1>3, <1>6, <2>2 DEF ComposeInv, Conflicts, a
    <2>5. RequestInv(r)'
      BY <2>2, <2>3, <2>4 DEF RequestInv
    <2>6. /\ overtaken' \subseteq Process /\ prepared' \subseteq Request /\ q \notin overtaken'
          /\ \A s \in Process : s.request # r => (s \in overtaken' <=> s \in overtaken)
          /\ refs' \subseteq Action
      BY <1>1, <2>1 DEF TypeOK
    <2>7. /\ proc' \in [Process -> ProcType] /\ ProcInv(q)'
          /\ \A s \in Process \ {q} : proc'[s] = proc[s]
      <3>1. CASE Conflicts(r)
        <4> DEFINE x == [proc[q] EXCEPT !.pc = "queue", !.rec = rec, !.preparing = TRUE]
        <4>1. proc[q] \in ProcType
          BY Working
        <4>2. proc' = [proc EXCEPT ![q] = x]
          BY <1>1, <2>1, <3>1, <4>1 DEF TypeOK, ProcType
        <4>3. /\ x \in ProcType /\ x.pc = "queue" /\ x.work = a /\ x.rec = rec
          BY <1>2, <1>6, <4>1 DEF ProcType, Pcs, Work
        <4> HIDE DEF x
        <4>4. /\ proc' \in [Process -> ProcType] /\ proc'[q] = x
              /\ \A s \in Process \ {q} : proc'[s] = proc[s]
          BY <1>1, <4>2, <4>3, ProcWrites
        <4>5. rec.generation = 1 \/ rec.phase = "prepared"
          BY <1>3, <1>6, <3>1 DEF ComposeInv, a
        <4>6. Conflicts(r)'
          BY <1>1, <3>1 DEF Conflicts
        <4> QED
          BY <1>3, <1>6, <2>2, <4>3, <4>4, <4>5, <4>6
          DEF ProcInv, WorkInv, RoleInv, PrepareInv, BuildInv, StepInv, ChildInv, Preparing,
             Queueing, Stepping, Merging, Work, Rec, a
      <3>2. CASE ~ Conflicts(r) /\ q.role = "owner"
        <4>1. proc' = [proc EXCEPT ![q] = Resume(r, Parent(r), rec)]
          BY <2>1, <3>2 DEF PreparationEnds
        <4>2. rec.phase = "prepared" /\ Parent(r) \in refs
          BY <1>2, <1>6, <3>2 DEF a
        <4>3. rec.phase \notin Terminal \cup {"absent"}
          BY <4>2 DEF Terminal
        <4>4. /\ RecordOk(Parent(r), rec, refs, published, merged, receipts)
              /\ ParentQueue(r, rec, records) /\ rec \in Record
          BY <1>6 DEF a
        <4> QED
          BY <1>1, <2>2, <2>5, <2>6, <3>2, <4>1, <4>2, <4>3, <4>4, ResumeOwner
      <3>3. CASE ~ Conflicts(r) /\ q.role # "owner"
        <4>1. Return(q)
          BY <2>1, <3>3 DEF PreparationEnds, Return
        <4> QED
          BY <1>1, <2>6, <4>1, ReturnWrites
      <3> QED
        BY <3>1, <3>2, <3>3
    <2>8. Aside(Other(q))
      <3>1. /\ records' = [records EXCEPT ![Parent(r)] = rec] /\ rec \in Record
            /\ \/ rec = records[Parent(r)]
               \/ records[Parent(r)].phase = "absent" /\ rec.phase = "prepared"
        BY <1>6, <2>1 DEF a
      <3> QED
        BY <1>1, <2>1, <2>7, <3>1, FirstRecordAside
    <2> QED
      BY <1>1, <2>2, <2>5, <2>6, <2>7, <2>8, WritingStep
  <1> QED
    BY <1>7, <1>8

LEMMA FinishQueueKeeps ==
    ASSUME IInv, NEW r \in Request, NEW q \in Process, q.request = r, FinishQueue(q)
    PROVE  IInv'
  <1> DEFINE rec == Rec(q)
             done == [Rec(q) EXCEPT !.ready = TRUE]
  <1>1. /\ TypeOK /\ proc[q].pc = "build" /\ rec.intent = NoTarget
        /\ rec.built = Len(rec.members)
        /\ UNCHANGED <<receipts, lease, refs, hosted, head, bound, conflicting, history>>
    BY DEF FinishQueue, IInv
  <1>2. CASE q \in overtaken
    <2>1. Return(q) /\ UNCHANGED <<records, prepared, overtaken>>
      BY <1>2 DEF FinishQueue
    <2> QED
      BY <1>1, <2>1, RoundType, EndingStep
  <1>3. CASE q \notin overtaken
    <2>1. /\ rec \in Record /\ rec.phase = "wait" /\ rec.generation = 1 /\ ~ rec.ready
          /\ RecordOk(Parent(r), rec, refs, published, merged, receipts)
          /\ ParentQueue(r, rec, records) /\ GoodMembers(r, rec.members)
          /\ q.role = "probe" => Conflicts(r)
      BY <1>1, <1>3, AtQueue DEF Queueing
    <2>2. done \in Record
      BY <2>1 DEF Record
    <2>3. /\ done.phase = "wait" /\ done.waits = rec.waits /\ done.generation = 1
          /\ done.status = rec.status /\ done.members = rec.members
          /\ done.built = rec.built /\ done.intent = rec.intent /\ done.retries = rec.retries
          /\ done.ready /\ done.next = rec.next
      BY <2>1 DEF Record
    <2>4. rec.next = 1 /\ 1 \in 1 .. Len(rec.members)
      <3>1. PICK m \in Seq(Ticket) : m = rec.members /\ m # <<>>
        BY <2>1 DEF GoodMembers
      <3>2. 1 \in 1 .. Len(m)
        BY <3>1
      <3> QED
        BY <2>1, <3>1, <3>2 DEF ParentQueue
    <2>5. /\ records' = [records EXCEPT ![Parent(r)] = done] /\ Overtakes(q)
          /\ proc[q].preparing => PreparationEnds(q, done) /\ prepared' = prepared \ {r}
          /\ ~ proc[q].preparing => Return(q) /\ prepared' = prepared
      BY <1>3 DEF FinishQueue
    <2> HIDE DEF done, rec
    <2>6. RecordOk(Parent(r), done, refs, published, merged, receipts)
      BY <2>1, <2>3 DEF RecordOk
    <2>7. ParentQueue(r, done, records)
      BY <1>1, <2>1, <2>3, <2>4 DEF ParentQueue
    <2>8. MayWrite(q, done) /\ done.phase # "absent" /\ prepared' \subseteq Request
      BY <1>1, <2>1, <2>3, <2>5 DEF MayWrite, TypeOK
    <2>9. \A s \in Process \ {q} : proc'[s] = proc[s]
      BY <1>1, <2>5 DEF PreparationEnds, Return, TypeOK
    <2>10. /\ RequestInv(r)' /\ records' \in [Action -> Record]
           /\ records'[Parent(r)] = done
           /\ \A t \in Range(Offered[r]) : records'[Child(r, t)] = records[Child(r, t)]
           /\ overtaken' \subseteq Process /\ q \notin overtaken'
      <3>1. PICK kept \in Record : kept = done
        BY <2>2
      <3>2. records' = [records EXCEPT ![Parent(r)] = kept]
        BY <2>5, <3>1
      <3>3. Overtakes(q)
        BY <2>5
      <3>4. MayWrite(q, kept)
        BY <2>8, <3>1
      <3>5. UNCHANGED <<receipts, lease, refs, hosted, head, bound, conflicting, history>>
        BY <1>1
      <3>6. RecordOk(Parent(r), kept, refs, published, merged, receipts)
        BY <2>6, <3>1
      <3>7. ParentQueue(r, kept, records)
        BY <2>7, <3>1
      <3>8. kept.phase # "absent"
        BY <2>8, <3>1
      <3>9. /\ RequestInv(r)' /\ records' \in [Action -> Record]
            /\ records'[Parent(r)] = kept
            /\ \A t \in Range(Offered[r]) : records'[Child(r, t)] = records[Child(r, t)]
            /\ overtaken' \subseteq Process /\ q \notin overtaken'
        <4>1. RequestInv(r)'
          BY <2>9, <3>2, <3>3, <3>4, <3>5, <3>6, <3>7, <3>8, ParentWritten
        <4>2. records' \in [Action -> Record] /\ records'[Parent(r)] = kept
          BY <1>1, <3>2, RecordWrites, ActionNames
        <4>3. \A t \in Range(Offered[r]) : records'[Child(r, t)] = records[Child(r, t)]
          BY <2>9, <3>2, <3>3, <3>4, <3>5, <3>6, <3>7, <3>8, ParentWritten
        <4>4. overtaken' \subseteq Process /\ q \notin overtaken'
          BY <2>9, <3>2, <3>3, <3>4, <3>5, <3>6, <3>7, <3>8, ParentWritten
        <4> QED
          BY <4>1, <4>2, <4>3, <4>4
      <3> QED
        BY <3>1, <3>9
    <2>11. proc' \in [Process -> ProcType] /\ ProcInv(q)'
      <3>1. CASE proc[q].preparing /\ q.role = "owner"
        <4>1. proc' = [proc EXCEPT ![q] = Resume(r, Parent(r), done)]
          BY <2>5, <3>1 DEF PreparationEnds
        <4>2. done.phase \notin Terminal \cup {"absent"} /\ done.phase # "prepared"
          BY <2>3 DEF Terminal
        <4> QED
          BY <1>1, <2>2, <2>6, <2>7, <2>8, <2>10, <3>1, <4>1, <4>2, ResumeOwner
      <3>2. CASE ~ (proc[q].preparing /\ q.role = "owner")
        <4>1. Return(q)
          BY <2>5, <3>2 DEF PreparationEnds, Return
        <4> QED
          BY <1>1, <2>10, <4>1, ReturnWrites
      <3> QED
        BY <3>1, <3>2
    <2> QED
      BY <1>1, <2>2, <2>5, <2>6, <2>7, <2>8, <2>9, <2>11, ParentStep
  <1> QED
    BY <1>2, <1>3

\* The queue of a request with one of its Singletons written.
LEMMA ChildWrite ==
    ASSUME IInv, NEW r \in Request, NEW t \in Range(Offered[r]), NEW rec \in Record,
           records' = [records EXCEPT ![Child(r, t)] = rec],
           refs \subseteq refs', published' = published, merged' = merged, receipts' = receipts,
           RecordOk(Child(r, t), rec, refs', published, merged, receipts),
           records[Parent(r)].generation = 1, rec.phase # "absent",
           records[Child(r, t)].phase \notin {"complete", "decision"},
           Parent(r) \in refs' => Parent(r) \in refs, conflicting' = conflicting
    PROVE  /\ records' \in [Action -> Record] /\ records'[Child(r, t)] = rec
           /\ records'[Parent(r)] = records[Parent(r)]
           /\ \A a \in Action : a.request # r => records'[a] = records[a]
           /\ RequestInv(r)'
  <1> DEFINE c == Child(r, t)
             p == records[Parent(r)]
  <1>1. TypeOK /\ c \in Action /\ c.request = r /\ c # Parent(r) /\ Parent(r) \in Action
    BY ActionNames DEF IInv
  <1> HIDE DEF c
  <1>2. /\ records' \in [Action -> Record] /\ records'[c] = rec
        /\ \A b \in Action \ {c} : records'[b] = records[b]
    BY <1>1, RecordWrites DEF c
  <1>3. records'[Parent(r)] = p
    BY <1>1, <1>2
  <1>4. ASSUME NEW a \in Action, a.request = r PROVE RecordInv(a, records[a])'
    <2>1. CASE a = c
      BY <1>2, <2>1 DEF RecordInv, c
    <2>2. CASE a # c
      BY <1>2, <1>4, <2>2, RecordGrows DEF IInv, RequestInv, RecordInv
    <2> QED
      BY <2>1, <2>2
  <1>5. GoodMembers(r, p.members) /\ DOMAIN p.status = DOMAIN p.members /\ p.built \in Nat
    <2>1. p \in Record /\ RecordInv(Parent(r), p) /\ Parent(r).request = r
      BY <1>1, ActionNames DEF IInv, RequestInv, TypeOK
    <2>2. p.phase # "absent"
      BY <2>1 DEF RecordInv, RecordOk, Settled, Terminal
    <2> QED
      BY <2>1, <2>2 DEF RecordInv, RecordOk, Record
  <1>6. ASSUME NEW i \in DOMAIN p.members
        PROVE  LET d == Child(r, p.members[i])
               IN  /\ records[d].phase # "absent" => records'[d].phase # "absent"
                   /\ records[d].phase = "complete" => records'[d].phase = "complete"
                   /\ records[d].phase = "decision" => records'[d].phase = "decision"
    <2>1. Child(r, p.members[i]) \in Action
      BY <1>5, MemberNames
    <2>2. CASE Child(r, p.members[i]) = c
      BY <1>2, <2>2 DEF c
    <2>3. CASE Child(r, p.members[i]) # c
      BY <1>2, <2>1, <2>3
    <2> QED
      BY <2>2, <2>3
  <1>7. p.built <= Len(p.members) => \A i \in 1 .. p.built : i \in DOMAIN p.members
    BY <1>5 DEF GoodMembers
  <1>8. ParentQueue(r, p, records)
    BY DEF IInv, RequestInv, QueueInv, QueueOk
  <1> HIDE DEF p
  <1>9. ParentQueue(r, p, records')
    BY <1>5, <1>6, <1>7, <1>8 DEF ParentQueue
  <1>10. QueueInv(r)'
    BY <1>3, <1>9 DEF QueueInv, QueueOk, p
  <1>11. ComposeInv(r)'
    BY <1>3, ComposeKept DEF IInv, RequestInv, p
  <1> QED
    BY <1>1, <1>2, <1>3, <1>4, <1>10, <1>11 DEF RequestInv, c, p

LEMMA BuildSingletonKeeps ==
    ASSUME IInv, NEW r \in Request, NEW q \in Process, q.request = r, BuildSingleton(q)
    PROVE  IInv'
  <1> DEFINE rec == Rec(q)
             t == Rec(q).members[Rec(q).built + 1]
             c == Child(r, t)
             new == NewRecord(<<t>>, Rec(q).intent)
             made == IF records[c].phase = "absent" THEN new ELSE records[c]
  <1>1. /\ TypeOK /\ RequestInv(r) /\ proc[q].pc = "build" /\ rec.intent # NoTarget
        /\ UNCHANGED <<prepared, receipts, lease, overtaken, hosted, head, bound, conflicting, history>>
    BY DEF BuildSingleton, IInv
  <1>2. /\ rec \in Record /\ rec.phase = "wait" /\ rec.generation = 1 /\ ~ rec.ready
        /\ Work(q) = Parent(r) /\ records[Parent(r)].generation = 1
        /\ GoodMembers(r, rec.members) /\ rec.built < Len(rec.members)
        /\ q.role = "probe" => Conflicts(r)
    BY <1>1, AtQueue DEF Queueing
  <1>3. rec.built + 1 \in DOMAIN rec.members /\ rec.intent \in Nat
    <2>1. rec.built \in Nat /\ rec.built < Len(rec.members) /\ Len(rec.members) \in Nat
      BY <1>2 DEF Record, GoodMembers
    <2>2. rec.intent \in Nat
      BY <1>1, <1>2 DEF Record
    <2> QED
      BY <1>2, <2>1, <2>2 DEF GoodMembers
  <1>4. /\ c \in Action /\ c.request = r /\ c # Parent(r) /\ c.ticket = t /\ t # Whole
        /\ t \in Range(Offered[r]) /\ t \in Ticket
    BY <1>2, <1>3, MemberNames
  <1>5. CASE \/ head # rec.intent
             \/ records[c].phase # "absent" /\ records[c].target # head
    <2>1. Return(q) /\ refs' = refs /\ records' = records
      BY <1>5, Zenon DEF BuildSingleton
    <2> QED
      BY <1>1, <2>1, RoundType, EndingStep
  <1>6. CASE ~ \/ head # rec.intent
               \/ records[c].phase # "absent" /\ records[c].target # head
    <2>1. /\ refs' = refs \cup {c} /\ Goto(q, "append")
          /\ records' = [records EXCEPT ![c] = made]
      BY <1>6, Zenon DEF BuildSingleton
    <2>2. RecordOk(c, records[c], refs, published, merged, receipts) /\ records[c] \in Record
      BY <1>1, <1>4 DEF RequestInv, RecordInv, TypeOK
    <2> HIDE DEF c, t
    <2>3. /\ new \in Record /\ new.phase = "prepared" /\ new.members = <<t>>
          /\ DOMAIN new.status = DOMAIN <<t>>
          /\ \A i \in DOMAIN new.status : new.status[i] = "preserved"
          /\ new.generation = 0 /\ new.waits = "nothing"
      <3>1. PICK one \in Seq(Ticket) : one = <<t>>
        <4>1. t \in Ticket
          BY <1>4
        <4>2. <<t>> \in Seq(Ticket)
          BY <4>1
        <4> QED
          BY <4>2, Zenon
      <3>2. PICK target \in Nat : target = Rec(q).intent
        BY <1>3
      <3>3. new = NewRecord(one, target)
        BY <3>1, <3>2
      <3> HIDE DEF new
      <3>4. /\ new \in Record /\ new.phase = "prepared" /\ new.members = one
            /\ DOMAIN new.status = DOMAIN one
            /\ \A i \in DOMAIN new.status : new.status[i] = "preserved"
            /\ new.generation = 0 /\ new.waits = "nothing"
        BY <3>3, NewRecordShape
      <3> QED
        BY <3>1, <3>4
    <2> HIDE DEF new, rec
    <2>4. /\ made \in Record /\ made.phase # "absent"
          /\ RecordOk(c, made, refs', published, merged, receipts)
      <3>1. CASE records[c].phase = "absent"
        <4>1. made = new /\ merged[c] = 0
          BY <2>2, <3>1 DEF RecordOk
        <4>2. GoodMembers(r, <<t>>)
          BY <1>4 DEF GoodMembers, Range
        <4>3. c \in refs'
          BY <2>1
        <4> HIDE DEF made
        <4>4. RecordOk(c, new, refs', published, merged, receipts)
          BY <1>4, <2>3, <4>1, <4>2, <4>3 DEF RecordOk
        <4> QED
          BY <2>3, <4>1, <4>4
      <3>2. CASE records[c].phase # "absent"
        <4>1. made = records[c]
          BY <3>2
        <4> HIDE DEF made
        <4>2. RecordOk(c, made, refs', published, merged, receipts)
          BY <2>1, <2>2, <4>1, RecordGrows
        <4> QED
          BY <2>2, <3>2, <4>1, <4>2
      <3> QED
        BY <3>1, <3>2
    <2>5. PICK kept \in Record : kept = made
      BY <2>4
    <2> HIDE DEF made
    <2>6. /\ proc' \in [Process -> ProcType]
          /\ \A s \in Process \ {q} : proc'[s] = proc[s]
          /\ proc'[q].pc = "append" /\ Work(q)' = Work(q) /\ Rec(q)' = Rec(q)
      BY <1>1, <2>1, GotoWrites DEF Work, Rec, Pcs
    <2>7. /\ prepared' \subseteq Request /\ overtaken' \subseteq Process
          /\ \A s \in Process : (s \in overtaken' <=> s \in overtaken)
      BY <1>1 DEF TypeOK
    <2>8. /\ refs' \subseteq Action /\ refs \subseteq refs'
          /\ \A a \in Action : a # c => (a \in refs' <=> a \in refs)
          /\ Parent(r) \in Action
      BY <1>1, <1>4, <2>1, ActionNames DEF TypeOK
    <2>9. records' = [records EXCEPT ![c] = kept] /\ kept.phase # "absent"
      BY <2>1, <2>4, <2>5
    <2>10. /\ records' \in [Action -> Record] /\ records'[c].phase # "absent"
           /\ records'[Parent(r)] = records[Parent(r)]
           /\ \A a \in Action : a.request # r => records'[a] = records[a]
           /\ \A a \in Action : records[a].phase # "absent" => records'[a] = records[a]
           /\ RequestInv(r)'
      <3>1. CASE records[c].phase = "absent"
        <4>1. /\ records' \in [Action -> Record] /\ records'[c] = kept
              /\ records'[Parent(r)] = records[Parent(r)]
              /\ \A a \in Action : a.request # r => records'[a] = records[a]
              /\ RequestInv(r)'
          <5>1. RecordOk(Child(r, t), kept, refs', published, merged, receipts)
            BY <2>4, <2>5 DEF c
          <5>3. t \in Range(Offered[r])
            BY <1>4
          <5>7. records' = [records EXCEPT ![Child(r, t)] = kept]
            BY <2>9 DEF c
          <5>9. refs \subseteq refs'
            BY <2>8
          <5>4. records[Child(r, t)].phase \notin {"complete", "decision"}
            BY <3>1 DEF c
          <5>5. Parent(r) \in refs' => Parent(r) \in refs
            BY <1>4, <2>8
          <5>6. conflicting' = conflicting
            BY <1>1
          <5>10. published' = published
            BY <1>1 DEF hosted
          <5>11. merged' = merged
            BY <1>1 DEF hosted
          <5>12. receipts' = receipts
            BY <1>1
          <5>13. records[Parent(r)].generation = 1
            BY <1>2
          <5>14. kept.phase # "absent"
            BY <2>9
          <5>15. RequestInv(r)'
            BY <5>1, <5>3, <5>4, <5>5, <5>6, <5>7, <5>9, <5>10, <5>11, <5>12, <5>13, <5>14, ChildWrite
          <5>16. /\ records' \in [Action -> Record] /\ records'[c] = kept
                 /\ \A b \in Action \ {c} : records'[b] = records[b]
            BY <1>1, <1>4, <2>9, RecordWrites
          <5> QED
            BY <1>4, <2>8, <5>15, <5>16
        <4>2. \A a \in Action : records[a].phase # "absent" => records'[a] = records[a]
          BY <1>1, <1>4, <2>9, <3>1, RecordWrites
        <4> QED
          BY <2>9, <4>1, <4>2
      <3>2. CASE records[c].phase # "absent"
        <4>1. records' = records /\ records \in [Action -> Record]
          BY <1>1, <2>1, <3>2 DEF TypeOK, made
        <4>2. /\ \A a \in Action : a.request = r => RecordInv(a, records[a])'
              /\ QueueInv(r)'
          BY <1>1, <2>8, <4>1, RecordsKept DEF Grows, hosted
        <4>3. ComposeInv(r)'
          BY <1>1, <1>4, <2>8, <4>1, ComposeKept DEF RequestInv
        <4> QED
          BY <3>2, <4>1, <4>2, <4>3 DEF RequestInv
      <3> QED
        BY <3>1, <3>2
    <2>11. (Conflicts(r)' <=> Conflicts(r)) /\ RoleInv(q)
      BY <1>1 DEF Conflicts, IInv, ProcInv
    <2>12. ProcInv(q)'
      <3>1. WorkInv(q)' /\ PrepareInv(q)' /\ StepInv(q)' /\ ChildInv(q)'
        <4>1. WorkInv(q)
          BY DEF IInv, ProcInv
        <4> QED
          BY <1>1, <1>2, <2>6, <2>7, <2>10, <4>1, ActionNames
          DEF WorkInv, PrepareInv, StepInv, ChildInv, Preparing, Queueing, Stepping, Merging,
             Current
      <3>2. BuildInv(q)'
        BY <1>1, <1>2, <2>6, <2>10 DEF BuildInv, rec, c, t
      <3>3. RoleInv(q)'
        BY <1>2, <2>6, <2>7, <2>11 DEF RoleInv, Queueing, Stepping, Merging
      <3> QED
        BY <3>1, <3>2, <3>3 DEF ProcInv
    <2>13. Aside(Other(q))
      <3>1. Other(q) \in Process /\ Other(q).request = r /\ Other(q) # q
        BY ProcessNames
      <3>2. \A a \in Action : Grows(a) /\ (lease = a => lease' = a) /\ (a \in refs => a \in refs')
        BY <1>1, <2>8 DEF Grows, hosted
      <3> QED
        BY <1>1, <2>6, <2>7, <2>10, <3>1, <3>2 DEF Aside
    <2> QED
      BY <1>1, <1>4, <2>6, <2>7, <2>8, <2>10, <2>12, <2>13, WritingStep
  <1> QED
    BY <1>5, <1>6

LEMMA CommitKeeps ==
    ASSUME IInv, NEW r \in Request, NEW q \in Process, q.request = r, Commit(q)
    PROVE  IInv'
  <1> DEFINE a == Work(q)
             rec == Rec(q)
             next == proc[q].next
             x == IF next.phase \notin Settled
                  THEN [Idle EXCEPT !.pc = "step", !.work = a, !.rec = next]
                  ELSE IF a = Parent(r) THEN Idle
                  ELSE [Idle EXCEPT !.pc = "fold", !.work = a, !.rec = next]
  <1>1. /\ TypeOK /\ RequestInv(r) /\ ProcInv(q) /\ proc[q].pc = "commit"
        /\ records' = [records EXCEPT ![a] = next]
        /\ proc' = [proc EXCEPT ![q] = x]
        /\ a = Parent(r) => Overtakes(q)
        /\ a # Parent(r) => overtaken' = overtaken
        /\ UNCHANGED <<prepared, receipts, lease, refs, hosted, head, bound, conflicting,
                       history>>
    BY DEF Commit, IInv
  <1>2. /\ a \in Action /\ a.request = r /\ rec = records[a] /\ rec.generation = 0
        /\ rec.phase \notin Terminal \cup {"absent"} /\ a \in refs
        /\ q.role = "owner" /\ (Conflicts(r) => a # Parent(r))
        /\ (Conflicts(r)' <=> Conflicts(r))
    BY <1>1, AtStep DEF Stepping, Conflicts
  <1>3. /\ RecordOk(a, next, refs, published, merged, receipts)
        /\ next.phase \notin {"absent", "prepared"}
        /\ next.generation = 0 /\ next.members = rec.members
        /\ next.built = rec.built /\ next.intent = rec.intent
        /\ next.ready = rec.ready /\ next.next = rec.next
    BY <1>1 DEF ProcInv, StepInv, Stepping, RecordInv
  <1>4. next \in Record /\ next.phase \in Phases
    <2>1. next \in Record
      BY Working
    <2> QED
      BY <2>1 DEF Record
  <1>5. PICK kept \in Record : kept = next
    BY <1>4
  <1> HIDE DEF next, rec, a
  <1>6. /\ x \in ProcType
        /\ x.pc = "idle" \/ (x.pc \in {"step", "fold"} /\ x.work = a /\ x.rec = next)
        /\ x.pc = "step" => next.phase \notin Settled
        /\ x.pc = "fold" => a # Parent(r) /\ next.phase \in Settled
    <2>1. x \in ProcType
      BY <1>2, <1>4, BasicTypes DEF ProcType, Pcs
    <2> QED
      BY <2>1 DEF Idle
  <1> HIDE DEF x
  <1>7. /\ proc' \in [Process -> ProcType] /\ proc'[q] = x
        /\ \A s \in Process \ {q} : proc'[s] = proc[s]
    BY <1>1, <1>6, ProcWrites
  <1>8. /\ records' \in [Action -> Record] /\ records'[a] = next
        /\ \A b \in Action \ {a} : records'[b] = records[b]
    BY <1>1, <1>2, <1>4, RecordWrites
  <1>9. /\ RequestInv(r)' /\ Aside(Other(q))
        /\ overtaken' \subseteq Process /\ (q \notin overtaken => q \notin overtaken')
        /\ \A s \in Process : s.request # r => (s \in overtaken' <=> s \in overtaken)
    <2>1. CASE a = Parent(r)
      <3>1. RecordOk(Parent(r), kept, refs, published, merged, receipts)
        BY <1>3, <1>5, <2>1
      <3>2. ParentQueue(r, rec, records)
        BY <1>1, <1>2, <2>1 DEF RequestInv, QueueInv, QueueOk
      <3>3. ParentQueue(r, kept, records)
        BY <1>2, <1>3, <1>5, <3>2 DEF ParentQueue
      <3>4. MayWrite(q, kept)
        BY <1>2, <2>1, ProcessNames DEF MayWrite
      <3>5. kept.phase # "absent"
        BY <1>3, <1>5
      <3>6. records' = [records EXCEPT ![Parent(r)] = kept]
        BY <1>1, <1>5, <2>1
      <3>7. Overtakes(q)
        BY <1>1, <2>1
      <3>8. UNCHANGED <<receipts, lease, refs, hosted, head, bound, conflicting, history>>
        BY <1>1
      <3>9. \A s \in Process \ {q} : proc'[s] = proc[s]
        BY <1>7
      <3>10. RequestInv(r)'
        BY <3>1, <3>3, <3>4, <3>5, <3>6, <3>7, <3>8, <3>9, ParentWritten
      <3>11. Aside(Other(q))
        BY <3>1, <3>3, <3>4, <3>5, <3>6, <3>7, <3>8, <3>9, ParentWritten
      <3> QED
        BY <1>1, <3>7, <3>10, <3>11, OvertakesWrites
    <2>2. CASE a # Parent(r)
      <3> DEFINE p == records[Parent(r)]
      <3>1. p.generation = 1
        BY <1>1, <2>2 DEF ProcInv, ChildInv, a
      <3>2. PICK t \in Range(Offered[r]) : a = Child(r, t)
        BY <1>2, <2>2, ActionNames
      <3>3. records' = [records EXCEPT ![Child(r, t)] = kept]
        BY <1>1, <1>5, <3>2
      <3>4. records[Child(r, t)].phase \notin {"complete", "decision"}
        BY <1>2, <3>2 DEF Terminal
      <3>5. RecordOk(Child(r, t), kept, refs', published, merged, receipts)
        BY <1>1, <1>3, <1>5, <3>2
      <3>6. records[Parent(r)].generation = 1
        BY <3>1
      <3>7. kept.phase # "absent"
        BY <1>3, <1>5
      <3>8. published' = published
        BY <1>1 DEF hosted
      <3>9. merged' = merged
        BY <1>1 DEF hosted
      <3>10. receipts' = receipts
        BY <1>1
      <3>11. refs \subseteq refs'
        BY <1>1
      <3>12. Parent(r) \in refs' => Parent(r) \in refs
        BY <1>1
      <3>13. conflicting' = conflicting
        BY <1>1
      <3>14. RequestInv(r)'
        BY <3>3, <3>4, <3>5, <3>6, <3>7, <3>8, <3>9, <3>10, <3>11, <3>12, <3>13, ChildWrite
      <3>15. overtaken' = overtaken
        BY <1>1, <2>2
      <3>16. Aside(Other(q))
        <4>1. PICK o \in Process : o = Other(q) /\ o.request = r /\ o # q /\ o.role # "owner"
          BY <1>2, ProcessNames
        <4>2. records'[Parent(r)] = records[Parent(r)]
          BY <1>8, <2>2, ActionNames
        <4>3. \A b \in Action : b \in refs => b \in refs'
          BY <1>1
        <4>4. \A b \in Action : records[b].phase # "absent" => records'[b].phase # "absent"
          BY <1>3, <1>8
        <4>5. proc'[o] = proc[o]
          BY <1>7, <4>1
        <4>6. Aside(o)
          BY <3>13, <3>15, <4>1, <4>2, <4>3, <4>4, <4>5 DEF Aside
        <4> QED
          BY <4>1, <4>6
      <3> QED
        BY <1>1, <3>14, <3>15, <3>16 DEF TypeOK
    <2> QED
      BY <2>1, <2>2
  <1>10. q \in overtaken' => a # Parent(r) /\ Conflicts(r)
    <2>1. ASSUME q \in overtaken' PROVE a # Parent(r)
      BY <1>1, <2>1, OvertakesWrites
    <2>2. ~ Conflicts(r) => q \notin overtaken
      BY <1>1, <1>2 DEF ProcInv, RoleInv
    <2> QED
      BY <1>9, <2>1, <2>2
  <1>11. ProcInv(q)'
    <2>1. WorkInv(q)' /\ PrepareInv(q)' /\ BuildInv(q)' /\ RoleInv(q)'
      BY <1>2, <1>3, <1>6, <1>7, <1>8, <1>10
      DEF WorkInv, RoleInv, PrepareInv, BuildInv, Preparing, Queueing, Stepping, Merging,
         Work, Rec
    <2>2. StepInv(q)'
      BY <1>1, <1>2, <1>3, <1>6, <1>7 DEF StepInv, Stepping, Merging, Work, Rec, Settled
    <2>3. ChildInv(q)'
      <3>1. a # Parent(r) => records'[Parent(r)] = records[Parent(r)] /\ overtaken' = overtaken
        BY <1>1, <1>8, ActionNames
      <3>2. ChildInv(q) /\ Work(q) = a
        BY <1>1 DEF ProcInv, a
      <3> QED
        BY <1>1, <1>6, <1>7, <3>1, <3>2 DEF ChildInv, Work, Rec
    <2> QED
      BY <2>1, <2>2, <2>3 DEF ProcInv
  <1>12. /\ refs' \subseteq Action /\ prepared' \subseteq Request
         /\ \A b \in Action : b.request # r => records'[b] = records[b]
    BY <1>1, <1>2, <1>8 DEF TypeOK
  <1> QED
    BY <1>1, <1>7, <1>8, <1>9, <1>11, <1>12, WritingStep

\* A call that ends by writing the record of its request.
LEMMA EndingWrite ==
    ASSUME IInv, NEW r \in Request, NEW q \in Process, q.request = r, NEW rec \in Record,
           records' = [records EXCEPT ![Parent(r)] = rec], Overtakes(q), MayWrite(q, rec),
           Return(q),
           UNCHANGED <<prepared, receipts, lease, refs, hosted, head, bound, conflicting,
                       history>>,
           RecordOk(Parent(r), rec, refs, published, merged, receipts), rec.phase # "absent",
           ParentQueue(r, rec, records)
    PROVE  IInv'
  <1>1. TypeOK /\ prepared' \subseteq Request
    BY DEF IInv, TypeOK
  <1>2. q \notin overtaken'
    BY <1>1, OvertakesWrites
  <1>3. /\ proc' \in [Process -> ProcType] /\ ProcInv(q)'
        /\ \A s \in Process \ {q} : proc'[s] = proc[s]
    BY <1>1, <1>2, ReturnWrites
  <1> QED
    BY <1>1, <1>3, ParentStep

LEMMA BlockIdentityFailureKeeps ==
    ASSUME IInv, NEW r \in Request, NEW q \in Process, q.request = r, BlockIdentityFailure(q)
    PROVE  IInv'
  <1> DEFINE a == Parent(r)
             p == records[Parent(r)]
             status == [i \in DOMAIN p.status |-> "blocked"]
             next == [p EXCEPT !.phase = "blocked", !.status = status]
  <1>1. /\ TypeOK /\ RequestInv(r) /\ ProcInv(q) /\ proc[q].pc = "mismatch" /\ a \in Action
        /\ Return(q) /\ Overtakes(q)
        /\ UNCHANGED <<prepared, receipts, lease, refs, hosted, head, bound, conflicting,
                       history>>
    BY ActionNames DEF BlockIdentityFailure, IInv
  <1>2. p \in Record /\ records' = [records EXCEPT ![a] = next]
    <2>1. p \in Record
      BY <1>1 DEF TypeOK
    <2>2. records' = [records EXCEPT ![a] = next]
      BY DEF BlockIdentityFailure
    <2> QED
      BY <2>1, <2>2
  <1>3. /\ RecordOk(a, p, refs, published, merged, receipts) /\ QueueInv(r)
        /\ a.ticket = Whole /\ a.request = r
    BY <1>1, ActionNames DEF RequestInv, RecordInv
  <1>4. /\ p.phase # "absent" /\ (p.generation = 0 => p.phase = "hosted")
        /\ q.role = "owner" /\ (Conflicts(r) => p.generation = 1)
    <2>1. CASE Work(q) = a
      BY <1>1, <2>1, AtStep DEF ProcInv, StepInv, Stepping, Merging
    <2>2. CASE Work(q) # a
      <3>1. p.generation = 1
        BY <1>1, <2>2 DEF ProcInv, ChildInv
      <3>2. p.phase # "absent" /\ q.role = "owner"
        BY <1>1, <1>3, <3>1, AtStep DEF RecordOk, NoRecord, Stepping, Merging
      <3> QED
        BY <3>1, <3>2
    <2> QED
      BY <2>1, <2>2
  <1>5. ParentQueue(r, p, records) /\ p.generation \in {0, 1}
    BY <1>2, <1>3 DEF QueueInv, QueueOk, Record
  <1>6. /\ status \in Seq(Statuses) /\ DOMAIN status = DOMAIN p.status
        /\ \A i \in DOMAIN status : status[i] = "blocked"
    BY <1>2 DEF Record, Statuses
  <1> HIDE DEF status, p
  <1>7. next \in Record
    BY <1>2, <1>6, Zenon DEF Record, Phases, Settled, Terminal
  <1>8. /\ next.phase = "blocked" /\ next.waits = p.waits /\ next.generation = p.generation
        /\ next.status = status /\ next.members = p.members
        /\ next.built = p.built /\ next.intent = p.intent /\ next.retries = p.retries
        /\ next.ready = p.ready /\ next.next = p.next
    BY <1>2 DEF Record
  <1> HIDE DEF next, a
  <1>9. RecordOk(a, next, refs, published, merged, receipts)
    BY <1>3, <1>4, <1>5, <1>6, <1>8 DEF RecordOk, Settled, Terminal
  <1>10. ParentQueue(r, next, records)
    BY <1>5, <1>6, <1>8 DEF ParentQueue
  <1>11. PICK kept \in Record : kept = next
    BY <1>7
  <1>12. records' = [records EXCEPT ![Parent(r)] = kept]
    BY <1>2, <1>11 DEF a
  <1>13. MayWrite(q, kept)
    BY <1>4, <1>5, <1>8, <1>11 DEF MayWrite, p
  <1>14. UNCHANGED <<prepared, receipts, lease, refs, hosted, head, bound, conflicting, history>>
    BY <1>1
  <1>15. RecordOk(Parent(r), kept, refs, published, merged, receipts)
    BY <1>9, <1>11 DEF a
  <1>16. ParentQueue(r, kept, records)
    BY <1>10, <1>11
  <1>17. kept.phase # "absent"
    BY <1>8, <1>11
  <1>18. Return(q)
    BY <1>1
  <1>19. Overtakes(q)
    BY <1>1
  <1> QED
    BY <1>12, <1>13, <1>14, <1>15, <1>16, <1>17, <1>18, <1>19, EndingWrite

LEMMA FoldedShape ==
    ASSUME NEW p \in Record, NEW child, p.next \in DOMAIN p.members,
           DOMAIN p.status = DOMAIN p.members, p.phase = "wait",
           child.phase \in Settled
    PROVE  LET f == Folded(p, child)
               i == p.next
           IN  /\ f \in Record /\ DOMAIN f.status = DOMAIN p.members
               /\ f.waits = p.waits /\ f.generation = p.generation /\ f.members = p.members
               /\ f.built = p.built /\ f.intent = p.intent /\ f.retries = p.retries
               /\ f.ready = p.ready
               /\ f.phase \in {"wait", "complete", "decision", "blocked"}
               /\ f.phase = "wait" =>
                     f.next = i \/ (f.next = i + 1 /\ i # Len(p.members))
               /\ f.phase = "complete" =>
                     \A j \in DOMAIN f.status : f.status[j] = "integrated"
               /\ \A j \in DOMAIN f.status :
                     /\ f.status[j] = "integrated" =>
                           p.status[j] = "integrated" \/ (j = i /\ child.phase = "complete")
                     /\ f.status[j] = "resume_required" =>
                           j = i /\ (p.status[j] = "resume_required" \/ child.phase = "decision")
  <1> DEFINE i == p.next
             kept == [j \in DOMAIN p.status |->
                         IF j # i /\ p.status[j] = "resume_required"
                         THEN "preserved" ELSE p.status[j]]
             result == IF child.phase = "complete" THEN "integrated" ELSE "resume_required"
             status == [kept EXCEPT ![i] = result]
             last == i = Len(p.members)
             f == Folded(p, child)
             phase == IF last THEN Verdict(status) ELSE "wait"
  <1>1. /\ p.status \in Seq(Statuses) /\ p.members \in Seq(Ticket) /\ i \in Nat
    BY DEF Record
  <1>2. kept \in Seq(Statuses) /\ DOMAIN kept = DOMAIN p.members
    BY <1>1 DEF Statuses
  <1>3. /\ \A j \in DOMAIN kept :
              /\ kept[j] = "integrated" => p.status[j] = "integrated"
              /\ kept[j] = "resume_required" => j = i /\ p.status[j] = "resume_required"
    OBVIOUS
  <1> HIDE DEF kept
  <1>4. /\ status \in Seq(Statuses) /\ DOMAIN status = DOMAIN p.members
    BY <1>2 DEF Statuses
  <1>5. \A j \in DOMAIN status :
              /\ status[j] = "integrated" =>
                    p.status[j] = "integrated" \/ (j = i /\ child.phase = "complete")
              /\ status[j] = "resume_required" =>
                    j = i /\ (p.status[j] = "resume_required" \/ child.phase # "complete")
    BY <1>2, <1>3
  <1> HIDE DEF status
  <1>6. CASE child.phase = "blocked"
    <2>1. f = [p EXCEPT !.phase = "blocked", !.status = kept]
      BY <1>6 DEF Folded, kept
    <2>2. f \in Record
      BY <1>2, <2>1 DEF Record, Phases, Settled, Terminal
    <2>3. f.phase = "blocked" /\ f.status = kept
      BY <2>1 DEF Record
    <2> QED
      BY <1>2, <1>3, <2>1, <2>2, <2>3 DEF Record
  <1>7. CASE child.phase = "wait"
    <2>1. f = [p EXCEPT !.status = kept]
      BY <1>7 DEF Folded, kept
    <2>2. f \in Record
      BY <1>2, <2>1 DEF Record
    <2>3. f.phase = "wait" /\ f.status = kept /\ f.next = i
      BY <2>1 DEF Record
    <2> QED
      BY <1>2, <1>3, <2>1, <2>2, <2>3 DEF Record
  <1>8. CASE child.phase \in {"complete", "decision"}
    <2>1. f = [p EXCEPT !.status = status, !.next = i + 1, !.phase = phase]
      BY <1>8 DEF Folded, kept, status
    <2>2. /\ phase \in {"wait", "complete", "decision"}
          /\ phase = "wait" => ~ last
          /\ phase = "complete" => \A j \in DOMAIN status : status[j] = "integrated"
      BY DEF Verdict
    <2>3. i + 1 \in Nat
      BY <1>1
    <2> HIDE DEF phase
    <2>4. f \in Record
      BY <1>4, <2>1, <2>2, <2>3 DEF Record, Phases, Settled, Terminal
    <2>5. f.phase = phase /\ f.status = status /\ f.next = i + 1
      BY <2>1 DEF Record
    <2>6. /\ f.waits = p.waits /\ f.generation = p.generation /\ f.members = p.members
          /\ f.built = p.built /\ f.intent = p.intent /\ f.retries = p.retries
          /\ f.ready = p.ready
      BY <2>1 DEF Record
    <2> HIDE DEF f
    <2> QED
      BY <1>4, <1>5, <1>8, <2>2, <2>4, <2>5, <2>6 DEF f
  <1> QED
    BY <1>6, <1>7, <1>8 DEF Settled, Terminal

LEMMA FoldSingletonKeeps ==
    ASSUME IInv, NEW r \in Request, NEW q \in Process, q.request = r, FoldSingleton(q)
    PROVE  IInv'
  <1> DEFINE a == Parent(r)
             p == records[Parent(r)]
             child == Rec(q)
             f == Folded(p, child)
             i == p.next
  <1>1. /\ TypeOK /\ RequestInv(r) /\ ProcInv(q) /\ proc[q].pc = "fold" /\ a \in Action /\ a.request = r
        /\ a.ticket = Whole /\ Return(q)
        /\ UNCHANGED <<prepared, receipts, lease, refs, hosted, head, bound, conflicting,
                       history>>
    BY ActionNames DEF FoldSingleton, IInv
  <1>0. CASE q \in overtaken
    <2>1. UNCHANGED <<records, overtaken>>
      BY <1>0 DEF FoldSingleton
    <2> QED
      BY <1>1, <2>1, RoundType, EndingStep
  <1> SUFFICES ASSUME q \notin overtaken
               PROVE  IInv'
    BY <1>0
  <1>2. p \in Record /\ records' = [records EXCEPT ![a] = f] /\ Overtakes(q)
    BY <1>1 DEF FoldSingleton, TypeOK
  <1>3. /\ p.generation = 1 /\ p.ready /\ p.phase = "wait"
        /\ Work(q) = Child(r, p.members[i]) /\ child.phase \in Settled
        /\ child = records[Child(r, p.members[i])]
    BY <1>1 DEF ProcInv, ChildInv, WorkInv, Current
  <1>4. /\ RecordOk(a, p, refs, published, merged, receipts) /\ ParentQueue(r, p, records)
    BY <1>1 DEF RequestInv, RecordInv, QueueInv, QueueOk
  <1>5. GoodMembers(r, p.members) /\ DOMAIN p.status = DOMAIN p.members
    BY <1>1, <1>3, <1>4 DEF RecordOk
  <1>6. /\ i \in DOMAIN p.members /\ i \in 1 .. Len(p.members) /\ Len(p.members) \in Nat
    BY <1>3, <1>4, <1>5 DEF ParentQueue, GoodMembers
  <1> HIDE DEF f, child
  <1>7. /\ f \in Record /\ DOMAIN f.status = DOMAIN p.members
        /\ f.waits = p.waits /\ f.generation = p.generation /\ f.members = p.members
        /\ f.built = p.built /\ f.intent = p.intent /\ f.retries = p.retries
        /\ f.ready = p.ready
        /\ f.phase \in {"wait", "complete", "decision", "blocked"}
        /\ f.phase = "wait" => f.next = i \/ (f.next = i + 1 /\ i # Len(p.members))
        /\ f.phase = "complete" =>
              \A j \in DOMAIN f.status : f.status[j] = "integrated"
        /\ \A j \in DOMAIN f.status :
              /\ f.status[j] = "integrated" =>
                    p.status[j] = "integrated" \/ (j = i /\ child.phase = "complete")
              /\ f.status[j] = "resume_required" =>
                    j = i /\ (p.status[j] = "resume_required" \/ child.phase = "decision")
    <2>1. /\ p \in Record /\ p.next \in DOMAIN p.members /\ p.phase = "wait"
          /\ DOMAIN p.status = DOMAIN p.members /\ child.phase \in Settled
      BY <1>2, <1>3, <1>5, <1>6
    <2> HIDE DEF p
    <2> QED
      BY <2>1, FoldedShape DEF f
  <1>8. f.phase = "wait" => f.next \in 1 .. Len(p.members)
    BY <1>6, <1>7
  <1> HIDE DEF i, p, a
  <1>9. RecordOk(a, f, refs, published, merged, receipts)
    BY <1>1, <1>3, <1>4, <1>5, <1>7 DEF RecordOk, Settled, Terminal
  <1>10. ParentQueue(r, f, records)
    BY <1>3, <1>4, <1>5, <1>7, <1>8 DEF ParentQueue
  <1>11. PICK kept \in Record : kept = f
    BY <1>7
  <1>12. records' = [records EXCEPT ![Parent(r)] = kept]
    BY <1>2, <1>11 DEF a
  <1>13. MayWrite(q, kept)
    <2>1. q.role = "owner"
      BY <1>1, Working
    <2> QED
      BY <1>3, <1>7, <1>11, <2>1 DEF MayWrite
  <1>14. UNCHANGED <<prepared, receipts, lease, refs, hosted, head, bound, conflicting, history>>
    BY <1>1
  <1>15. RecordOk(Parent(r), kept, refs, published, merged, receipts)
    BY <1>9, <1>11 DEF a
  <1>16. ParentQueue(r, kept, records)
    BY <1>10, <1>11
  <1>17. kept.phase # "absent"
    BY <1>7, <1>11
  <1>18. Return(q)
    BY <1>1
  <1>19. Overtakes(q)
    BY <1>2
  <1> QED
    BY <1>12, <1>13, <1>14, <1>15, <1>16, <1>17, <1>18, <1>19, EndingWrite

------------------------------------------------------------------------------
(* The invariant holds of every reachable state.                           *)

LEMMA InitHolds ==
    ASSUME Init
    PROVE  IInv
  <1>1. /\ \A a \in Action : records[a] = NoRecord /\ merged[a] = 0
        /\ \A q \in Process : proc[q] = Idle
        /\ refs = {} /\ overtaken = {} /\ prepared = {}
    BY DEF Init
  <1>2. TypeOK
    <2>1. conflicting \in SUBSET Request
      BY DEF Init
    <2>2. records \in [Action -> Record] /\ proc \in [Process -> ProcType]
      BY <1>1, BasicTypes DEF Init
    <2>3. retried \in [Action -> SUBSET (1..RetryLimit)] /\ faults \in 0..MaxFault
      BY BatchBoundAssumption DEF Init
    <2> QED
      BY <1>1, <2>1, <2>2, <2>3 DEF Init, TypeOK, ProcType, Outcomes
  <1>3. ASSUME NEW r \in Request PROVE RequestInv(r)
    <2>1. /\ NoRecord.phase = "absent" /\ NoRecord.generation = 0 /\ NoRecord.status = <<>>
          /\ NoRecord.waits = "nothing" /\ NoRecord.built = 0 /\ NoRecord.intent = NoTarget
          /\ ~ NoRecord.ready /\ NoRecord.next = 1
      BY DEF NoRecord
    <2>2. ASSUME NEW a \in Action PROVE RecordInv(a, records[a])
      BY <1>1, <2>1 DEF RecordInv, RecordOk
    <2>3. /\ records[Parent(r)] = NoRecord
          /\ \A t \in Range(Offered[r]) : records[Child(r, t)] = NoRecord
      BY <1>1, ActionNames
    <2>4. QueueInv(r)
      BY <2>1, <2>3 DEF QueueInv, QueueOk, ParentQueue
    <2>5. ComposeInv(r)
      BY <1>1, <2>1, <2>3 DEF ComposeInv
    <2> QED
      BY <2>2, <2>4, <2>5 DEF RequestInv
  <1>4. ASSUME NEW q \in Process PROVE ProcInv(q)
    <2>1. proc[q].pc = "idle" /\ q \notin overtaken
      BY <1>1 DEF Idle
    <2> QED
      BY <2>1
      DEF ProcInv, WorkInv, RoleInv, PrepareInv, BuildInv, StepInv, ChildInv, Preparing,
         Queueing, Stepping, Merging
  <1> QED
    BY <1>2, <1>3, <1>4 DEF IInv

LEMMA ContinueKeeps ==
    ASSUME IInv, NEW q \in Process, Continue(q) \/ Crash(q)
    PROVE  IInv'
  <1>1. PICK r \in Request : q.request = r
    BY ProcessNames
  <1>2. CASE Crash(q)
    BY <1>1, <1>2, CrashKeeps
  <1>3. CASE Freeze(q) \/ Compose(q) \/ CreateAction(q)
    BY <1>1, <1>3, FreezeKeeps, ComposeKeeps, CreateActionKeeps
  <1>4. CASE IntendSingleton(q) \/ AppendSingleton(q)
    BY <1>1, <1>4, IntendSingletonKeeps, AppendSingletonKeeps, StaleQueueKeeps
  <1>5. CASE QueueSingletons(q) \/ BuildSingleton(q) \/ FinishQueue(q)
    BY <1>1, <1>5, QueueSingletonsKeeps, BuildSingletonKeeps, FinishQueueKeeps
  <1>6. CASE \/ PerformRetry(q) \/ ReadPendingAgain(q) \/ LocalCheck(q) \/ Publish(q)
             \/ HostedResult(q)
    BY <1>1, <1>6, PerformRetryKeeps, ReadPendingAgainKeeps, LocalCheckKeeps, PublishKeeps,
       HostedResultKeeps
  <1>7. CASE \/ AcquireLease(q) \/ Integrate(q) \/ VerifyTarget(q) \/ ReleaseLease(q)
    BY <1>1, <1>7, AcquireLeaseKeeps, IntegrateKeeps, VerifyTargetKeeps, ReleaseLeaseKeeps
  <1>8. CASE BlockIdentityFailure(q) \/ Commit(q) \/ FoldSingleton(q)
    BY <1>1, <1>8, BlockIdentityFailureKeeps, CommitKeeps, FoldSingletonKeeps
  <1> QED
    BY <1>2, <1>3, <1>4, <1>5, <1>6, <1>7, <1>8 DEF Continue

LEMMA NextKeeps ==
    ASSUME IInv, [Next]_vars
    PROVE  IInv'
  <1>1. CASE UNCHANGED vars
    <2>1. TypeOK'
      BY <1>1 DEF IInv, TypeOK, vars, journal, hosted, history
    <2>2. ASSUME NEW r \in Request
          PROVE  RequestInv(r)' /\ \A q \in Process : q.request = r => ProcInv(q)'
      <3>1. Kept(r)
        BY <1>1 DEF Kept, Grows, vars, journal, hosted
      <3> QED
        BY <3>1, FrameKeeps DEF IInv
    <2> QED
      BY <2>1, <2>2, ProcessNames DEF IInv
  <1>2. CASE Push
    BY <1>2, PushKeeps
  <1>3. CASE \E a \in Action : Conclude(a)
    BY <1>3, ConcludeKeeps
  <1>4. CASE \E r \in Request : Deliver(r) \/ Probe(r)
    BY <1>4, DeliverKeeps, ProbeKeeps
  <1>5. CASE \E q \in Process : Continue(q) \/ Crash(q)
    BY <1>5, ContinueKeeps
  <1> QED
    BY <1>1, <1>2, <1>3, <1>4, <1>5 DEF Next

LEMMA Always == Spec => []IInv
  <1>1. Init => IInv
    BY InitHolds
  <1>2. IInv /\ [Next]_vars => IInv'
    BY NextKeeps
  <1> QED
    BY <1>1, <1>2, PTL DEF Spec

------------------------------------------------------------------------------
(* The theorems.                                                           *)

\* Every value the journal, the provider and the processes hold has its type:
\* no retry counter passes its limit and no queue index leaves its range.
THEOREM TypeCorrect == Spec => []TypeOK
  <1>1. IInv => TypeOK
    BY DEF IInv
  <1> QED
    BY <1>1, Always, PTL

\* The Integration Lease serializes integration: whoever is between
\* acquire_integration_lease and its release is the recorded holder, so two
\* Campaigns are never between them at once.
THEOREM IntegrationIsSerial == Spec => []SerialIntegration
  <1>1. IInv => SerialIntegration
    <2> SUFFICES ASSUME IInv, NEW q \in Process, Integrating(q)
                 PROVE  lease = Work(q)
      BY DEF SerialIntegration
    <2>1. StepInv(q)
      BY DEF IInv, ProcInv
    <2> QED
      BY <2>1 DEF StepInv, Integrating, Merging
  <1> QED
    BY <1>1, Always, PTL

\* What is merged has its own durable passed receipt, its Batch ref and its
\* publication, whatever crashed or failed since.
THEOREM MergesHaveEvidence == Spec => []MergedWithEvidence
  <1>1. IInv => MergedWithEvidence
    <2> SUFFICES ASSUME IInv, NEW a \in Action, merged[a] # 0
                 PROVE  a \in published /\ a \in refs /\ receipts[a] = "passed"
      BY DEF MergedWithEvidence
    <2>1. RecordInv(a, records[a])
      BY ActionNames DEF IInv, RequestInv
    <2> QED
      BY <2>1 DEF RecordInv, RecordOk
  <1> QED
    BY <1>1, Always, PTL

LEMMA OneDelivery ==
    ASSUME IInv
    PROVE  MergedOnce
  <1> SUFFICES ASSUME NEW a \in Action, NEW b \in Action, a # b,
                      merged[a] # 0, merged[b] # 0,
                      NEW t \in Delivers(a), t \in Delivers(b)
               PROVE  FALSE
    BY Zenon DEF MergedOnce
  <1>1. ASSUME NEW d \in Action, merged[d] # 0
        PROVE  /\ d.request \in Request /\ records[d].phase # "absent"
               /\ GoodMembers(d.request, records[d].members)
               /\ Delivers(d) = Range(records[d].members)
               /\ d.ticket # Whole => records[d].members = <<d.ticket>>
               /\ records[d].generation = 1 => merged[d] = 0
    <2>1. d.request \in Request /\ RecordOk(d, records[d], refs, published, merged, receipts)
      BY ActionNames DEF IInv, RequestInv, RecordInv
    <2>2. records[d].phase # "absent"
      BY <1>1, <2>1 DEF RecordOk
    <2> QED
      BY <2>1, <2>2 DEF RecordOk, Delivers, Range
  <1>2. t \in Range(Offered[a.request]) /\ t \in Range(Offered[b.request])
    BY <1>1 DEF GoodMembers
  <1>3. a.request = b.request /\ a.request \in Request
    BY <1>1, <1>2, OfferedAssumption
  <1>4. PICK r \in Request : r = a.request
    BY <1>3
  <1>5. ASSUME NEW c \in Range(Offered[r]), merged[Child(r, c)] # 0
        PROVE  merged[Parent(r)] = 0
    <2>1. records[Child(r, c)].phase # "absent"
      BY <1>1, <1>5, ActionNames
    <2>2. records[Parent(r)].generation = 1
      BY <2>1 DEF IInv, RequestInv, QueueInv, QueueOk
    <2> QED
      BY <1>1, <2>2, ActionNames
  <1>6. CASE a = Parent(r) \/ b = Parent(r)
    BY <1>3, <1>4, <1>5, <1>6, ActionNames
  <1>7. CASE a # Parent(r) /\ b # Parent(r)
    <2>1. PICK c \in Range(Offered[r]), d \in Range(Offered[r]) : a = Child(r, c) /\ b = Child(r, d)
      BY <1>3, <1>4, <1>7, ActionNames
    <2>2. a.ticket = c /\ b.ticket = d /\ c # Whole /\ d # Whole
      BY <2>1, ActionNames
    <2>3. Delivers(a) = Range(<<c>>) /\ Delivers(b) = Range(<<d>>)
      BY <1>1, <2>2
    <2>4. \A e : Range(<<e>>) = {e}
      BY DEF Range
    <2>5. t = c /\ t = d
      BY <2>3, <2>4
    <2> QED
      BY <2>1, <2>5
  <1> QED
    BY <1>6, <1>7

\* No Candidate reaches the target twice, by its Batch and by a Singleton or
\* by two of them: a Batch that is merged is never dissolved afterwards.
THEOREM CandidatesMergeOnce == Spec => []MergedOnce
  <1>1. IInv => MergedOnce
    BY OneDelivery
  <1> QED
    BY <1>1, Always, PTL

LEMMA TargetHasMembers ==
    ASSUME IInv
    PROVE  CompleteIsMerged
  <1> DEFINE Landed(r, i) == \/ merged[Parent(r)] # 0
                             \/ merged[Child(r, records[Parent(r)].members[i])] # 0
  <1> SUFFICES ASSUME NEW r \in Request, NEW i \in DOMAIN records[Parent(r)].members
               PROVE  /\ records[Parent(r)].phase = "complete" => Landed(r, i)
                      /\ records[Parent(r)].status[i] = "integrated" => Landed(r, i)
                      /\ records[Parent(r)].status[i] = "resume_required" => ~ Landed(r, i)
    BY Zenon DEF CompleteIsMerged
  <1> DEFINE p == records[Parent(r)]
             c == Child(r, p.members[i])
  <1>1. /\ RecordOk(Parent(r), p, refs, published, merged, receipts) /\ QueueOk(r, records)
        /\ p.generation \in {0, 1}
    <2>1. /\ RecordOk(Parent(r), p, refs, published, merged, receipts) /\ QueueOk(r, records)
          /\ p \in Record
      BY ActionNames DEF IInv, RequestInv, RecordInv, QueueInv, TypeOK
    <2> QED
      BY <2>1 DEF Record
  <1>2. GoodMembers(r, p.members) /\ DOMAIN p.status = DOMAIN p.members
    BY ParentShape DEF IInv, NoRecord
  <1>3. c \in Action /\ c.request = r /\ c.ticket # Whole /\ p.members[i] \in Range(Offered[r])
    BY <1>2, MemberNames
  <1>4. RecordOk(c, records[c], refs, published, merged, receipts)
    BY <1>3 DEF IInv, RequestInv, RecordInv
  <1>5. /\ records[c].phase = "complete" => merged[c] # 0
        /\ records[c].phase \in {"absent", "decision"} => merged[c] = 0
    BY <1>3, <1>4 DEF RecordOk
  <1>6. records[c].phase # "absent" => p.generation = 1
    BY <1>1, <1>3 DEF QueueOk
  <1>7. ParentQueue(r, p, records)
    BY <1>1 DEF QueueOk
  <1> HIDE DEF p
  <1>8. CASE p.generation = 0
    BY <1>1, <1>2, <1>5, <1>6, <1>8 DEF RecordOk, p
  <1>9. CASE p.generation = 1
    BY <1>1, <1>2, <1>5, <1>7, <1>9 DEF RecordOk, ParentQueue, p
  <1> QED
    BY <1>1, <1>8, <1>9

\* A complete request has every member on the target, by the Batch itself or
\* by the member's own Singleton, and a member handed back is on neither.
THEOREM CompleteMeansMerged == Spec => []CompleteIsMerged
  <1>1. IInv => CompleteIsMerged
    BY TargetHasMembers
  <1> QED
    BY <1>1, Always, PTL

------------------------------------------------------------------------------
(* The Integration Lease.                                                  *)

\* Who holds the lease: the owner that integrates, or one that died while it
\* did.  Past its release a process has not the lease of its action.
LeaseInv ==
    /\ lease # Nobody /\ ~ orphaned =>
          /\ Integrating(Owner(lease.request))
          /\ Work(Owner(lease.request)) = lease
    /\ lease # Nobody /\ orphaned => records[lease].phase = "hosted"
    /\ \A q \in Process :
          proc[q].pc \in {"commit", "mismatch"} /\ Rec(q).phase = "hosted" =>
              lease # Work(q)

\* What a step of q leaves to whoever holds the lease.
Leaves(q) ==
    /\ lease' = lease /\ orphaned' = orphaned
    /\ \A s \in Process \ {q} : proc'[s] = proc[s]
    /\ Integrating(q) => Integrating(q)' /\ proc'[q].work = proc[q].work
    /\ proc'[q].pc \in {"commit", "mismatch"} => proc'[q].rec.phase # "hosted"
    /\ lease # Nobody /\ records[lease].phase = "hosted" => records'[lease].phase = "hosted"

LEMMA LeavesLease ==
    ASSUME IInv, LeaseInv, NEW q \in Process, Leaves(q)
    PROVE  LeaseInv'
  <1>1. lease \in Action \cup {Nobody} /\ lease' = lease /\ orphaned' = orphaned
    BY DEF IInv, TypeOK, Leaves
  <1>2. ASSUME lease # Nobody, ~ orphaned
        PROVE  /\ Integrating(Owner(lease.request))'
               /\ Work(Owner(lease.request))' = lease
    <2>1. PICK h \in Process : h = Owner(lease.request)
      BY <1>1, <1>2, ActionNames, ProcessNames
    <2>2. Integrating(h) /\ proc[h].work = lease
      BY <1>2, <2>1 DEF LeaseInv, Work
    <2>3. proc'[h].pc \in {"integrate", "verify", "release"} /\ proc'[h].work = lease
      <3>1. CASE h = q
        BY <2>2, <3>1 DEF Leaves, Integrating
      <3>2. CASE h # q
        BY <2>2, <3>2 DEF Leaves, Integrating
      <3> QED
        BY <3>1, <3>2
    <2> QED
      BY <1>1, <2>1, <2>3 DEF Integrating, Work
  <1>3. ASSUME lease # Nobody, orphaned
        PROVE  records'[lease].phase = "hosted"
    BY <1>3 DEF LeaseInv, Leaves
  <1>4. ASSUME NEW s \in Process, proc'[s].pc \in {"commit", "mismatch"},
               proc'[s].rec.phase = "hosted"
        PROVE  lease # proc'[s].work
    BY <1>4 DEF LeaseInv, Leaves, Work, Rec
  <1> QED
    BY <1>1, <1>2, <1>3, <1>4 DEF LeaseInv, Work, Rec

\* Steps that write no record and do not enter an integration or leave one.
LEMMA QuietLeaves ==
    ASSUME IInv, NEW q \in Process, NEW x \in ProcType,
           proc' = [proc EXCEPT ![q] = x], records' = records, lease' = lease,
           orphaned' = orphaned,
           Integrating(q) => x.pc \in {"integrate", "verify", "release"} /\ x.work = proc[q].work,
           x.pc \in {"commit", "mismatch"} => x.rec.phase # "hosted"
    PROVE  Leaves(q)
  <1>1. /\ proc'[q] = x
        /\ \A s \in Process \ {q} : proc'[s] = proc[s]
    BY ProcWrites DEF IInv
  <1> QED
    BY <1>1 DEF Leaves, Integrating

LEMMA ReturnLeaves ==
    ASSUME IInv, NEW q \in Process, Return(q), lease' = lease, orphaned' = orphaned,
           ~ Integrating(q),
           lease # Nobody /\ records[lease].phase = "hosted" => records'[lease].phase = "hosted"
    PROVE  Leaves(q)
  <1>1. /\ proc'[q] = Idle
        /\ \A s \in Process \ {q} : proc'[s] = proc[s]
    BY ProcWrites, BasicTypes DEF Return, IInv
  <1> QED
    BY <1>1 DEF Leaves, Idle

LEMMA GotoLeaves ==
    ASSUME IInv, NEW q \in Process, NEW pc \in Pcs, Goto(q, pc), lease' = lease,
           orphaned' = orphaned,
           Integrating(q) => pc \in {"integrate", "verify", "release"},
           pc \notin {"commit", "mismatch"},
           lease # Nobody /\ records[lease].phase = "hosted" => records'[lease].phase = "hosted"
    PROVE  Leaves(q)
  <1>1. /\ \A s \in Process \ {q} : proc'[s] = proc[s]
        /\ proc'[q].pc = pc /\ proc'[q].work = proc[q].work
    BY GotoWrites DEF IInv
  <1> QED
    BY <1>1 DEF Leaves, Integrating

LEMMA ProposeLeaves ==
    ASSUME IInv, NEW q \in Process, NEW next, Propose(q, next), proc[q].pc = "step",
           Rec(q).phase # "hosted", records' = records, lease' = lease, orphaned' = orphaned
    PROVE  Leaves(q)
  <1>1. proc[q] \in ProcType
    BY DEF IInv, TypeOK, ProcType
  <1>2. /\ \A s \in Process \ {q} : proc'[s] = proc[s]
        /\ proc'[q].rec = proc[q].rec
    BY <1>1 DEF Propose, IInv, TypeOK, ProcType
  <1> QED
    BY <1>2 DEF Leaves, Rec, Integrating

\* Where execute goes on is never past an integration.
LEMMA ResumePc ==
    ASSUME NEW r, NEW a, NEW rec
    PROVE  Resume(r, a, rec).pc \in {"fold", "step", "build"}
  <1> DEFINE child == Child(r, rec.members[rec.next])
             work == IF rec.generation = 1 /\ rec.ready THEN child ELSE a
             its == IF work = a THEN rec ELSE records[child]
  <1>1. StepPc(work, its) \in {"fold", "step", "build"}
    BY DEF StepPc
  <1>2. Resume(r, a, rec) = [Idle EXCEPT !.pc = StepPc(work, its), !.work = work, !.rec = its]
    BY DEF Resume
  <1> HIDE DEF work, its
  <1> QED
    BY <1>1, <1>2 DEF Idle

LEMMA PrepareLeaves ==
    ASSUME IInv, NEW q \in Process, NEW r \in Request,
           \/ q = Owner(r) /\ Deliver(r)
           \/ q = Prober(r) /\ Probe(r)
           \/ Freeze(q) \/ Compose(q) \/ CreateAction(q)
    PROVE  Leaves(q)
  <1>1. /\ proc \in [Process -> ProcType] /\ proc[q].pc \in {"idle", "freeze", "compose", "create"}
        /\ lease' = lease /\ orphaned' = orphaned
        /\ ~ Integrating(q)
    BY DEF IInv, TypeOK, ProcType, Deliver, Probe, Freeze, Compose, CreateAction, history,
       journal, Integrating
  <1>2. /\ \A s \in Process \ {q} : proc'[s] = proc[s]
        /\ proc'[q].pc \notin {"commit", "mismatch"}
    <2>1. CASE q = Owner(r) /\ Deliver(r)
      <3>1. PICK x : /\ proc' = [proc EXCEPT ![q] = x]
                     /\ x = Prepares(r) \/ x = Resume(r, Parent(r), records[Parent(r)])
        BY <2>1 DEF Deliver
      <3>2. x.pc \in {"fold", "step", "build", "freeze", "compose"}
        <4>1. Prepares(r).pc \in {"freeze", "compose"}
          BY DEF Prepares, Idle
        <4>2. Resume(r, Parent(r), records[Parent(r)]).pc \in {"fold", "step", "build"}
          BY ResumePc
        <4> QED
          BY <3>1, <4>1, <4>2
      <3> QED
        BY <1>1, <3>1, <3>2
    <2>2. CASE q = Prober(r) /\ Probe(r)
      <3>1. PICK x : proc' = [proc EXCEPT ![q] = x] /\ x = Prepares(r)
        BY <2>2 DEF Probe
      <3>2. x.pc \in {"freeze", "compose"}
        BY <3>1 DEF Prepares, Idle
      <3> QED
        BY <1>1, <3>1, <3>2
    <2>3. CASE Freeze(q)
      BY <1>1, <2>3 DEF Freeze, Goto, Return, Idle, ProcType
    <2>4. CASE Compose(q)
      BY <1>1, <2>4 DEF Compose, Goto, Return, Idle, ProcType
    <2>5. CASE CreateAction(q)
      <3>1. \/ Return(q)
            \/ \E rec : proc' = [proc EXCEPT ![q].pc = "queue", ![q].rec = rec,
                                             ![q].preparing = TRUE]
            \/ \E rec : PreparationEnds(q, rec)
        BY <2>5 DEF CreateAction
      <3>2. CASE Return(q)
        BY <1>1, <3>2 DEF Return, Idle
      <3>3. CASE \E rec : proc' = [proc EXCEPT ![q].pc = "queue", ![q].rec = rec,
                                               ![q].preparing = TRUE]
        BY <1>1, <3>3 DEF ProcType
      <3>4. CASE \E rec : PreparationEnds(q, rec)
        <4>1. PICK rec : PreparationEnds(q, rec)
          BY <3>4
        <4>2. PICK x : /\ proc' = [proc EXCEPT ![q] = x]
                       /\ x = Idle \/ x = Resume(q.request, Parent(q.request), rec)
          BY <4>1 DEF PreparationEnds
        <4>3. x.pc \in {"fold", "step", "build", "idle"}
          BY <4>2, ResumePc DEF Idle
        <4> QED
          BY <1>1, <4>2, <4>3
      <3> QED
        BY <3>1, <3>2, <3>3, <3>4
    <2> QED
      BY <2>1, <2>2, <2>3, <2>4, <2>5
  <1>3. records' = records \/ CreateAction(q)
    BY DEF Deliver, Probe, Freeze, Compose, journal
  <1>4. ASSUME CreateAction(q), lease # Nobody, records[lease].phase = "hosted"
        PROVE  records'[lease].phase = "hosted"
    <2>1. lease \in Action /\ records \in [Action -> Record]
      BY <1>4 DEF IInv, TypeOK
    <2>2. \/ records' = records
          \/ records' = [records EXCEPT ![Parent(q.request)] = records[Parent(q.request)]]
          \/ /\ records[Parent(q.request)].phase = "absent"
             /\ \E new : records' = [records EXCEPT ![Parent(q.request)] = new]
      BY <1>4 DEF CreateAction
    <2> QED
      BY <1>4, <2>1, <2>2
  <1> QED
    BY <1>1, <1>2, <1>3, <1>4 DEF Leaves

LEMMA SwapLeaves ==
    ASSUME IInv, NEW q \in Process, proc[q].pc \in Queueing, NEW next, Swap(q, "build", next),
           lease' = lease, orphaned' = orphaned
    PROVE  Leaves(q)
  <1>1. ~ Integrating(q) /\ proc \in [Process -> ProcType] /\ records \in [Action -> Record]
    BY DEF Integrating, Queueing, IInv, TypeOK, ProcType
  <1>2. CASE q \in overtaken
    BY <1>1, <1>2, ReturnLeaves DEF Swap
  <1>3. CASE q \notin overtaken
    <2>1. PICK r \in Request : q.request = r
      BY ProcessNames
    <2>2. /\ records' = [records EXCEPT ![Work(q)] = next]
          /\ proc' = [proc EXCEPT ![q].pc = "build", ![q].rec = next]
      BY <1>3 DEF Swap
    <2>3. Work(q) = Parent(r) /\ records[Parent(r)].phase # "hosted"
      <3>1. /\ Work(q) = Parent(r) /\ BuildInv(q) /\ Rec(q) = records[Parent(r)]
            /\ RecordOk(Parent(r), Rec(q), refs, published, merged, receipts)
        BY <1>3, <2>1, AtQueue DEF IInv, ProcInv
      <3> QED
        BY <3>1 DEF BuildInv, RecordOk, Queueing, Settled, Terminal
    <2>4. /\ proc'[q].pc = "build"
          /\ \A s \in Process \ {q} : proc'[s] = proc[s]
      BY <1>1, <2>2 DEF ProcType
    <2>5. lease # Nobody /\ records[lease].phase = "hosted" => records'[lease].phase = "hosted"
      <3>1. lease \in Action \cup {Nobody}
        BY DEF IInv, TypeOK
      <3> QED
        BY <1>1, <2>2, <2>3, <3>1
    <2> QED
      BY <1>1, <2>4, <2>5 DEF Leaves
  <1> QED
    BY <1>2, <1>3

LEMMA QueueLeaves ==
    ASSUME IInv, NEW q \in Process,
           \/ QueueSingletons(q) \/ IntendSingleton(q) \/ BuildSingleton(q)
           \/ AppendSingleton(q) \/ FinishQueue(q)
    PROVE  Leaves(q)
  <1>1. /\ proc[q].pc \in Queueing /\ lease' = lease /\ orphaned' = orphaned
        /\ ~ Integrating(q) /\ records \in [Action -> Record]
        /\ proc \in [Process -> ProcType] /\ lease \in Action \cup {Nobody}
    BY DEF QueueSingletons, IntendSingleton, BuildSingleton, AppendSingleton, FinishQueue,
       Queueing, history, Integrating, IInv, TypeOK, ProcType
  <1>2. CASE QueueSingletons(q) \/ IntendSingleton(q) \/ AppendSingleton(q)
    <2>1. PICK next : Swap(q, "build", next)
      BY <1>2 DEF QueueSingletons, IntendSingleton, AppendSingleton
    <2> QED
      BY <1>1, <2>1, SwapLeaves
  <1>3. CASE BuildSingleton(q)
    <2>1. lease # Nobody /\ records[lease].phase = "hosted" => records'[lease].phase = "hosted"
      <3>1. \/ records' = records
            \/ \E c, new : records' = [records EXCEPT ![c] =
                                           IF records[c].phase = "absent" THEN new ELSE records[c]]
        BY <1>3 DEF BuildSingleton
      <3> QED
        BY <1>1, <3>1
    <2>2. Return(q) \/ Goto(q, "append")
      BY <1>3 DEF BuildSingleton
    <2> QED
      BY <1>1, <2>1, <2>2, ReturnLeaves, GotoLeaves DEF Pcs
  <1>4. CASE FinishQueue(q)
    <2>1. PICK r \in Request : q.request = r
      BY ProcessNames
    <2>2. CASE q \in overtaken
      <3>1. Return(q) /\ records' = records
        BY <1>4, <2>2 DEF FinishQueue
      <3> QED
        BY <1>1, <3>1, ReturnLeaves
    <2>3. CASE q \notin overtaken
      <3>1. /\ \E done : records' = [records EXCEPT ![Parent(r)] = done]
            /\ Return(q) \/ \E rec : PreparationEnds(q, rec)
            /\ proc[q].pc = "build"
        BY <1>4, <2>1, <2>3 DEF FinishQueue
      <3>2. records[Parent(r)].phase = "wait"
        BY <2>1, <2>3, <3>1, AtQueue DEF Queueing
      <3>3. lease # Nobody /\ records[lease].phase = "hosted" => records'[lease].phase = "hosted"
        BY <1>1, <3>1, <3>2
      <3>4. CASE Return(q)
        BY <1>1, <3>3, <3>4, ReturnLeaves
      <3>5. CASE \E rec : PreparationEnds(q, rec)
        <4>1. PICK rec : PreparationEnds(q, rec)
          BY <3>5
        <4>2. PICK x : /\ proc' = [proc EXCEPT ![q] = x]
                       /\ x = Idle \/ x = Resume(q.request, Parent(q.request), rec)
          BY <4>1 DEF PreparationEnds
        <4>3. x.pc \in {"fold", "step", "build", "idle"}
          BY <4>2, ResumePc DEF Idle
        <4>4. /\ proc'[q].pc \notin {"commit", "mismatch"}
              /\ \A s \in Process \ {q} : proc'[s] = proc[s]
          BY <1>1, <4>2, <4>3
        <4> QED
          BY <1>1, <3>3, <4>4 DEF Leaves
      <3> QED
        BY <3>1, <3>4, <3>5
    <2> QED
      BY <2>2, <2>3
  <1> QED
    BY <1>2, <1>3, <1>4

LEMMA StepLeaves ==
    ASSUME IInv, NEW q \in Process,
           \/ PerformRetry(q) \/ ReadPendingAgain(q) \/ LocalCheck(q) \/ Publish(q)
           \/ HostedResult(q)
    PROVE  Leaves(q)
  <1>1. /\ proc[q].pc = "step" /\ Rec(q).phase # "hosted" /\ ~ Integrating(q)
        /\ records' = records /\ lease' = lease /\ orphaned' = orphaned
    BY DEF PerformRetry, ReadPendingAgain, LocalCheck, Publish, HostedResult, At, journal,
       history, Integrating
  <1>2. Return(q) \/ Goto(q, "queue") \/ \E next : Propose(q, next)
    BY DEF PerformRetry, ReadPendingAgain, LocalCheck, Publish, HostedResult, Classify
  <1>3. CASE Return(q)
    BY <1>1, <1>3, ReturnLeaves
  <1>4. CASE Goto(q, "queue")
    BY <1>1, <1>4, GotoLeaves DEF Pcs
  <1>5. CASE \E next : Propose(q, next)
    BY <1>1, <1>5, ProposeLeaves
  <1> QED
    BY <1>2, <1>3, <1>4, <1>5

\* Taking the lease, integrating, and giving it back on either way out.
LEMMA HoldingKeeps ==
    ASSUME IInv, LeaseInv, NEW q \in Process,
           AcquireLease(q) \/ Integrate(q) \/ VerifyTarget(q) \/ ReleaseLease(q)
    PROVE  LeaseInv'
  <1>1. /\ TypeOK /\ proc \in [Process -> ProcType] /\ lease \in Action \cup {Nobody}
        /\ records' = records
    BY DEF IInv, TypeOK, ProcType, AcquireLease, Integrate, VerifyTarget, ReleaseLease, journal
  <1>2. CASE AcquireLease(q)
    <2>1. At(q, "hosted") /\ orphaned' \in {FALSE, orphaned}
      BY <1>2 DEF AcquireLease
    <2>2. CASE ~ LeaseFree(Work(q))
      <3>1. Return(q) /\ lease' = lease /\ orphaned' = orphaned /\ ~ Integrating(q)
        BY <1>2, <2>1, <2>2 DEF AcquireLease, Integrating, At
      <3>2. Leaves(q)
        BY <1>1, <3>1, ReturnLeaves
      <3> QED
        BY <3>2, LeavesLease
    <2>3. CASE LeaseFree(Work(q))
      <3>1. lease' = Work(q) /\ ~ orphaned' /\ Goto(q, "integrate")
        BY <1>2, <2>3 DEF AcquireLease
      <3>2. /\ q.role = "owner" /\ Work(q) \in Action /\ Work(q).request = q.request
            /\ q = Owner(q.request)
        BY <2>1, ProcessNames, Working DEF At, Stepping
      <3>3. /\ proc'[q].pc = "integrate" /\ proc'[q].work = proc[q].work
            /\ \A s \in Process \ {q} : proc'[s] = proc[s]
        BY <1>1, <3>1, GotoWrites DEF Pcs
      <3>4. ASSUME NEW s \in Process, proc'[s].pc \in {"commit", "mismatch"}
            PROVE  proc'[s].work # Work(q)
        <4>1. s # q /\ proc'[s] = proc[s]
          BY <3>3, <3>4
        <4>2. s.role = "owner" /\ Work(s) \in Action /\ Work(s).request = s.request
              /\ s = Owner(s.request)
          BY <3>4, <4>1, ProcessNames, Working DEF Stepping, Merging
        <4> QED
          BY <3>2, <4>1, <4>2 DEF Work
      <3> QED
        BY <3>1, <3>2, <3>3, <3>4 DEF LeaseInv, Integrating, Work, Rec
    <2> QED
      BY <2>2, <2>3
  <1>3. CASE Integrate(q)
    <2>1. Goto(q, "verify") /\ lease' = lease /\ orphaned' = orphaned
      BY <1>3 DEF Integrate, journal, history
    <2>2. Leaves(q)
      BY <1>1, <2>1, GotoLeaves DEF Pcs
    <2> QED
      BY <2>2, LeavesLease
  <1>4. CASE VerifyTarget(q)
    <2>1. /\ lease' = lease /\ orphaned' = orphaned
          /\ \E next : proc' = [proc EXCEPT ![q].pc = "release", ![q].next = next]
      BY <1>4 DEF VerifyTarget, journal, history
    <2>2. /\ proc'[q].pc = "release" /\ proc'[q].work = proc[q].work
          /\ \A s \in Process \ {q} : proc'[s] = proc[s]
      BY <1>1, <2>1 DEF ProcType
    <2>3. Leaves(q)
      BY <1>1, <2>1, <2>2 DEF Leaves, Integrating
    <2> QED
      BY <2>3, LeavesLease
  <1>5. CASE ReleaseLease(q)
    <2>1. lease' = Nobody /\ proc[q].pc = "release"
      BY <1>5 DEF ReleaseLease
    <2>2. ASSUME NEW s \in Process, proc'[s].pc \in {"commit", "mismatch"}
          PROVE  proc'[s].work # Nobody
      <3>1. CASE s = q
        <4>1. Goto(q, "mismatch") \/ Goto(q, "commit")
          BY <1>5 DEF ReleaseLease
        <4>2. proc'[q].work = proc[q].work
          BY <1>1, <4>1 DEF Goto, ProcType
        <4>3. Work(q) \in Action
          BY <2>1, ProcessNames, Working
        <4> QED
          BY <3>1, <4>2, <4>3, ActionNames DEF Work
      <3>2. CASE s # q
        <4>1. proc'[s] = proc[s]
          BY <1>1, <1>5, <3>2 DEF ReleaseLease, Goto
        <4>2. Work(s) \in Action
          BY <2>2, <4>1, ProcessNames, Working
        <4> QED
          BY <4>1, <4>2, ActionNames DEF Work
      <3> QED
        BY <3>1, <3>2
    <2> QED
      BY <2>1, <2>2 DEF LeaseInv, Work
  <1> QED
    BY <1>2, <1>3, <1>4, <1>5

\* A death leaves the lease with an action that is still hosted.
LEMMA DeathKeeps ==
    ASSUME IInv, LeaseInv, NEW q \in Process, Crash(q)
    PROVE  LeaseInv'
  <1>1. /\ lease' = lease /\ records' = records /\ Return(q)
        /\ (orphaned' <=> orphaned \/ Integrating(q))
    BY DEF Crash, journal
  <1>2. /\ proc'[q].pc = "idle"
        /\ \A s \in Process \ {q} : proc'[s] = proc[s]
    BY <1>1, ProcWrites, BasicTypes DEF Return, IInv, Idle
  <1>3. CASE ~ Integrating(q)
    <2>1. ASSUME lease # Nobody, ~ orphaned
          PROVE  /\ Integrating(Owner(lease.request))'
                 /\ Work(Owner(lease.request))' = lease
      <3>1. PICK h \in Process : h = Owner(lease.request)
        BY <2>1, ActionNames, ProcessNames DEF IInv, TypeOK
      <3>2. Integrating(h) /\ Work(h) = lease /\ proc'[h] = proc[h]
        BY <1>2, <1>3, <2>1, <3>1 DEF LeaseInv
      <3> QED
        BY <1>1, <3>1, <3>2 DEF Integrating, Work
    <2>2. lease # Nobody /\ orphaned => records'[lease].phase = "hosted"
      BY <1>1 DEF LeaseInv
    <2>3. ASSUME NEW s \in Process, proc'[s].pc \in {"commit", "mismatch"},
                 proc'[s].rec.phase = "hosted"
          PROVE  lease # proc'[s].work
      BY <1>2, <2>3 DEF LeaseInv, Work, Rec
    <2> QED
      BY <1>1, <1>3, <2>1, <2>2, <2>3 DEF LeaseInv, Work, Rec
  <1>4. CASE Integrating(q)
    <2>1. lease = Work(q) /\ Rec(q).phase = "hosted" /\ records[Work(q)] = Rec(q)
      <3>1. proc[q].pc \in Merging \ {"mismatch"} /\ proc[q].pc \in Stepping
        BY <1>4 DEF Integrating, Merging, Stepping
      <3>2. StepInv(q)
        BY DEF IInv, ProcInv
      <3> QED
        BY <3>1, <3>2, ProcessNames, Working DEF StepInv
    <2>2. ASSUME NEW s \in Process, proc'[s].pc \in {"commit", "mismatch"},
                 proc'[s].rec.phase = "hosted"
          PROVE  lease # proc'[s].work
      BY <1>2, <2>2 DEF LeaseInv, Work, Rec
    <2> QED
      BY <1>1, <1>4, <2>1, <2>2 DEF LeaseInv, Work, Rec
  <1> QED
    BY <1>3, <1>4

\* The records that a step of a delivery ends with are not the lease holder's.
LEMMA EndLeaves ==
    ASSUME IInv, LeaseInv, NEW q \in Process,
           Commit(q) \/ BlockIdentityFailure(q) \/ FoldSingleton(q)
    PROVE  Leaves(q)
  <1>1. /\ lease' = lease /\ orphaned' = orphaned /\ ~ Integrating(q)
        /\ proc \in [Process -> ProcType] /\ records \in [Action -> Record]
        /\ lease \in Action \cup {Nobody}
    BY DEF Commit, BlockIdentityFailure, FoldSingleton, history, Integrating, IInv, TypeOK,
       ProcType
  <1>2. PICK r \in Request : q.request = r
    BY ProcessNames
  <1>3. CASE Commit(q)
    <2>1. Rec(q) = records[Work(q)] /\ Work(q) \in Action
      BY <1>2, <1>3, AtStep DEF Commit, Stepping
    <2>2. lease = Work(q) => records[lease].phase # "hosted"
      BY <1>3, <2>1 DEF Commit, LeaseInv
    <2>3. lease # Nobody /\ records[lease].phase = "hosted" => records'[lease].phase = "hosted"
      <3>1. \E next : records' = [records EXCEPT ![Work(q)] = next]
        BY <1>3 DEF Commit
      <3> QED
        BY <1>1, <2>1, <2>2, <3>1
    <2>4. /\ \A s \in Process \ {q} : proc'[s] = proc[s]
          /\ proc'[q].pc \notin {"commit", "mismatch"}
      <3>1. PICK x : /\ proc' = [proc EXCEPT ![q] = x]
                     /\ \/ x = [Idle EXCEPT !.pc = "step", !.work = Work(q), !.rec = proc[q].next]
                        \/ x = Idle
                        \/ x = [Idle EXCEPT !.pc = "fold", !.work = Work(q), !.rec = proc[q].next]
        BY <1>3 DEF Commit
      <3>2. CASE x = Idle
        BY <1>1, <3>1, <3>2 DEF Idle
      <3>3. CASE x = [Idle EXCEPT !.pc = "step", !.work = Work(q), !.rec = proc[q].next]
        <4>1. x.pc = "step"
          BY <3>3 DEF Idle
        <4> QED
          BY <1>1, <3>1, <4>1
      <3>4. CASE x = [Idle EXCEPT !.pc = "fold", !.work = Work(q), !.rec = proc[q].next]
        <4>1. x.pc = "fold"
          BY <3>4 DEF Idle
        <4> QED
          BY <1>1, <3>1, <4>1
      <3> QED
        BY <3>1, <3>2, <3>3, <3>4
    <2> QED
      BY <1>1, <2>3, <2>4 DEF Leaves
  <1>4. CASE BlockIdentityFailure(q)
    <2>1. proc[q].pc = "mismatch" /\ Return(q)
      BY <1>4 DEF BlockIdentityFailure
    <2>2. Rec(q) = records[Work(q)] /\ Rec(q).phase = "hosted"
      <3>1. StepInv(q)
        BY DEF IInv, ProcInv
      <3> QED
        BY <1>2, <2>1, <3>1, AtStep DEF StepInv, Stepping, Merging
    <2>3. lease = Parent(r) => records[lease].phase # "hosted"
      <3>1. CASE Work(q) = Parent(r)
        BY <2>1, <2>2, <3>1 DEF LeaseInv
      <3>2. CASE Work(q) # Parent(r)
        <4>1. records[Parent(r)].generation = 1
          BY <1>2, <2>1, <3>2 DEF IInv, ProcInv, ChildInv
        <4>2. RecordOk(Parent(r), records[Parent(r)], refs, published, merged, receipts)
          BY ActionNames DEF IInv, RequestInv, RecordInv
        <4> QED
          BY <4>1, <4>2 DEF RecordOk, Settled, Terminal
      <3> QED
        BY <3>1, <3>2
    <2>4. lease # Nobody /\ records[lease].phase = "hosted" => records'[lease].phase = "hosted"
      <3>1. \E next : records' = [records EXCEPT ![Parent(r)] = next]
        BY <1>2, <1>4 DEF BlockIdentityFailure
      <3> QED
        BY <1>1, <2>3, <3>1
    <2> QED
      BY <1>1, <2>1, <2>4, ReturnLeaves
  <1>5. CASE FoldSingleton(q)
    <2>1. Return(q)
      BY <1>5 DEF FoldSingleton
    <2>2. CASE q \in overtaken
      BY <1>1, <1>5, <2>1, <2>2, ReturnLeaves DEF FoldSingleton
    <2>3. CASE q \notin overtaken
      <3>1. records[Parent(r)].phase = "wait"
        BY <1>2, <1>5, <2>3 DEF FoldSingleton, IInv, ProcInv, ChildInv
      <3>2. \E next : records' = [records EXCEPT ![Parent(r)] = next]
        BY <1>2, <1>5, <2>3 DEF FoldSingleton
      <3>3. lease # Nobody /\ records[lease].phase = "hosted" => records'[lease].phase = "hosted"
        BY <1>1, <3>1, <3>2
      <3> QED
        BY <1>1, <2>1, <3>3, ReturnLeaves
    <2> QED
      BY <2>2, <2>3
  <1> QED
    BY <1>3, <1>4, <1>5

LEMMA LeaseKeeps ==
    ASSUME IInv, LeaseInv, [Next]_vars
    PROVE  LeaseInv'
  <1>1. CASE UNCHANGED vars
    BY <1>1 DEF LeaseInv, Integrating, Work, Rec, vars, journal, history
  <1>2. CASE Push \/ \E a \in Action : Conclude(a)
    <2>1. lease' = lease /\ orphaned' = orphaned /\ proc' = proc /\ records' = records
      BY <1>2 DEF Push, Conclude, journal, history
    <2> QED
      BY <2>1 DEF LeaseInv, Integrating, Work, Rec
  <1>3. ASSUME NEW r \in Request, Deliver(r)
        PROVE  LeaseInv'
    <2>1. PICK q \in Process : q = Owner(r)
      BY ProcessNames
    <2>2. Leaves(q)
      BY <1>3, <2>1, PrepareLeaves
    <2> QED
      BY <2>2, LeavesLease
  <1>4. ASSUME NEW r \in Request, Probe(r)
        PROVE  LeaseInv'
    <2>1. PICK q \in Process : q = Prober(r)
      BY ProcessNames
    <2>2. Leaves(q)
      BY <1>4, <2>1, PrepareLeaves
    <2> QED
      BY <2>2, LeavesLease
  <1>5. ASSUME NEW q \in Process, Continue(q)
        PROVE  LeaseInv'
    <2>1. CASE Freeze(q) \/ Compose(q) \/ CreateAction(q)
      <3>1. q.request \in Request
        BY ProcessNames
      <3>2. Leaves(q)
        BY <2>1, <3>1, PrepareLeaves
      <3> QED
        BY <3>2, LeavesLease
    <2>2. CASE \/ QueueSingletons(q) \/ IntendSingleton(q) \/ BuildSingleton(q)
               \/ AppendSingleton(q) \/ FinishQueue(q)
      BY <2>2, QueueLeaves, LeavesLease
    <2>3. CASE \/ PerformRetry(q) \/ ReadPendingAgain(q) \/ LocalCheck(q) \/ Publish(q)
               \/ HostedResult(q)
      BY <2>3, StepLeaves, LeavesLease
    <2>4. CASE AcquireLease(q) \/ Integrate(q) \/ VerifyTarget(q) \/ ReleaseLease(q)
      BY <2>4, HoldingKeeps
    <2>5. CASE Commit(q) \/ BlockIdentityFailure(q) \/ FoldSingleton(q)
      BY <2>5, EndLeaves, LeavesLease
    <2> QED
      BY <1>5, <2>1, <2>2, <2>3, <2>4, <2>5 DEF Continue
  <1>6. ASSUME NEW q \in Process, Crash(q)
        PROVE  LeaseInv'
    BY <1>6, DeathKeeps
  <1> QED
    BY <1>1, <1>2, <1>3, <1>4, <1>5, <1>6 DEF Next

\* The lease row is accounted for: while its holder lives it integrates, and if
\* it died its action is still hosted.  No way out of an integration, and no
\* settled action, leaves the lease behind, whatever raced or failed.
THEOREM LeasesAreAccounted == Spec => []LeaseAccounted
  <1>1. Init => LeaseInv
    BY ActionNames DEF Init, LeaseInv, Idle
  <1>2. IInv /\ LeaseInv /\ [Next]_vars => LeaseInv'
    BY LeaseKeeps
  <1>3. IInv /\ LeaseInv => LeaseAccounted
    <2> SUFFICES ASSUME IInv, LeaseInv, lease # Nobody
                 PROVE  IF orphaned THEN records[lease].phase = "hosted"
                        ELSE \E p \in Process : Integrating(p) /\ Work(p) = lease
      BY DEF LeaseAccounted
    <2>1. CASE orphaned
      BY <2>1 DEF LeaseInv
    <2>2. CASE ~ orphaned
      <3>1. Owner(lease.request) \in Process
        BY ActionNames, ProcessNames DEF IInv, TypeOK
      <3> QED
        BY <2>2, <3>1 DEF LeaseInv
    <2> QED
      BY <2>1, <2>2
  <1> QED
    BY <1>1, <1>2, <1>3, Always, PTL DEF Spec
==============================================================================
