-------------------------- MODULE PlanControl_proof --------------------------
(***************************************************************************)
(* Proofs about PlanControl, for any calls, Campaigns, Tickets, Evidence   *)
(* and bounds: Tickets are exclusive, revisions form a chain, a draining   *)
(* writer begins nothing, and calls that race and die strand no revision   *)
(* of a Campaign that has no committed activation made pending again,      *)
(* which one call at a time never does.                                    *)
(***************************************************************************)
EXTENDS PlanControl, TLAPS

------------------------------------------------------------------------------
(* Tickets are exclusive.  The invariant is inductive by itself: a         *)
(* transaction moves Tickets within a Campaign, gives Tickets back, or     *)
(* takes Tickets that it found free of every other Campaign.               *)

holdings == <<claims, pending, planning>>

\* A step that takes nothing.
LEMMA GivingBack ==
    ASSUME TicketExclusive, \A c \in Campaign : HeldBy(c)' \subseteq HeldBy(c)
    PROVE  TicketExclusive'
  BY DEF TicketExclusive

\* A step that takes free Tickets for one Campaign.
LEMMA TakingFree ==
    ASSUME TicketExclusive, NEW d, NEW S, Free(d, S),
           \A c \in Campaign :
               HeldBy(c)' \subseteq HeldBy(c) \cup (IF c = d THEN S ELSE {})
    PROVE  TicketExclusive'
  BY DEF TicketExclusive, Free

LEMMA SameHoldings ==
    ASSUME TicketExclusive, UNCHANGED holdings
    PROVE  TicketExclusive'
  <1>1. \A c \in Campaign : HeldBy(c)' = HeldBy(c)
    BY DEF HeldBy, ClaimedBy, holdings
  <1> QED BY <1>1, GivingBack

\* Reservations that go away free their Tickets.
LEMMA FewerReservations ==
    ASSUME TicketExclusive, claims' = claims, pending' \subseteq pending,
           planning' \subseteq planning
    PROVE  TicketExclusive'
  <1>1. \A c \in Campaign : HeldBy(c)' \subseteq HeldBy(c)
    BY DEF HeldBy, ClaimedBy
  <1> QED BY <1>1, GivingBack

\* The claims replace the pending reservation of the same Tickets.
LEMMA FinalizedExclusive ==
    ASSUME TicketExclusive, NEW r, Finalized(r), planning' = planning
    PROVE  TicketExclusive'
  <1>1. CASE r \notin pending
    BY <1>1, SameHoldings DEF Finalized, holdings
  <1>2. CASE r \in pending
    <2>1. \A t \in Ticket :
              claims'[t] = IF t \in r.tickets
                           THEN [campaign |-> r.campaign, revision |-> r.revision]
                           ELSE IF t \in ClaimedBy(r.campaign) THEN NoClaim ELSE claims[t]
      BY <1>2 DEF Finalized
    <2>2. pending' \subseteq pending
      BY <1>2 DEF Finalized
    <2> SUFFICES ASSUME NEW c \in Campaign
                 PROVE  HeldBy(c)' \subseteq HeldBy(c)
      BY GivingBack
    <2>3. ClaimedBy(c)' \subseteq ClaimedBy(c) \cup (IF c = r.campaign THEN r.tickets ELSE {})
      BY <2>1 DEF ClaimedBy, NoClaim
    <2>4. c = r.campaign => r.tickets \subseteq HeldBy(c)
      BY <1>2 DEF HeldBy
    <2> QED BY <2>2, <2>3, <2>4 DEF HeldBy
  <1> QED BY <1>1, <1>2

\* A Planning reservation of free Tickets.
LEMMA PlanningExclusive ==
    ASSUME TicketExclusive, NEW r, r \in planning \/ Free(r.action.campaign, r.tickets),
           planning' = planning \cup {r}, UNCHANGED <<claims, pending>>
    PROVE  TicketExclusive'
  <1>1. CASE r \in planning
    BY <1>1, FewerReservations
  <1>2. CASE Free(r.action.campaign, r.tickets)
    <2>1. \A c \in Campaign : ClaimedBy(c)' = ClaimedBy(c)
      BY DEF ClaimedBy
    <2>2. \A c : (UNION {p.tickets : p \in {q \in planning' : q.action.campaign = c}})
                 \subseteq (UNION {p.tickets : p \in {q \in planning : q.action.campaign = c}})
                             \cup (IF c = r.action.campaign THEN r.tickets ELSE {})
      <3> SUFFICES ASSUME NEW c, NEW p \in planning', p.action.campaign = c, NEW t \in p.tickets,
                          ~ \E q \in planning : q.action.campaign = c /\ t \in q.tickets
                   PROVE  c = r.action.campaign /\ t \in r.tickets
        OBVIOUS
      <3> QED OBVIOUS
    <2>3. \A c \in Campaign :
              HeldBy(c)' \subseteq
                  HeldBy(c) \cup (IF c = r.action.campaign THEN r.tickets ELSE {})
      BY <2>1, <2>2 DEF HeldBy
    <2> QED BY <1>2, <2>3, TakingFree
  <1> QED BY <1>1, <1>2

\* A pending activation of free Tickets.
LEMMA PendingExclusive ==
    ASSUME TicketExclusive, NEW r, Free(r.campaign, r.tickets),
           pending' = pending \cup {r}, planning' \subseteq planning, claims' = claims
    PROVE  TicketExclusive'
  <1>1. \A c \in Campaign :
            HeldBy(c)' \subseteq HeldBy(c) \cup (IF c = r.campaign THEN r.tickets ELSE {})
    BY DEF HeldBy, ClaimedBy
  <1> QED BY <1>1, TakingFree

LEMMA StepExclusive ==
    ASSUME TicketExclusive, NEW h \in Host, Step(h)
    PROVE  TicketExclusive'
  <1>1. CASE RollForward(h)
    BY <1>1, FinalizedExclusive DEF RollForward
  <1>2. CASE FinalizeClaims(h)
    BY <1>2, FinalizedExclusive DEF FinalizeClaims
  <1>3. CASE ReservePlanning(h)
    <2> DEFINE r == Reservation(On(h), Previous(h), AttemptOf(h))
    <2>1. r.action.campaign = On(h) /\ r.tickets = AttemptOf(h).tickets
      BY DEF Reservation, Action
    <2>2. r \in planning \/ Free(r.action.campaign, r.tickets)
      BY <1>3, <2>1 DEF ReservePlanning, MayReservePlanning
    <2>3. planning' = planning \cup {r} /\ UNCHANGED <<claims, pending>>
      BY <1>3 DEF ReservePlanning
    <2> QED BY <2>2, <2>3, PlanningExclusive
  <1>4. CASE ReserveReplanning(h)
    <2> DEFINE r == EvidenceReservation(h)
    <2>1. r.action.campaign = On(h) /\ r.tickets = call[h].tickets
      BY DEF EvidenceReservation, EvidenceAction, Action
    <2>2. r \in planning \/ Free(r.action.campaign, r.tickets)
      BY <1>4, <2>1 DEF ReserveReplanning, MayConsult
    <2>3. planning' = planning \cup {r} /\ UNCHANGED <<claims, pending>>
      BY <1>4 DEF ReserveReplanning
    <2> QED BY <2>2, <2>3, PlanningExclusive
  <1>5. CASE ReserveClaims(h)
    <2> DEFINE r == ReceiptOf(h)
    <2>1. CASE r \in pending
      BY <1>5, <2>1, SameHoldings DEF ReserveClaims, holdings
    <2>2. CASE r \notin pending
      <3>1. r.campaign = On(h) /\ r.tickets = AttemptOf(h).tickets
        BY DEF ReceiptOf, Receipt
      <3>2. Free(r.campaign, r.tickets)
        BY <1>5, <2>2, <3>1 DEF ReserveClaims, MayReserve
      <3>3. /\ pending' = pending \cup {r}
            /\ planning' \subseteq planning
            /\ claims' = claims
        BY <1>5, <2>2 DEF ReserveClaims
      <3> QED BY <3>2, <3>3, PendingExclusive
    <2> QED BY <2>1, <2>2
  <1>6. CASE ReleaseDecision(h) \/ LoseActivation(h) \/ Relinquish(h)
    BY <1>6, FewerReservations DEF ReleaseDecision, LoseActivation, Relinquish
  <1>7. CASE \/ ReadOrSaveAttempt(h) \/ Split(h) \/ PlanPending(h) \/ SaveCompiled(h)
             \/ SaveRevision(h) \/ Succeed(h) \/ Publish(h) \/ PublishRevision(h)
             \/ Activate(h) \/ ReplayClassification(h) \/ RecoverClassification(h)
             \/ NotCommitted(h) \/ CommitSuccessor(h) \/ RecordClassification(h)
             \/ Settle(h) \/ Refuse(h)
    BY <1>7, SameHoldings DEF ReadOrSaveAttempt, Split, PlanPending, SaveCompiled,
       SaveRevision, Succeed, Publish, PublishRevision, Activate, ReplayClassification,
       RecoverClassification, NotCommitted, CommitSuccessor, RecordClassification,
       Settle, Refuse, holdings, tables
  <1>8. ASSUME NEW o \in Outcome, Plan(h, o) \/ Consult(h, o)
        PROVE  TicketExclusive'
    BY <1>8, SameHoldings DEF Plan, Consult, holdings, tables
  <1> QED BY <1>1, <1>2, <1>3, <1>4, <1>5, <1>6, <1>7, <1>8 DEF Step

\* No Ticket is ever held by two Campaigns, however their calls interleave, die
\* or are drained.
THEOREM TicketsAreExclusive == Spec => []TicketExclusive
  <1>1. Init => TicketExclusive
    BY DEF Init, TicketExclusive, HeldBy, ClaimedBy, NoClaim
  <1>2. TicketExclusive /\ [Next]_vars => TicketExclusive'
    <2> SUFFICES ASSUME TicketExclusive, [Next]_vars
                 PROVE  TicketExclusive'
      OBVIOUS
    <2>1. ASSUME NEW h \in Host, Step(h) PROVE TicketExclusive'
      BY <2>1, StepExclusive
    <2>2. ASSUME NEW h \in Host, Abandon(h) PROVE TicketExclusive'
      BY <2>2, SameHoldings DEF Abandon, holdings, tables
    <2>3. ASSUME NEW h \in Host, NEW c \in Campaign, Advance(h, c) PROVE TicketExclusive'
      BY <2>3, SameHoldings DEF Advance, Begin, holdings, tables
    <2>4. ASSUME NEW h \in Host, NEW c \in Campaign, NEW S \in Ready[c], Start(h, c, S)
          PROVE  TicketExclusive'
      BY <2>4, SameHoldings DEF Start, Begin, holdings, tables
    <2>5. ASSUME NEW h \in Host, NEW c \in Campaign, NEW S \in Ready[c],
                 NEW n \in Planned, StartSuccessor(h, c, S, n)
          PROVE  TicketExclusive'
      BY <2>5, SameHoldings DEF StartSuccessor, Begin, holdings, tables
    <2>6. ASSUME NEW c \in Campaign, NEW e \in Evidence, Report(c, e)
          PROVE  TicketExclusive'
      BY <2>6, SameHoldings DEF Report, holdings, tables
    <2>7. CASE Drain \/ UNCHANGED vars
      BY <2>7, SameHoldings DEF Drain, vars, holdings, tables
    <2> QED BY <2>1, <2>2, <2>3, <2>4, <2>5, <2>6, <2>7 DEF Next
  <1> QED BY <1>1, <1>2, PTL DEF Spec

------------------------------------------------------------------------------
(* The chain of revisions and the cutover.  What a transaction writes is   *)
(* typed and in order only because of where its call stands, which is what *)
(* the inductive invariant says.                                           *)

\* What a call may rely on where it stands: the revision it succeeds is within
\* the bound, its attempt was saved, the semantic output it compiles or records
\* is there, and what it activates was published.
Later == (Starting \ {"roll"}) \cup Classifying \cup Activating
Attempted == (Later \ Classifying) \ {"attempt", "successor"}

PlacedAt(h) ==
    /\ pc[h] = "roll" =>
           /\ Previous(h) \in 0 .. Limit[On(h)]
           /\ Previous(h) = Limit[On(h)] =>
                  ~ call[h].explicit /\ call[h].active.tickets = call[h].tickets
    /\ pc[h] \in Later => Previous(h) \in 0 .. Limit[On(h)] - 1
    /\ pc[h] \in Attempted => AttemptOf(h) # NoAttempt
    /\ pc[h] \in {"intent", "progress", "compile"} => AttemptOf(h).protocol = "plan"
    /\ pc[h] = "compile" =>
           \E o \in {"plan", "decision"} : <<Action(On(h), Previous(h), {}), o>> \in outputs
    /\ pc[h] \in {"commit", "record"} => HasOutput(EvidenceAction(h))
    /\ pc[h] = "activate" => Previous(h) + 1 \in revisions[On(h)]

\* An action has one output.
OneOutput == \A x, y \in outputs : x[1] = y[1] => x = y

WithinLimit ==
    /\ \A c \in Campaign : activations[c].revision \in 0 .. Limit[c]
    /\ \A c \in Campaign, n \in Planned : evidence[c][n] # {} => n < Limit[c]

IInv ==
    /\ TypeOK
    /\ OneOutput
    /\ WithinLimit
    /\ \A h \in Host : PlacedAt(h)

\* What a step must keep for the calls that do not move.
Kept ==
    /\ \A c \in Campaign, n \in Predecessor :
           attempts[c][n] # NoAttempt =>
               /\ attempts'[c][n] # NoAttempt
               /\ attempts'[c][n].protocol = attempts[c][n].protocol
    /\ outputs \subseteq outputs'
    /\ \A c \in Campaign : revisions[c] \subseteq revisions'[c]

StaysPut(g) == pc'[g] = pc[g] /\ call'[g] = call[g]

LEMMA Bounds ==
    ASSUME NEW c \in Campaign, NEW n \in 0 .. Limit[c] - 1
    PROVE  n \in Predecessor /\ n + 1 \in Revision /\ n + 1 \in 0 .. Limit[c]
  <1>1. Limit[c] \in Nat
    BY BoundAssumption
  <1> QED BY <1>1 DEF Predecessor, Revision

\* The locals of a running call and what they lead to.
LEMMA CallTyped ==
    ASSUME TypeOK, NEW h \in Host, PlacedAt(h), pc[h] \in Later
    PROVE  /\ call[h] \in CallValue
           /\ On(h) \in Campaign
           /\ Previous(h) \in 0 .. Limit[On(h)] - 1
           /\ Previous(h) \in Predecessor
           /\ Previous(h) + 1 \in Revision
           /\ AttemptOf(h) \in AttemptValue \cup {NoAttempt}
           /\ EvidenceAction(h) \in ActionValue
           /\ EvidenceReservation(h) \in ReservationValue
  <1>1. call[h] \in CallValue
    BY DEF TypeOK, Later, Starting, Classifying, Activating
  <1>2. On(h) \in Campaign
    BY <1>1 DEF CallValue, On
  <1>3. Previous(h) \in 0 .. Limit[On(h)] - 1
    BY DEF PlacedAt
  <1>4. Previous(h) \in Predecessor /\ Previous(h) + 1 \in Revision
    BY <1>2, <1>3, Bounds
  <1>5. AttemptOf(h) \in AttemptValue \cup {NoAttempt}
    BY <1>2, <1>4 DEF AttemptOf, TypeOK
  <1>6. EvidenceAction(h) \in ActionValue
    BY <1>1, <1>2, <1>4 DEF EvidenceAction, Action, ActionValue, CallValue
  <1>7. EvidenceReservation(h) \in ReservationValue
    BY <1>1, <1>6 DEF EvidenceReservation, ReservationValue, CallValue
  <1> QED BY <1>1, <1>2, <1>3, <1>4, <1>5, <1>6, <1>7

LEMMA AttemptFields ==
    ASSUME NEW a \in AttemptValue
    PROVE  a.tickets \in SUBSET Ticket /\ a.evidence \in SUBSET Evidence
  BY DEF AttemptValue

\* The attempt of a call that has one, and the records made from it.
LEMMA AttemptTyped ==
    ASSUME TypeOK, NEW h \in Host, PlacedAt(h), pc[h] \in Attempted
    PROVE  /\ AttemptOf(h) \in AttemptValue
           /\ ActionOf(h) \in ActionValue
           /\ ReceiptOf(h) \in ReceiptValue
           /\ Reservation(On(h), Previous(h), AttemptOf(h)) \in ReservationValue
  <1>1. pc[h] \in Later
    BY DEF Attempted
  <1>2. AttemptOf(h) \in AttemptValue
    BY <1>1, CallTyped DEF PlacedAt
  <1>3. AttemptOf(h).tickets \in SUBSET Ticket /\ AttemptOf(h).evidence \in SUBSET Evidence
    BY <1>2, AttemptFields
  <1>4. ActionOf(h) \in ActionValue
    BY <1>1, <1>3, CallTyped DEF ActionOf, Action, ActionValue
  <1>5. ReceiptOf(h) \in ReceiptValue
    BY <1>1, <1>3, <1>4, CallTyped DEF ReceiptOf, Receipt, ReceiptValue, ActionOf
  <1>6. Reservation(On(h), Previous(h), AttemptOf(h)) \in ReservationValue
    BY <1>3, <1>4 DEF Reservation, ReservationValue, ActionOf
  <1> QED BY <1>2, <1>4, <1>5, <1>6

LEMMA OutputTyped ==
    ASSUME TypeOK, NEW a, HasOutput(a)
    PROVE  OutputOf(a) \in Outcome /\ <<a, OutputOf(a)>> \in outputs
  <1>1. PICK x \in outputs : x[1] = a
    BY DEF HasOutput
  <1> DEFINE y == CHOOSE z \in outputs : z[1] = a
  <1>2. y \in outputs /\ y[1] = a
    BY <1>1
  <1>3. y \in ActionValue \X Outcome
    BY <1>2 DEF TypeOK
  <1>4. y = <<a, y[2]>> /\ y[2] \in Outcome
    BY <1>2, <1>3
  <1> QED BY <1>2, <1>4 DEF OutputOf

\* The calls that do not move keep their places.
LEMMA OthersPlaced ==
    ASSUME TypeOK, NEW g \in Host, PlacedAt(g), StaysPut(g), Kept
    PROVE  PlacedAt(g)'
  <1>1. pc[g] \in Later => On(g) \in Campaign /\ Previous(g) \in Predecessor
    BY CallTyped
  <1>2. On(g)' = On(g) /\ Previous(g)' = Previous(g)
    BY DEF StaysPut, On, Previous
  <1>3. pc[g] \in Attempted =>
            /\ AttemptOf(g)' # NoAttempt
            /\ AttemptOf(g)'.protocol = AttemptOf(g).protocol
    BY <1>1, <1>2 DEF PlacedAt, Kept, AttemptOf, Attempted
  <1>4. HasOutput(EvidenceAction(g)) => HasOutput(EvidenceAction(g))'
    BY <1>2 DEF StaysPut, Kept, HasOutput, EvidenceAction
  <1>5. pc[g] = "activate" => Previous(g) + 1 \in revisions'[On(g)]
    BY <1>1 DEF PlacedAt, Kept, Later, Activating
  <1>6. pc[g] \in {"intent", "progress", "compile"} => pc[g] \in Attempted
    BY DEF Attempted, Later, Starting, Classifying, Activating
  <1> QED BY <1>2, <1>3, <1>4, <1>5, <1>6 DEF PlacedAt, StaysPut, Kept

LEMMA Moves ==
    ASSUME IInv, NEW h \in Host, \A g \in Host \ {h} : StaysPut(g),
           TypeOK', OneOutput', WithinLimit', Kept, PlacedAt(h)'
    PROVE  IInv'
  <1>1. \A g \in Host \ {h} : PlacedAt(g)'
    BY OthersPlaced DEF IInv
  <1> QED BY <1>1 DEF IInv

CallsTyped ==
    /\ pc \in [Host -> {"idle"} \cup Starting \cup Classifying \cup Activating]
    /\ call \in [Host -> CallValue \cup {NoCall}]
    /\ \A h \in Host : pc[h] # "idle" => call[h] \in CallValue

TablesTyped ==
    /\ authority \in {"cut_over", "draining"}
    /\ attempts \in [Campaign -> [Predecessor -> AttemptValue \cup {NoAttempt}]]
    /\ splits \in [Campaign -> SUBSET Predecessor]
    /\ planning \subseteq ReservationValue
    /\ pending \subseteq ReceiptValue
    /\ claims \in [Ticket -> ClaimValue \cup {NoClaim}]
    /\ revisions \in [Campaign -> SUBSET Revision]
    /\ activations \in [Campaign -> ReceiptValue \cup {NoReceipt}]
    /\ classifications \subseteq ActionValue \X Outcome
    /\ outputs \subseteq ActionValue \X Outcome
    /\ evidence \in [Campaign -> [Planned -> SUBSET Evidence]]
    /\ settled \in [Campaign -> [Planned -> SUBSET Evidence]]
    /\ renewed \subseteq Campaign
    /\ abandoned \in 0 .. MaxAbandon

LEMMA TypeSplit == TypeOK <=> TablesTyped /\ CallsTyped
  BY DEF TypeOK, TablesTyped, CallsTyped

\* A call that ends, goes on or begins.
LEMMA Ended ==
    ASSUME CallsTyped, NEW h \in Host, End(h)
    PROVE  CallsTyped' /\ PlacedAt(h)' /\ \A g \in Host \ {h} : StaysPut(g)
  <1>1. pc'[h] = "idle"
    BY DEF CallsTyped, End
  <1>2. PlacedAt(h)'
    BY <1>1 DEF PlacedAt, Later, Attempted, Starting, Classifying, Activating
  <1>3. CallsTyped' /\ \A g \in Host \ {h} : StaysPut(g)
    BY DEF CallsTyped, End, StaysPut
  <1> QED BY <1>2, <1>3

LEMMA Went ==
    ASSUME CallsTyped, NEW h \in Host, pc[h] # "idle",
           NEW to \in Starting \cup Classifying \cup Activating, Goto(h, to)
    PROVE  /\ CallsTyped' /\ \A g \in Host \ {h} : StaysPut(g)
           /\ pc'[h] = to /\ call'[h] = call[h]
           /\ On(h)' = On(h) /\ Previous(h)' = Previous(h)
           /\ EvidenceAction(h)' = EvidenceAction(h)
  BY DEF CallsTyped, Goto, StaysPut, On, Previous, EvidenceAction

LEMMA Begun ==
    ASSUME CallsTyped, NEW h \in Host, NEW local \in CallValue,
           NEW to \in Starting \cup Classifying \cup Activating, Begin(h, local, to)
    PROVE  /\ CallsTyped' /\ \A g \in Host \ {h} : StaysPut(g)
           /\ pc'[h] = to /\ call'[h] = local
           /\ On(h)' = local.campaign /\ Previous(h)' = local.previous
  BY DEF CallsTyped, Begin, StaysPut, On, Previous

LEMMA Undisturbed ==
    ASSUME IInv, UNCHANGED <<attempts, outputs, revisions, activations, evidence>>
    PROVE  OneOutput' /\ WithinLimit' /\ Kept
  BY DEF IInv, OneOutput, WithinLimit, Kept

\* A call that ends without touching what others rely on.
LEMMA EndsWell ==
    ASSUME IInv, NEW h \in Host, End(h), TablesTyped',
           UNCHANGED <<attempts, outputs, revisions, activations, evidence>>
    PROVE  IInv'
  BY Ended, Undisturbed, Moves, TypeSplit DEF IInv, CallsTyped, TablesTyped, TypeOK

\* A call that goes on to a place where it relies on nothing new.
LEMMA GoesOn ==
    ASSUME IInv, NEW h \in Host, pc[h] \in Later,
           NEW to \in Starting \cup Classifying \cup Activating, Goto(h, to), TablesTyped',
           to \notin {"roll", "compile", "commit", "record", "activate"},
           to \in Attempted => pc[h] \in Attempted,
           to \in {"intent", "progress"} => pc[h] \in {"intent", "progress"},
           UNCHANGED <<attempts, outputs, revisions, activations, evidence>>
    PROVE  IInv'
  <1>1. /\ CallsTyped' /\ \A g \in Host \ {h} : StaysPut(g)
        /\ pc'[h] = to /\ call'[h] = call[h]
        /\ On(h)' = On(h) /\ Previous(h)' = Previous(h)
    BY Went, TypeSplit DEF IInv, Later, Starting, Classifying, Activating
  <1>2. AttemptOf(h)' = AttemptOf(h)
    BY <1>1 DEF AttemptOf
  <1>3. pc'[h] # "roll"
    BY <1>1
  <1>4. PlacedAt(h)'
    BY <1>1, <1>2, <1>3 DEF IInv, PlacedAt
  <1> QED BY <1>1, <1>4, Undisturbed, Moves DEF CallsTyped, TablesTyped, TypeOK

\* Calls that end.
LEMMA EndingSteps ==
    ASSUME IInv, NEW h \in Host,
           \/ Split(h) \/ PlanPending(h) \/ ReleaseDecision(h) \/ LoseActivation(h)
           \/ FinalizeClaims(h) \/ Settle(h) \/ Refuse(h) \/ Abandon(h)
    PROVE  IInv'
  <1> USE DEF IInv
  <1>1. TablesTyped /\ CallsTyped
    BY TypeSplit
  <1>2. CASE Split(h)
    <2>1. On(h) \in Campaign /\ Previous(h) \in Predecessor
      BY <1>2, CallTyped DEF Split, Later, Starting
    <2>2. splits' \in [Campaign -> SUBSET Predecessor]
      BY <1>1, <1>2, <2>1 DEF Split, TablesTyped
    <2> QED BY <1>1, <1>2, <2>2, EndsWell DEF Split, TablesTyped, kernel
  <1>3. CASE PlanPending(h) \/ Refuse(h)
    BY <1>1, <1>3, EndsWell DEF PlanPending, Refuse, TablesTyped, tables, kernel
  <1>4. CASE ReleaseDecision(h) \/ LoseActivation(h)
    BY <1>1, <1>4, EndsWell DEF ReleaseDecision, LoseActivation, TablesTyped, kernel
  <1>5. CASE FinalizeClaims(h)
    <2>1. pending' \subseteq pending
      BY <1>5 DEF FinalizeClaims, Finalized
    <2>2. claims' \in [Ticket -> ClaimValue \cup {NoClaim}]
      <3>1. CASE ReceiptOf(h) \notin pending
        BY <1>1, <1>5, <3>1 DEF FinalizeClaims, Finalized, TablesTyped
      <3>2. CASE ReceiptOf(h) \in pending
        <4>1. [campaign |-> ReceiptOf(h).campaign, revision |-> ReceiptOf(h).revision]
                  \in ClaimValue
          BY <1>1, <3>2 DEF TablesTyped, ReceiptValue, ClaimValue
        <4> QED BY <1>1, <1>5, <3>2, <4>1 DEF FinalizeClaims, Finalized, TablesTyped
      <3> QED BY <3>1, <3>2
    <2> QED BY <1>1, <1>5, <2>1, <2>2, EndsWell DEF FinalizeClaims, TablesTyped, kernel
  <1>6. CASE Settle(h)
    <2>1. call[h].evidence \in SUBSET Evidence
      BY <1>1, <1>6 DEF Settle, CallsTyped, CallValue
    <2> QED BY <1>1, <1>6, <2>1, EndsWell DEF Settle, TablesTyped, tables
  <1>7. CASE Abandon(h)
    <2>1. abandoned' \in 0 .. MaxAbandon
      BY <1>1, <1>7, BoundAssumption DEF Abandon, TablesTyped
    <2> QED BY <1>1, <1>7, <2>1, EndsWell DEF Abandon, TablesTyped, tables, kernel
  <1> QED BY <1>2, <1>3, <1>4, <1>5, <1>6, <1>7

\* Calls that go on and leave attempts, outputs, revisions and the active
\* receipts alone.
LEMMA GoingSteps ==
    ASSUME IInv, NEW h \in Host,
           \/ ReservePlanning(h) \/ Publish(h) \/ ReserveClaims(h)
           \/ ReplayClassification(h) \/ RecoverClassification(h) \/ NotCommitted(h)
           \/ RecordClassification(h) \/ Relinquish(h)
    PROVE  IInv'
  <1> USE DEF IInv, Later, Attempted, Starting, Classifying, Activating
  <1>0. TablesTyped /\ CallsTyped
    BY TypeSplit
  <1>1. CASE ReservePlanning(h)
    BY <1>0, <1>1, AttemptTyped, GoesOn DEF ReservePlanning, TablesTyped, kernel
  <1>2. CASE Publish(h)
    BY <1>0, <1>2, GoesOn DEF Publish, TablesTyped, tables, kernel
  <1>3. CASE ReserveClaims(h)
    <2>1. On(h) \in Campaign
      BY <1>0, <1>3, CallTyped DEF ReserveClaims, Later, Activating
    <2>2. renewed' \subseteq Campaign
      BY <1>3, <2>1 DEF ReserveClaims, TypeOK
    <2> QED BY <1>0, <1>3, <2>2, AttemptTyped, GoesOn DEF ReserveClaims, TablesTyped, kernel
  <1>4. CASE ReplayClassification(h) \/ NotCommitted(h)
    BY <1>0, <1>4, GoesOn DEF ReplayClassification, NotCommitted, TablesTyped, tables, kernel
  <1>5. CASE RecoverClassification(h)
    <2>1. EvidenceAction(h) \in ActionValue
      BY <1>5, CallTyped DEF RecoverClassification
    <2>2. classifications' \subseteq ActionValue \X Outcome
      BY <1>0, <1>5, <2>1 DEF RecoverClassification, TablesTyped, Outcome
    <2>3. Goto(h, "settle") /\ pc[h] = "recover"
      BY <1>5 DEF RecoverClassification
    <2>4. /\ UNCHANGED <<authority, attempts, splits, planning, pending, claims, revisions,
                         activations, outputs, evidence, settled, renewed, abandoned>>
      BY <1>5 DEF RecoverClassification, kernel
    <2> QED BY <1>0, <2>2, <2>3, <2>4, GoesOn DEF TablesTyped
  <1>6. CASE RecordClassification(h)
    <2>1. EvidenceAction(h) \in ActionValue
      BY <1>6, CallTyped DEF RecordClassification
    <2>2. OutputOf(EvidenceAction(h)) \in Outcome
      BY <1>6, OutputTyped DEF RecordClassification, PlacedAt
    <2>3. classifications' \subseteq ActionValue \X Outcome
      BY <1>0, <1>6, <2>1, <2>2 DEF RecordClassification, TablesTyped
    <2>4. (Goto(h, "settle") \/ Goto(h, "relinquish")) /\ pc[h] = "record"
      BY <1>6 DEF RecordClassification
    <2>5. /\ UNCHANGED <<authority, attempts, splits, planning, pending, claims, revisions,
                         activations, outputs, evidence, settled, renewed, abandoned>>
      BY <1>6 DEF RecordClassification, kernel
    <2> QED BY <1>0, <2>3, <2>4, <2>5, GoesOn DEF TablesTyped
  <1>7. CASE Relinquish(h)
    BY <1>0, <1>7, GoesOn DEF Relinquish, TablesTyped, kernel
  <1> QED BY <1>1, <1>2, <1>3, <1>4, <1>5, <1>6, <1>7

\* A committed activation is rolled forward before the call goes on.
LEMMA RollsOn ==
    ASSUME IInv, NEW h \in Host, RollForward(h)
    PROVE  IInv'
  <1> DEFINE r == call[h].active
  <1>1. TablesTyped /\ CallsTyped /\ call[h] \in CallValue
    BY TypeSplit DEF IInv, RollForward, CallsTyped
  <1>2. pending' \subseteq pending
    BY DEF RollForward, Finalized
  <1>3. claims' \in [Ticket -> ClaimValue \cup {NoClaim}]
    <2>1. CASE r \notin pending
      BY <1>1, <2>1 DEF RollForward, Finalized, TablesTyped
    <2>2. CASE r \in pending
      <3>1. [campaign |-> r.campaign, revision |-> r.revision] \in ClaimValue
        BY <1>1, <2>2 DEF TablesTyped, ReceiptValue, ClaimValue
      <3> QED BY <1>1, <2>2, <3>1 DEF RollForward, Finalized, TablesTyped
    <2> QED BY <2>1, <2>2
  <1>4. TablesTyped'
    BY <1>1, <1>2, <1>3 DEF RollForward, TablesTyped, kernel
  <1>5. UNCHANGED <<attempts, outputs, revisions, activations, evidence>>
    BY DEF RollForward, kernel
  <1>6. CASE End(h)
    BY <1>4, <1>5, <1>6, EndsWell
  <1>7. CASE ~ End(h)
    <2>1. Goto(h, "attempt") /\ pc[h] = "roll" /\ ~ (~ call[h].explicit /\ r.tickets = call[h].tickets)
      BY <1>7 DEF RollForward
    <2>2. /\ CallsTyped' /\ \A g \in Host \ {h} : StaysPut(g)
          /\ pc'[h] = "attempt" /\ call'[h] = call[h]
          /\ On(h)' = On(h) /\ Previous(h)' = Previous(h)
      BY <1>1, <2>1, Went DEF Starting
    <2>3. On(h) \in Campaign /\ Limit[On(h)] \in Nat
      BY <1>1, BoundAssumption DEF CallValue, On
    <2>4. Previous(h) \in 0 .. Limit[On(h)] /\ Previous(h) # Limit[On(h)]
      BY <2>1 DEF IInv, PlacedAt
    <2>5. Previous(h) \in 0 .. Limit[On(h)] - 1
      BY <2>3, <2>4
    <2>6. PlacedAt(h)'
      BY <2>2, <2>5 DEF PlacedAt, Later, Attempted, Starting, Classifying, Activating
    <2> QED BY <1>4, <1>5, <2>2, <2>6, Undisturbed, Moves DEF CallsTyped, TablesTyped, TypeOK
  <1> QED BY <1>6, <1>7

\* What changes the attempt of a call leaves all other attempts alone.
LEMMA AttemptsKept ==
    ASSUME IInv, NEW h \in Host, pc[h] \in Later, NEW a \in AttemptValue,
           attempts' = [attempts EXCEPT ![On(h)][Previous(h)] = a],
           AttemptOf(h) # NoAttempt => a.protocol = AttemptOf(h).protocol,
           UNCHANGED <<outputs, revisions, activations, evidence>>
    PROVE  /\ attempts' \in [Campaign -> [Predecessor -> AttemptValue \cup {NoAttempt}]]
           /\ attempts'[On(h)][Previous(h)] = a
           /\ a # NoAttempt
           /\ OneOutput' /\ WithinLimit' /\ Kept
  <1>1. On(h) \in Campaign /\ Previous(h) \in Predecessor
    BY CallTyped DEF IInv
  <1>2. attempts \in [Campaign -> [Predecessor -> AttemptValue \cup {NoAttempt}]]
    BY DEF IInv, TypeOK
  <1>3. attempts' \in [Campaign -> [Predecessor -> AttemptValue \cup {NoAttempt}]]
    BY <1>1, <1>2
  <1>4. \A c \in Campaign, n \in Predecessor :
            attempts'[c][n] = IF c = On(h) /\ n = Previous(h) THEN a ELSE attempts[c][n]
    BY <1>1, <1>2
  <1>5. a # NoAttempt
    BY DEF AttemptValue, NoAttempt
  <1>6. Kept
    BY <1>4, <1>5 DEF Kept, AttemptOf
  <1> QED BY <1>1, <1>3, <1>4, <1>5, <1>6 DEF IInv, OneOutput, WithinLimit

LEMMA SavesAttempt ==
    ASSUME IInv, NEW h \in Host, ReadOrSaveAttempt(h)
    PROVE  IInv'
  <1> USE DEF Later, Attempted, Starting, Classifying, Activating
  <1>1. TablesTyped /\ CallsTyped /\ pc[h] = "attempt" /\ call[h] \in CallValue
    BY TypeSplit DEF IInv, ReadOrSaveAttempt, CallsTyped
  <1>2. CASE AttemptOf(h) = NoAttempt
    <2>1. NewAttempt(h) \in AttemptValue
      BY <1>1 DEF NewAttempt, AttemptValue, CallValue
    <2>2. /\ attempts' = [attempts EXCEPT ![On(h)][Previous(h)] = NewAttempt(h)]
          /\ Goto(h, "intent")
          /\ UNCHANGED <<authority, splits, planning, pending, claims, revisions,
                         activations, classifications, outputs, evidence, settled, renewed, abandoned>>
      BY <1>2 DEF ReadOrSaveAttempt, kernel
    <2>3. /\ attempts' \in [Campaign -> [Predecessor -> AttemptValue \cup {NoAttempt}]]
          /\ attempts'[On(h)][Previous(h)] = NewAttempt(h)
          /\ NewAttempt(h) # NoAttempt
          /\ OneOutput' /\ WithinLimit' /\ Kept
      BY <1>1, <1>2, <2>1, <2>2, AttemptsKept
    <2>4. /\ CallsTyped' /\ \A g \in Host \ {h} : StaysPut(g)
          /\ pc'[h] = "intent" /\ call'[h] = call[h]
          /\ On(h)' = On(h) /\ Previous(h)' = Previous(h)
      BY <1>1, <2>2, Went
    <2>5. AttemptOf(h)' = NewAttempt(h) /\ NewAttempt(h).protocol = "plan"
      BY <2>3, <2>4 DEF AttemptOf, NewAttempt
    <2>6. PlacedAt(h)'
      BY <1>1, <2>3, <2>4, <2>5 DEF IInv, PlacedAt
    <2>7. TablesTyped'
      BY <1>1, <2>2, <2>3 DEF TablesTyped
    <2>8. TypeOK'
      BY <2>4, <2>7 DEF CallsTyped, TablesTyped, TypeOK
    <2> QED BY <2>3, <2>4, <2>6, <2>8, Moves
  <1>3. CASE AttemptOf(h) # NoAttempt
    <2> DEFINE to == AfterAttempt(AttemptOf(h))
    <2>1. to \in {"intent", "release", "revision", "publish"}
      BY DEF AfterAttempt
    <2>2. AttemptOf(h) \in AttemptValue
      BY <1>1, <1>3, CallTyped DEF IInv
    <2>3. to = "intent" => AttemptOf(h).protocol = "plan"
      BY <2>2 DEF AfterAttempt, AttemptValue
    <2>4. /\ Goto(h, to)
          /\ UNCHANGED <<authority, attempts, splits, planning, pending, claims, revisions,
                         activations, classifications, outputs, evidence, settled, renewed, abandoned>>
      BY <1>3 DEF ReadOrSaveAttempt, kernel
    <2>5. /\ CallsTyped' /\ \A g \in Host \ {h} : StaysPut(g)
          /\ pc'[h] = to /\ call'[h] = call[h]
          /\ On(h)' = On(h) /\ Previous(h)' = Previous(h)
      BY <1>1, <2>1, <2>4, Went
    <2>6. AttemptOf(h)' = AttemptOf(h)
      BY <2>4, <2>5 DEF AttemptOf
    <2> HIDE DEF to
    <2>7. PlacedAt(h)'
      BY <1>1, <1>3, <2>1, <2>3, <2>5, <2>6 DEF IInv, PlacedAt
    <2>8. TypeOK'
      BY <1>1, <2>4, <2>5 DEF CallsTyped, TablesTyped, TypeOK
    <2> QED BY <2>4, <2>5, <2>7, <2>8, Undisturbed, Moves
  <1> QED BY <1>2, <1>3

\* An output that appears is the only one of its action.
LEMMA OutputKept ==
    ASSUME IInv, NEW a \in ActionValue, NEW o \in Outcome, Completes(a, o),
           UNCHANGED <<attempts, revisions, activations, evidence>>
    PROVE  /\ outputs' \subseteq ActionValue \X Outcome
           /\ <<a, o>> \in outputs'
           /\ OneOutput' /\ WithinLimit' /\ Kept
  <1>1. outputs' = outputs \cup {<<a, o>>} /\ \A x \in outputs : x[1] = a => x[2] = o
    BY DEF Completes
  <1>2. outputs \subseteq ActionValue \X Outcome
    BY DEF IInv, TypeOK
  <1>3. \A x \in outputs : x = <<x[1], x[2]>>
    BY <1>2
  <1>4. OneOutput'
    <2> SUFFICES ASSUME NEW x \in outputs', NEW y \in outputs', x[1] = y[1]
                 PROVE  x = y
      BY DEF OneOutput
    <2>1. CASE x \in outputs /\ y \in outputs
      BY <2>1 DEF IInv, OneOutput
    <2>2. CASE x = <<a, o>> /\ y \in outputs
      BY <1>1, <1>3, <2>2
    <2>3. CASE y = <<a, o>> /\ x \in outputs
      BY <1>1, <1>3, <2>3
    <2> QED BY <1>1, <2>1, <2>2, <2>3
  <1>5. WithinLimit' /\ Kept
    BY <1>1 DEF IInv, WithinLimit, Kept
  <1> QED BY <1>1, <1>2, <1>4, <1>5

LEMMA PlansOn ==
    ASSUME IInv, NEW h \in Host, NEW o \in Outcome, Plan(h, o)
    PROVE  IInv'
  <1> USE DEF Later, Attempted, Starting, Classifying, Activating
  <1>1. TablesTyped /\ CallsTyped /\ pc[h] = "progress"
    BY TypeSplit DEF IInv, Plan
  <1>2. AttemptOf(h) \in AttemptValue /\ ActionOf(h) \in ActionValue
    BY <1>1, AttemptTyped DEF IInv
  <1>3. AttemptOf(h).protocol = "plan"
    BY <1>1 DEF IInv, PlacedAt
  <1>4. AttemptOf(h).evidence = {}
    BY <1>2, <1>3 DEF AttemptValue
  <1>5. /\ Completes(ActionOf(h), o) /\ Goto(h, "compile")
        /\ o \in {"plan", "decision"}
        /\ UNCHANGED <<authority, attempts, splits, planning, pending, claims, revisions,
                       activations, classifications, evidence, settled, renewed, abandoned>>
    BY DEF Plan, tables, kernel
  <1>6. /\ outputs' \subseteq ActionValue \X Outcome
        /\ <<ActionOf(h), o>> \in outputs'
        /\ OneOutput' /\ WithinLimit' /\ Kept
    BY <1>2, <1>5, OutputKept
  <1>7. /\ CallsTyped' /\ \A g \in Host \ {h} : StaysPut(g)
        /\ pc'[h] = "compile" /\ call'[h] = call[h]
        /\ On(h)' = On(h) /\ Previous(h)' = Previous(h)
    BY <1>1, <1>5, Went
  <1>8. AttemptOf(h)' = AttemptOf(h) /\ Action(On(h), Previous(h), {}) = ActionOf(h)
    BY <1>4, <1>5, <1>7 DEF AttemptOf, ActionOf, Action
  <1>9. PlacedAt(h)'
    BY <1>1, <1>5, <1>6, <1>7, <1>8 DEF IInv, PlacedAt
  <1>10. TypeOK'
    BY <1>1, <1>5, <1>6, <1>7 DEF CallsTyped, TablesTyped, TypeOK
  <1> QED BY <1>6, <1>7, <1>9, <1>10, Moves

\* The output of an attempt that is compiled is a plan or a Decision.
LEMMA CompiledOutput ==
    ASSUME IInv, NEW h \in Host, pc[h] = "compile"
    PROVE  OutputOf(ActionOf(h)) \in {"plan", "decision"}
  <1>1. AttemptOf(h) \in AttemptValue /\ AttemptOf(h).protocol = "plan"
    BY AttemptTyped DEF IInv, PlacedAt, Attempted, Later, Starting, Classifying, Activating
  <1>2. ActionOf(h) = Action(On(h), Previous(h), {})
    BY <1>1 DEF ActionOf, AttemptValue
  <1>3. PICK o \in {"plan", "decision"} : <<ActionOf(h), o>> \in outputs
    BY <1>2 DEF IInv, PlacedAt
  <1>4. HasOutput(ActionOf(h))
    BY <1>3 DEF HasOutput
  <1>5. <<ActionOf(h), OutputOf(ActionOf(h))>> \in outputs
    BY <1>4, OutputTyped DEF IInv
  <1>6. <<ActionOf(h), OutputOf(ActionOf(h))>> = <<ActionOf(h), o>>
    BY <1>3, <1>5 DEF IInv, OneOutput
  <1> QED BY <1>3, <1>6

LEMMA CompilesOn ==
    ASSUME IInv, NEW h \in Host, SaveCompiled(h) \/ SaveRevision(h)
    PROVE  IInv'
  <1> USE DEF Later, Attempted, Starting, Classifying, Activating
  <1>1. TablesTyped /\ CallsTyped /\ pc[h] \in Attempted /\ pc[h] \in Later /\ pc[h] # "idle"
    BY TypeSplit DEF IInv, SaveCompiled, SaveRevision
  <1>2. AttemptOf(h) \in AttemptValue /\ On(h) \in Campaign /\ Previous(h) \in Predecessor
    BY <1>1, AttemptTyped, CallTyped DEF IInv
  <1> DEFINE a == IF SaveRevision(h)
                  THEN [AttemptOf(h) EXCEPT !.revision = TRUE]
                  ELSE [AttemptOf(h) EXCEPT !.compiled = OutputOf(ActionOf(h))]
             to == IF SaveRevision(h) THEN "publish"
                   ELSE IF OutputOf(ActionOf(h)) = "decision" THEN "release" ELSE "revision"
  <1>3. a \in AttemptValue /\ a.protocol = AttemptOf(h).protocol
    <2>1. CASE SaveRevision(h)
      BY <1>2, <2>1 DEF AttemptValue
    <2>2. CASE SaveCompiled(h) /\ ~ SaveRevision(h)
      <3>1. AttemptOf(h).protocol = "plan" /\ OutputOf(ActionOf(h)) \in {"plan", "decision"}
        BY <2>2, CompiledOutput DEF IInv, PlacedAt, SaveCompiled
      <3> QED BY <1>2, <2>2, <3>1 DEF AttemptValue
    <2> QED BY <2>1, <2>2
  <1>4. /\ attempts' = [attempts EXCEPT ![On(h)][Previous(h)] = a]
        /\ Goto(h, to)
        /\ UNCHANGED <<authority, splits, planning, pending, claims, revisions, activations,
                       classifications, outputs, evidence, settled, renewed, abandoned>>
    BY <1>2 DEF SaveCompiled, SaveRevision, AttemptOf, kernel
  <1>5. to \in {"publish", "release", "revision"}
    OBVIOUS
  <1> HIDE DEF a, to
  <1>6. /\ attempts' \in [Campaign -> [Predecessor -> AttemptValue \cup {NoAttempt}]]
        /\ attempts'[On(h)][Previous(h)] = a
        /\ a # NoAttempt
        /\ OneOutput' /\ WithinLimit' /\ Kept
    BY <1>1, <1>3, <1>4, AttemptsKept
  <1>7. /\ CallsTyped' /\ \A g \in Host \ {h} : StaysPut(g)
        /\ pc'[h] = to /\ call'[h] = call[h]
        /\ On(h)' = On(h) /\ Previous(h)' = Previous(h)
    BY <1>1, <1>4, <1>5, Went
  <1>8. AttemptOf(h)' = a
    BY <1>6, <1>7 DEF AttemptOf
  <1>9. PlacedAt(h)'
    BY <1>1, <1>5, <1>6, <1>7, <1>8 DEF IInv, PlacedAt
  <1>10. TypeOK'
    BY <1>1, <1>4, <1>6, <1>7 DEF CallsTyped, TablesTyped, TypeOK
  <1> QED BY <1>6, <1>7, <1>9, <1>10, Moves

LEMMA SucceedsOn ==
    ASSUME IInv, NEW h \in Host, Succeed(h)
    PROVE  IInv'
  <1> USE DEF Later, Attempted, Starting, Classifying, Activating
  <1>1. TablesTyped /\ CallsTyped /\ pc[h] = "successor"
    BY TypeSplit DEF IInv, Succeed
  <1>2. AttemptOf(h) # NoAttempt
    BY DEF Succeed, MaySucceed, IsSuccessor, NoAttempt
  <1>3. PICK to \in {"finalize", "publish", "revision"} : Goto(h, to)
    BY DEF Succeed
  <1>4. UNCHANGED <<authority, attempts, splits, planning, pending, claims, revisions,
                    activations, classifications, outputs, evidence, settled, renewed, abandoned>>
    BY DEF Succeed, tables, kernel
  <1>5. /\ CallsTyped' /\ \A g \in Host \ {h} : StaysPut(g)
        /\ pc'[h] = to /\ call'[h] = call[h]
        /\ On(h)' = On(h) /\ Previous(h)' = Previous(h)
    BY <1>1, <1>3, Went
  <1>6. AttemptOf(h)' = AttemptOf(h)
    BY <1>4, <1>5 DEF AttemptOf
  <1>7. PlacedAt(h)'
    BY <1>1, <1>2, <1>5, <1>6 DEF IInv, PlacedAt
  <1>8. TypeOK'
    BY <1>1, <1>4, <1>5 DEF CallsTyped, TablesTyped, TypeOK
  <1> QED BY <1>4, <1>5, <1>7, <1>8, Undisturbed, Moves

LEMMA PublishesOn ==
    ASSUME IInv, NEW h \in Host, PublishRevision(h)
    PROVE  IInv'
  <1> USE DEF Later, Attempted, Starting, Classifying, Activating
  <1>1. TablesTyped /\ CallsTyped /\ pc[h] = "first"
    BY TypeSplit DEF IInv, PublishRevision
  <1>2. On(h) \in Campaign /\ Previous(h) + 1 \in Revision
    BY <1>1, CallTyped DEF IInv
  <1>3. /\ revisions' = [revisions EXCEPT ![On(h)] = @ \cup {Previous(h) + 1}]
        /\ Goto(h, "activate")
        /\ UNCHANGED <<authority, attempts, splits, planning, pending, claims,
                       activations, classifications, outputs, evidence, settled, renewed, abandoned>>
    BY DEF PublishRevision, kernel
  <1>4. /\ revisions' \in [Campaign -> SUBSET Revision]
        /\ Previous(h) + 1 \in revisions'[On(h)]
        /\ \A c \in Campaign : revisions[c] \subseteq revisions'[c]
    BY <1>1, <1>2, <1>3 DEF TablesTyped
  <1>5. OneOutput' /\ WithinLimit' /\ Kept
    BY <1>3, <1>4 DEF IInv, OneOutput, WithinLimit, Kept
  <1>6. /\ CallsTyped' /\ \A g \in Host \ {h} : StaysPut(g)
        /\ pc'[h] = "activate" /\ call'[h] = call[h]
        /\ On(h)' = On(h) /\ Previous(h)' = Previous(h)
    BY <1>1, <1>3, Went
  <1>7. AttemptOf(h)' = AttemptOf(h)
    BY <1>3, <1>6 DEF AttemptOf
  <1>8. PlacedAt(h)'
    BY <1>1, <1>4, <1>6, <1>7 DEF IInv, PlacedAt
  <1>9. TypeOK'
    BY <1>1, <1>3, <1>4, <1>6 DEF CallsTyped, TablesTyped, TypeOK
  <1> QED BY <1>5, <1>6, <1>8, <1>9, Moves

LEMMA ActivatesOn ==
    ASSUME IInv, NEW h \in Host, Activate(h)
    PROVE  IInv'
  <1> USE DEF Later, Attempted, Starting, Classifying, Activating
  <1>1. TablesTyped /\ CallsTyped /\ pc[h] = "activate"
    BY TypeSplit DEF IInv, Activate
  <1>2. /\ On(h) \in Campaign /\ ReceiptOf(h) \in ReceiptValue
        /\ Previous(h) \in 0 .. Limit[On(h)] - 1
    BY <1>1, CallTyped, AttemptTyped DEF IInv
  <1>3. ReceiptOf(h).revision \in 0 .. Limit[On(h)]
    BY <1>2, Bounds DEF ReceiptOf, Receipt
  <1>4. /\ activations' = [activations EXCEPT ![On(h)] = ReceiptOf(h)]
        /\ Goto(h, "finalize")
        /\ UNCHANGED <<authority, attempts, splits, planning, pending, claims, revisions,
                       classifications, outputs, evidence, settled, renewed, abandoned>>
    BY DEF Activate, kernel
  <1>5. activations' \in [Campaign -> ReceiptValue \cup {NoReceipt}]
    BY <1>1, <1>2, <1>4 DEF TablesTyped
  <1>6. \A c \in Campaign : activations'[c].revision \in 0 .. Limit[c]
    BY <1>1, <1>3, <1>4 DEF TablesTyped, IInv, WithinLimit
  <1>7. OneOutput' /\ WithinLimit' /\ Kept
    BY <1>4, <1>6 DEF IInv, OneOutput, WithinLimit, Kept
  <1>8. /\ CallsTyped' /\ \A g \in Host \ {h} : StaysPut(g)
        /\ pc'[h] = "finalize" /\ call'[h] = call[h]
        /\ On(h)' = On(h) /\ Previous(h)' = Previous(h)
    BY <1>1, <1>4, Went
  <1>9. AttemptOf(h)' = AttemptOf(h)
    BY <1>4, <1>8 DEF AttemptOf
  <1>10. PlacedAt(h)'
    BY <1>1, <1>8, <1>9 DEF IInv, PlacedAt
  <1>11. TypeOK'
    BY <1>1, <1>4, <1>5, <1>8 DEF CallsTyped, TablesTyped, TypeOK
  <1> QED BY <1>7, <1>8, <1>10, <1>11, Moves

LEMMA ReservesReplanning ==
    ASSUME IInv, NEW h \in Host, ReserveReplanning(h)
    PROVE  IInv'
  <1> USE DEF Later, Attempted, Starting, Classifying, Activating
  <1> DEFINE local == [call[h] EXCEPT !.retained = EvidenceReservation(h) \in planning]
  <1>1. TablesTyped /\ CallsTyped /\ pc[h] = "classify"
    BY TypeSplit DEF IInv, ReserveReplanning
  <1>2. /\ call[h] \in CallValue /\ EvidenceReservation(h) \in ReservationValue
        /\ Previous(h) \in 0 .. Limit[On(h)] - 1
    BY <1>1, CallTyped DEF IInv
  <1>3. /\ local \in CallValue
        /\ local.campaign = On(h) /\ local.previous = Previous(h)
    <2>1. \A b \in BOOLEAN :
              /\ [call[h] EXCEPT !.retained = b] \in CallValue
              /\ [call[h] EXCEPT !.retained = b].campaign = On(h)
              /\ [call[h] EXCEPT !.retained = b].previous = Previous(h)
      BY <1>2 DEF CallValue, On, Previous
    <2>2. (EvidenceReservation(h) \in planning) \in BOOLEAN
      OBVIOUS
    <2> QED BY <2>1, <2>2
  <1>4. /\ planning' = planning \cup {EvidenceReservation(h)}
        /\ pc' = [pc EXCEPT ![h] = "recover"]
        /\ call' = [call EXCEPT ![h] = local]
        /\ UNCHANGED <<authority, attempts, splits, pending, claims, revisions, activations,
                       classifications, outputs, evidence, settled, renewed, abandoned>>
    BY DEF ReserveReplanning, kernel
  <1> HIDE DEF local
  <1>5. /\ CallsTyped' /\ \A g \in Host \ {h} : StaysPut(g)
        /\ pc'[h] = "recover" /\ call'[h] = local
    BY <1>1, <1>3, <1>4 DEF CallsTyped, StaysPut
  <1>6. On(h)' = On(h) /\ Previous(h)' = Previous(h)
    BY <1>3, <1>5 DEF On, Previous
  <1>7. PlacedAt(h)'
    BY <1>2, <1>5, <1>6 DEF PlacedAt
  <1>8. TypeOK'
    BY <1>1, <1>2, <1>4, <1>5 DEF CallsTyped, TablesTyped, TypeOK
  <1> QED BY <1>4, <1>5, <1>7, <1>8, Undisturbed, Moves

LEMMA ConsultsOn ==
    ASSUME IInv, NEW h \in Host, NEW o \in Outcome, Consult(h, o)
    PROVE  IInv'
  <1> USE DEF Later, Attempted, Starting, Classifying, Activating
  <1>1. TablesTyped /\ CallsTyped /\ pc[h] = "consult"
    BY TypeSplit DEF IInv, Consult
  <1>2. EvidenceAction(h) \in ActionValue
    BY <1>1, CallTyped DEF IInv
  <1>3. PICK to \in {"commit", "record"} : Goto(h, to)
    BY DEF Consult
  <1>4. /\ Completes(EvidenceAction(h), o)
        /\ UNCHANGED <<authority, attempts, splits, planning, pending, claims, revisions,
                       activations, classifications, evidence, settled, renewed, abandoned>>
    BY DEF Consult, tables, kernel
  <1>5. /\ outputs' \subseteq ActionValue \X Outcome
        /\ <<EvidenceAction(h), o>> \in outputs'
        /\ OneOutput' /\ WithinLimit' /\ Kept
    BY <1>2, <1>4, OutputKept
  <1>6. /\ CallsTyped' /\ \A g \in Host \ {h} : StaysPut(g)
        /\ pc'[h] = to /\ call'[h] = call[h]
        /\ On(h)' = On(h) /\ Previous(h)' = Previous(h)
        /\ EvidenceAction(h)' = EvidenceAction(h)
    BY <1>1, <1>3, Went
  <1>7. HasOutput(EvidenceAction(h))'
    BY <1>5, <1>6 DEF HasOutput
  <1>8. PlacedAt(h)'
    BY <1>1, <1>3, <1>6, <1>7 DEF IInv, PlacedAt
  <1>9. TypeOK'
    BY <1>1, <1>4, <1>5, <1>6 DEF CallsTyped, TablesTyped, TypeOK
  <1> QED BY <1>5, <1>6, <1>8, <1>9, Moves

LEMMA CommitsOn ==
    ASSUME IInv, NEW h \in Host, CommitSuccessor(h)
    PROVE  IInv'
  <1> USE DEF Later, Attempted, Starting, Classifying, Activating
  <1>1. TablesTyped /\ CallsTyped /\ pc[h] = "commit" /\ call[h] \in CallValue
    BY TypeSplit DEF IInv, CommitSuccessor, CallsTyped
  <1>2. Successor(h) \in AttemptValue
    BY <1>1 DEF Successor, AttemptValue, CallValue
  <1>3. AttemptOf(h) # NoAttempt => Successor(h).protocol = AttemptOf(h).protocol
    BY DEF CommitSuccessor, MayCommit
  <1>4. /\ attempts' = [attempts EXCEPT ![On(h)][Previous(h)] = Successor(h)]
        /\ Goto(h, "record") \/ End(h)
        /\ UNCHANGED <<authority, splits, planning, pending, claims, revisions, activations,
                       classifications, outputs, evidence, settled, renewed, abandoned>>
    BY DEF CommitSuccessor, kernel
  <1>5. /\ attempts' \in [Campaign -> [Predecessor -> AttemptValue \cup {NoAttempt}]]
        /\ OneOutput' /\ WithinLimit' /\ Kept
    BY <1>1, <1>2, <1>3, <1>4, AttemptsKept
  <1>6. TablesTyped'
    BY <1>1, <1>4, <1>5 DEF TablesTyped
  <1>7. CASE End(h)
    <2>1. TypeOK' /\ PlacedAt(h)' /\ \A g \in Host \ {h} : StaysPut(g)
      BY <1>1, <1>6, <1>7, Ended DEF CallsTyped, TablesTyped, TypeOK
    <2> QED BY <1>5, <2>1, Moves
  <1>8. CASE Goto(h, "record")
    <2>1. /\ CallsTyped' /\ \A g \in Host \ {h} : StaysPut(g)
          /\ pc'[h] = "record" /\ call'[h] = call[h]
          /\ On(h)' = On(h) /\ Previous(h)' = Previous(h)
          /\ EvidenceAction(h)' = EvidenceAction(h)
      BY <1>1, <1>8, Went
    <2>2. HasOutput(EvidenceAction(h))
      BY <1>1 DEF IInv, PlacedAt
    <2>3. HasOutput(EvidenceAction(h))'
      BY <1>4, <2>1, <2>2 DEF HasOutput
    <2>4. PlacedAt(h)'
      BY <1>1, <2>1, <2>3 DEF IInv, PlacedAt
    <2>5. TypeOK'
      BY <1>6, <2>1 DEF CallsTyped, TablesTyped, TypeOK
    <2> QED BY <1>5, <2>1, <2>4, <2>5, Moves
  <1> QED BY <1>4, <1>7, <1>8

\* A call that begins takes up the active revision, or one it may still succeed.
LEMMA BeginsWell ==
    ASSUME IInv, NEW h \in Host, NEW local \in CallValue,
           NEW to \in {"roll", "attempt", "successor", "classify"}, Begin(h, local, to),
           local.previous \in 0 .. Limit[local.campaign],
           local.previous = Limit[local.campaign] =>
               to = "roll" /\ ~ local.explicit /\ local.active.tickets = local.tickets
    PROVE  IInv'
  <1> USE DEF Later, Attempted, Starting, Classifying, Activating
  <1>1. TablesTyped /\ CallsTyped
    BY TypeSplit DEF IInv
  <1>2. /\ CallsTyped' /\ \A g \in Host \ {h} : StaysPut(g)
        /\ pc'[h] = to /\ call'[h] = local
        /\ On(h)' = local.campaign /\ Previous(h)' = local.previous
    BY <1>1, Begun
  <1>3. local.campaign \in Campaign /\ Limit[local.campaign] \in Nat
    BY BoundAssumption DEF CallValue
  <1>4. local.previous # Limit[local.campaign] =>
            local.previous \in 0 .. Limit[local.campaign] - 1
    BY <1>3
  <1>5. PlacedAt(h)'
    BY <1>2, <1>4 DEF PlacedAt
  <1>6. UNCHANGED <<authority, attempts, splits, planning, pending, claims, revisions,
                    activations, classifications, outputs, evidence, settled, renewed, abandoned>>
    BY DEF Begin, tables, kernel
  <1>7. TypeOK'
    BY <1>1, <1>2, <1>6 DEF CallsTyped, TablesTyped, TypeOK
  <1> QED BY <1>2, <1>5, <1>6, <1>7, Undisturbed, Moves

LEMMA LocalTyped ==
    ASSUME TypeOK, NEW c \in Campaign, NEW S \in SUBSET Ticket, NEW ex \in BOOLEAN,
           NEW n \in Predecessor \cup Revision, NEW es \in SUBSET Evidence
    PROVE  CallOn(c, S, ex, n, es) \in CallValue
  BY DEF CallOn, CallValue, TypeOK

LEMMA Starts ==
    ASSUME IInv, NEW h \in Host, NEW c \in Campaign, NEW S \in Ready[c], Start(h, c, S)
    PROVE  IInv'
  <1> DEFINE active == activations[c]
             local == CallOn(c, S, FALSE, active.revision, {})
             to == IF active = NoReceipt THEN "attempt" ELSE "roll"
  <1>1. S \in SUBSET Ticket
    BY ReadyAssumption
  <1>2. active \in ReceiptValue \cup {NoReceipt} /\ Limit[c] \in Nat \ {0}
    BY BoundAssumption DEF IInv, TypeOK
  <1>3. active.revision \in 0 .. Limit[c]
    BY DEF IInv, WithinLimit
  <1>4. active.revision \in Predecessor \cup Revision
    <2>1. CASE active = NoReceipt
      <3>1. 0 \in 0 .. Limit[c] - 1
        BY <1>2
      <3> QED BY <2>1, <3>1, Bounds DEF NoReceipt
    <2>2. CASE active \in ReceiptValue
      BY <2>2 DEF ReceiptValue
    <2> QED BY <1>2, <2>1, <2>2
  <1>5. local \in CallValue
    BY <1>1, <1>4, LocalTyped DEF IInv
  <1>6. /\ local.campaign = c /\ local.previous = active.revision /\ ~ local.explicit
        /\ local.active = active /\ local.tickets = S
    BY DEF CallOn
  <1>7. Begin(h, local, to) /\ (active.revision = Limit[c] => active.tickets = S)
    BY DEF Start
  <1>8. active.revision = Limit[c] => active # NoReceipt
    BY <1>2 DEF NoReceipt
  <1>9. to \in {"roll", "attempt"} /\ (active # NoReceipt => to = "roll")
    OBVIOUS
  <1> HIDE DEF active, local, to
  <1> QED BY <1>3, <1>5, <1>6, <1>7, <1>8, <1>9, BeginsWell

LEMMA StartsSuccessor ==
    ASSUME IInv, NEW h \in Host, NEW c \in Campaign, NEW S \in Ready[c], NEW n \in Planned,
           StartSuccessor(h, c, S, n)
    PROVE  IInv'
  <1> DEFINE local == CallOn(c, S, TRUE, n, {})
             to == IF attempts[c][n].protocol = "replan" THEN "successor" ELSE "roll"
  <1>1. S \in SUBSET Ticket /\ n \in Predecessor /\ Limit[c] \in Nat
    BY ReadyAssumption, BoundAssumption DEF Planned
  <1>2. n \in Nat /\ n < Limit[c]
    BY <1>1, BoundAssumption DEF StartSuccessor, Predecessor
  <1>3. local \in CallValue
    BY <1>1, LocalTyped DEF IInv
  <1>4. local.campaign = c /\ local.previous = n
    BY DEF CallOn
  <1>5. Begin(h, local, to)
    BY DEF StartSuccessor
  <1>6. to \in {"roll", "successor"}
    OBVIOUS
  <1>7. n \in 0 .. Limit[c] /\ n # Limit[c]
    BY <1>1, <1>2
  <1> HIDE DEF local, to
  <1> QED BY <1>3, <1>4, <1>5, <1>6, <1>7, BeginsWell

LEMMA Advances ==
    ASSUME IInv, NEW h \in Host, NEW c \in Campaign, Advance(h, c)
    PROVE  IInv'
  <1> DEFINE n == activations[c].revision
  <1>1. PICK es \in {evidence[c][n], settled[c][n]}, to \in {"classify", "successor"} :
            Begin(h, CallOn(c, activations[c].tickets, FALSE, n, es), to)
    BY DEF Advance
  <1> DEFINE local == CallOn(c, activations[c].tickets, FALSE, n, es)
  <1>2. n \in Planned /\ evidence[c][n] # {} /\ activations[c] # NoReceipt
    BY DEF Advance, Readable
  <1>3. activations[c].tickets \in SUBSET Ticket
    BY <1>2 DEF IInv, TypeOK, ReceiptValue
  <1>4. es \in SUBSET Evidence
    BY <1>2 DEF IInv, TypeOK
  <1>5. n < Limit[c] /\ n \in 0 .. Limit[c]
    BY <1>2 DEF IInv, WithinLimit
  <1>6. n # Limit[c]
    BY <1>5, BoundAssumption
  <1>7. local \in CallValue
    BY <1>2, <1>3, <1>4, LocalTyped DEF IInv, Planned
  <1>8. local.campaign = c /\ local.previous = n
    BY DEF CallOn
  <1>9. Begin(h, local, to)
    BY <1>1
  <1> HIDE DEF local, n
  <1> QED BY <1>5, <1>6, <1>7, <1>8, <1>9, BeginsWell

\* A report changes the kernel's Evidence alone, the cutover the authority alone.
LEMMA Reports ==
    ASSUME IInv,
           \/ \E c \in Campaign, e \in Evidence : Report(c, e)
           \/ Drain
           \/ UNCHANGED vars
    PROVE  IInv'
  <1>1. UNCHANGED <<attempts, splits, planning, pending, claims, revisions, activations,
                    classifications, outputs, settled, pc, call, renewed, abandoned>>
    BY DEF Report, Drain, vars, tables, kernel
  <1>2. \A h \in Host : PlacedAt(h)'
    BY <1>1 DEF IInv, PlacedAt, On, Previous, AttemptOf, HasOutput, EvidenceAction
  <1>3. OneOutput'
    BY <1>1 DEF IInv, OneOutput
  <1>4. CASE Drain \/ UNCHANGED vars
    <2>1. evidence' = evidence /\ authority' \in {"cut_over", "draining"}
      BY <1>4 DEF Drain, vars, kernel, IInv, TypeOK
    <2>2. TypeOK' /\ WithinLimit'
      BY <1>1, <2>1 DEF IInv, TypeOK, WithinLimit
    <2> QED BY <1>2, <1>3, <2>2 DEF IInv
  <1>5. ASSUME NEW c \in Campaign, NEW e \in Evidence, Report(c, e)
        PROVE  IInv'
    <2> DEFINE n == activations[c].revision
    <2>1. /\ n \in Planned /\ n < Limit[c] /\ authority' = authority
          /\ evidence' = [evidence EXCEPT ![c][n] = @ \cup {e}]
      BY <1>5 DEF Report
    <2>2. evidence \in [Campaign -> [Planned -> SUBSET Evidence]]
      BY DEF IInv, TypeOK
    <2>3. /\ evidence' \in [Campaign -> [Planned -> SUBSET Evidence]]
          /\ \A d \in Campaign, m \in Planned :
                 evidence'[d][m] # evidence[d][m] => d = c /\ m = n
      BY <2>1, <2>2
    <2>4. TypeOK'
      BY <1>1, <2>1, <2>3 DEF IInv, TypeOK
    <2>5. WithinLimit'
      BY <1>1, <2>1, <2>3 DEF IInv, WithinLimit
    <2> QED BY <1>2, <1>3, <2>4, <2>5 DEF IInv
  <1> QED BY <1>4, <1>5

LEMMA StepInductive ==
    ASSUME IInv, NEW h \in Host, Step(h)
    PROVE  IInv'
  <1>1. CASE \/ Split(h) \/ PlanPending(h) \/ ReleaseDecision(h) \/ LoseActivation(h)
             \/ FinalizeClaims(h) \/ Settle(h) \/ Refuse(h)
    BY <1>1, EndingSteps
  <1>2. CASE \/ ReservePlanning(h) \/ Publish(h) \/ ReserveClaims(h)
             \/ ReplayClassification(h) \/ RecoverClassification(h) \/ NotCommitted(h)
             \/ RecordClassification(h) \/ Relinquish(h)
    BY <1>2, GoingSteps
  <1>3. CASE RollForward(h) \/ ReadOrSaveAttempt(h)
    BY <1>3, RollsOn, SavesAttempt
  <1>4. CASE SaveCompiled(h) \/ SaveRevision(h) \/ Succeed(h)
    BY <1>4, CompilesOn, SucceedsOn
  <1>5. CASE PublishRevision(h) \/ Activate(h)
    BY <1>5, PublishesOn, ActivatesOn
  <1>6. CASE ReserveReplanning(h) \/ CommitSuccessor(h)
    BY <1>6, ReservesReplanning, CommitsOn
  <1>7. ASSUME NEW o \in Outcome, Plan(h, o) \/ Consult(h, o)
        PROVE  IInv'
    BY <1>7, PlansOn, ConsultsOn
  <1> QED BY <1>1, <1>2, <1>3, <1>4, <1>5, <1>6, <1>7 DEF Step

LEMMA Inductive == Spec => []IInv
  <1>1. Init => IInv
    <2> SUFFICES ASSUME Init
                 PROVE  IInv
      OBVIOUS
    <2>1. \A c \in Campaign : Limit[c] \in Nat \ {0}
      BY BoundAssumption
    <2>2. TypeOK
      BY BoundAssumption DEF Init, TypeOK
    <2>3. OneOutput /\ WithinLimit
      BY <2>1 DEF Init, OneOutput, WithinLimit, NoReceipt
    <2>4. \A h \in Host : PlacedAt(h)
      BY DEF Init, PlacedAt, Later, Attempted, Starting, Classifying, Activating
    <2> QED BY <2>2, <2>3, <2>4 DEF IInv
  <1>2. IInv /\ [Next]_vars => IInv'
    <2> SUFFICES ASSUME IInv, [Next]_vars
                 PROVE  IInv'
      OBVIOUS
    <2>1. ASSUME NEW h \in Host, Step(h) \/ Abandon(h) PROVE IInv'
      BY <2>1, StepInductive, EndingSteps
    <2>2. ASSUME NEW h \in Host, NEW c \in Campaign, Advance(h, c) PROVE IInv'
      BY <2>2, Advances
    <2>3. ASSUME NEW h \in Host, NEW c \in Campaign, NEW S \in Ready[c], Start(h, c, S)
          PROVE  IInv'
      BY <2>3, Starts
    <2>4. ASSUME NEW h \in Host, NEW c \in Campaign, NEW S \in Ready[c],
                 NEW n \in Planned, StartSuccessor(h, c, S, n)
          PROVE  IInv'
      BY <2>4, StartsSuccessor
    <2>5. CASE \/ \E c \in Campaign, e \in Evidence : Report(c, e)
               \/ Drain
               \/ UNCHANGED vars
      BY <2>5, Reports
    <2> QED BY <2>1, <2>2, <2>3, <2>4, <2>5 DEF Next
  <1> QED BY <1>1, <1>2, PTL DEF Spec

\* Every table and every call keeps its type, for any calls and Campaigns.
THEOREM TypeCorrect == Spec => []TypeOK
  BY Inductive, PTL DEF IInv

\* Only Activate moves the active pointer.
LEMMA OthersKeepActive ==
    ASSUME NEW h \in Host, Step(h), ~ Activate(h)
    PROVE  activations' = activations
  BY DEF Step, RollForward, ReadOrSaveAttempt, Split, ReservePlanning, Plan, Consult,
     PlanPending, SaveCompiled, ReleaseDecision, SaveRevision, Succeed, Publish,
     ReserveClaims, PublishRevision, LoseActivation, FinalizeClaims, ReplayClassification,
     ReserveReplanning, RecoverClassification, NotCommitted, CommitSuccessor,
     RecordClassification, Relinquish, Settle, Refuse, tables

\* The steps outside the transactions leave the tables alone.
LEMMA OthersKeepTables ==
    ASSUME Next, ~ \E h \in Host : Step(h)
    PROVE  UNCHANGED tables
  BY DEF Next, Abandon, Advance, Start, StartSuccessor, Begin, Report, Drain

\* However calls race, crash or are drained, the active pointer of a Campaign
\* only moves to the published revision of the attempt on the revision it named.
THEOREM RevisionsFormAChain == Spec => Lineage
  <1>1. IInv /\ [Next]_vars =>
            [\A c \in Campaign :
                 activations'[c] # activations[c] =>
                     \E n \in Predecessor :
                         /\ activations[c].revision = n
                         /\ activations'[c] = Receipt(c, n, attempts[c][n])
                         /\ n + 1 \in revisions[c]]_activations
    <2> SUFFICES ASSUME IInv, [Next]_vars, activations' # activations,
                        NEW c \in Campaign, activations'[c] # activations[c]
                 PROVE  \E n \in Predecessor :
                            /\ activations[c].revision = n
                            /\ activations'[c] = Receipt(c, n, attempts[c][n])
                            /\ n + 1 \in revisions[c]
      OBVIOUS
    <2>1. PICK h \in Host : Step(h)
      BY OthersKeepTables DEF tables, vars
    <2>2. Activate(h)
      BY <2>1, OthersKeepActive
    <2>3. /\ pc[h] = "activate"
          /\ activations' = [activations EXCEPT ![On(h)] = ReceiptOf(h)]
          /\ Swap(h) \/ activations[On(h)] = ReceiptOf(h)
      BY <2>2 DEF Activate
    <2>4. activations \in [Campaign -> ReceiptValue \cup {NoReceipt}]
      BY DEF IInv, TypeOK
    <2>5. c = On(h) /\ activations'[c] = ReceiptOf(h)
      BY <2>3, <2>4
    <2>6. activations[c].revision = Previous(h)
      BY <2>3, <2>5 DEF Swap
    <2>7. Previous(h) + 1 \in revisions[c]
      BY <2>3, <2>5 DEF IInv, PlacedAt
    <2>8. Previous(h) \in Predecessor
      BY <2>3, CallTyped DEF IInv, Later, Activating
    <2>9. ReceiptOf(h) = Receipt(c, Previous(h), attempts[c][Previous(h)])
      BY <2>5 DEF ReceiptOf, AttemptOf
    <2> QED BY <2>5, <2>6, <2>7, <2>8, <2>9
  <1> QED BY <1>1, Inductive, PTL DEF Spec, Lineage

\* What a draining writer leaves alone, by table.
LEMMA DrainedAttempts ==
    ASSUME IInv, NEW h \in Host, Step(h), authority = "draining",
           NEW c \in Campaign, NEW n \in Predecessor, attempts[c][n] = NoAttempt
    PROVE  attempts'[c][n] = NoAttempt
  <1>1. attempts \in [Campaign -> [Predecessor -> AttemptValue \cup {NoAttempt}]]
    BY DEF IInv, TypeOK
  <1>2. CASE ReadOrSaveAttempt(h)
    BY <1>2 DEF ReadOrSaveAttempt, MayAttempt, MayBegin
  <1>3. CASE CommitSuccessor(h)
    <2>1. AttemptOf(h) = Successor(h)
      BY <1>3 DEF CommitSuccessor, MayCommit, MayBegin
    <2>2. On(h) \in Campaign /\ Previous(h) \in Predecessor
      BY <1>3, CallTyped DEF IInv, CommitSuccessor, Later, Classifying
    <2>3. attempts' = [attempts EXCEPT ![On(h)][Previous(h)] = Successor(h)]
      BY <1>3 DEF CommitSuccessor
    <2>4. attempts' = attempts
      BY <1>1, <2>1, <2>2, <2>3 DEF AttemptOf
    <2> QED BY <2>4
  <1>4. CASE SaveCompiled(h) \/ SaveRevision(h)
    <2>1. AttemptOf(h) # NoAttempt
      BY <1>4 DEF IInv, PlacedAt, SaveCompiled, SaveRevision, Attempted, Later, Starting,
         Classifying
    <2>2. On(h) \in Campaign /\ Previous(h) \in Predecessor
      BY <1>4, CallTyped DEF IInv, SaveCompiled, SaveRevision, Later, Starting
    <2>3. c # On(h) \/ n # Previous(h)
      BY <2>1 DEF AttemptOf
    <2>4. attempts'[c][n] = attempts[c][n]
      BY <1>1, <1>4, <2>2, <2>3 DEF SaveCompiled, SaveRevision
    <2> QED BY <2>4
  <1>5. CASE ~ (\/ ReadOrSaveAttempt(h) \/ CommitSuccessor(h)
                \/ SaveCompiled(h) \/ SaveRevision(h))
    <2>1. attempts' = attempts
      BY <1>5 DEF Step, RollForward, Split, ReservePlanning, Plan, Consult, PlanPending,
         ReleaseDecision, Succeed, Publish, ReserveClaims, PublishRevision, Activate,
         LoseActivation, FinalizeClaims, ReplayClassification, ReserveReplanning,
         RecoverClassification, NotCommitted, RecordClassification, Relinquish, Settle,
         Refuse, tables
    <2> QED BY <2>1
  <1> QED BY <1>2, <1>3, <1>4, <1>5

LEMMA DrainedRevisions ==
    ASSUME IInv, NEW h \in Host, Step(h), authority = "draining", NEW c \in Campaign
    PROVE  revisions'[c] = revisions[c]
  <1>1. revisions \in [Campaign -> SUBSET Revision]
    BY DEF IInv, TypeOK
  <1>2. CASE PublishRevision(h)
    BY <1>1, <1>2 DEF PublishRevision, MayPublishRevision, MayBegin
  <1>3. CASE ~ PublishRevision(h)
    <2>1. revisions' = revisions
      BY <1>3 DEF Step, RollForward, ReadOrSaveAttempt, Split, ReservePlanning, Plan,
         Consult, PlanPending, SaveCompiled, ReleaseDecision, SaveRevision, Succeed, Publish,
         ReserveClaims, Activate, LoseActivation, FinalizeClaims, ReplayClassification,
         ReserveReplanning, RecoverClassification, NotCommitted, CommitSuccessor,
         RecordClassification, Relinquish, Settle, Refuse, tables
    <2> QED BY <2>1
  <1> QED BY <1>2, <1>3

LEMMA DrainedActivations ==
    ASSUME IInv, NEW h \in Host, Step(h), authority = "draining", NEW c \in Campaign
    PROVE  activations'[c] = activations[c]
  <1>1. activations \in [Campaign -> ReceiptValue \cup {NoReceipt}]
    BY DEF IInv, TypeOK
  <1>2. CASE Activate(h)
    BY <1>1, <1>2 DEF Activate, MayActivate, MayBegin
  <1>3. CASE ~ Activate(h)
    BY <1>3, OthersKeepActive
  <1> QED BY <1>2, <1>3

LEMMA DrainedReservations ==
    ASSUME IInv, NEW h \in Host, Step(h), authority = "draining"
    PROVE  /\ planning' \subseteq planning
           /\ \A r \in pending' \ pending : activations[r.campaign] = r
  <1>1. CASE ReservePlanning(h)
    BY <1>1 DEF ReservePlanning, MayReservePlanning, MayBegin
  <1>2. CASE ReserveReplanning(h)
    BY <1>2 DEF ReserveReplanning, MayConsult, MayBegin
  <1>3. CASE ReserveClaims(h)
    <2>1. ReceiptOf(h) \in pending \/ activations[On(h)] = ReceiptOf(h)
      BY <1>3 DEF ReserveClaims, MayReserve, MayBegin
    <2>2. pending' \subseteq pending \cup {ReceiptOf(h)} /\ planning' \subseteq planning
      BY <1>3 DEF ReserveClaims
    <2>3. ReceiptOf(h).campaign = On(h)
      BY DEF ReceiptOf, Receipt
    <2> QED BY <2>1, <2>2, <2>3
  <1>4. CASE ~ (ReservePlanning(h) \/ ReserveReplanning(h) \/ ReserveClaims(h))
    <2>1. planning' \subseteq planning
      BY <1>4 DEF Step, RollForward, ReadOrSaveAttempt, Split, Plan, Consult, PlanPending,
         SaveCompiled, ReleaseDecision, SaveRevision, Succeed, Publish, PublishRevision,
         Activate, LoseActivation, FinalizeClaims, ReplayClassification,
         RecoverClassification, NotCommitted, CommitSuccessor, RecordClassification,
         Relinquish, Settle, Refuse, tables
    <2>2. pending' \subseteq pending
      BY <1>4 DEF Step, RollForward, Finalized, ReadOrSaveAttempt, Split, Plan, Consult,
         PlanPending, SaveCompiled, ReleaseDecision, SaveRevision, Succeed, Publish,
         PublishRevision, Activate, LoseActivation, FinalizeClaims, ReplayClassification,
         RecoverClassification, NotCommitted, CommitSuccessor, RecordClassification,
         Relinquish, Settle, Refuse, tables
    <2> QED BY <2>1, <2>2
  <1> QED BY <1>1, <1>2, <1>3, <1>4

\* Once the writer drains, no call begins anything: not even one that passed its
\* checks before the cutover.
THEOREM DrainingBeginsNothing == Spec => DrainBeginsNothing
  <1> DEFINE Quiet ==
          /\ \A c \in Campaign :
                 /\ \A n \in Predecessor :
                        attempts[c][n] = NoAttempt => attempts'[c][n] = NoAttempt
                 /\ revisions'[c] = revisions[c]
                 /\ activations'[c] = activations[c]
          /\ planning' \subseteq planning
          /\ \A r \in pending' \ pending : activations[r.campaign] = r
  <1>1. IInv /\ [Next]_vars => [authority = "draining" => Quiet]_tables
    <2> SUFFICES ASSUME IInv, [Next]_vars, tables' # tables, authority = "draining"
                 PROVE  Quiet
      OBVIOUS
    <2>1. PICK h \in Host : Step(h)
      BY OthersKeepTables DEF vars
    <2> QED BY <2>1, DrainedAttempts, DrainedRevisions, DrainedActivations,
               DrainedReservations
  <1> QED BY <1>1, Inductive, PTL DEF Spec, DrainBeginsNothing

------------------------------------------------------------------------------
(* What is committed can be rolled forward.  An attempt on the active      *)
(* revision exists only once that revision was rolled forward, so that     *)
(* finalizing it never takes the pending activation of its successor away. *)
(* The argument is made for one Campaign at a time: it holds as long as no *)
(* committed activation of that Campaign is made pending again.            *)

Rev(c) == activations[c].revision

\* The claims of the active revision are exact, and nothing is pending for it.
Rolled(c) ==
    /\ activations[c] # NoReceipt
    /\ activations[c] \notin pending
    /\ ExactClaims(activations[c])

\* The Tickets of an attempt are reserved, for Planning or for its activation.
Held(c, n) ==
    \/ Receipt(c, n, attempts[c][n]) \in pending
    \/ HasReservation(Action(c, n, attempts[c][n].evidence))

\* The active receipt is that of an attempt, pending or rolled forward.
ActiveCommitted(c) ==
    activations[c] # NoReceipt =>
        /\ Rev(c) - 1 \in Predecessor
        /\ attempts[c][Rev(c) - 1] # NoAttempt
        /\ activations[c] = Receipt(c, Rev(c) - 1, attempts[c][Rev(c) - 1])
        /\ activations[c] \in pending \/ Rolled(c)

\* Claims never run ahead of the active revision.
ClaimsFollow(c) ==
    \A t \in Ticket :
        claims[t].revision # 0 /\ claims[t].campaign = c =>
            /\ claims[t].revision =< Rev(c)
            /\ claims[t].revision = Rev(c) => Rolled(c)

\* An attempt is on a revision that was rolled forward, and holds its Tickets
\* from its compilation to its activation.
AttemptFollows(c, n) ==
    attempts[c][n] # NoAttempt =>
        /\ attempts[c][n].tickets # {}
        /\ n =< Rev(c)
        /\ n = Rev(c) /\ n # 0 => Rolled(c)
        /\ attempts[c][n].protocol = "replan" =>
               <<Action(c, n, attempts[c][n].evidence), "successor">> \in outputs
        /\ attempts[c][n].compiled = "plan" /\ Rev(c) =< n => Held(c, n)

CampaignInv(c) ==
    /\ ActiveCommitted(c)
    /\ ClaimsFollow(c)
    /\ \A n \in Predecessor : AttemptFollows(c, n)

\* What a call relies on where it stands.
Compiled == {"revision", "publish", "reserve", "first", "activate", "finalize"}
Replanning == {"recover", "consult", "commit"}

CallInv(h) ==
    /\ pc[h] # "idle" => call[h].tickets # {} /\ Previous(h) =< Rev(On(h))
    /\ pc[h] = "roll" => call[h].active # NoReceipt /\ call[h].active.campaign = On(h)
    /\ pc[h] \in Later /\ Previous(h) = Rev(On(h)) /\ Previous(h) # 0 => Rolled(On(h))
    /\ pc[h] \in Compiled => AttemptOf(h).compiled = "plan"
    /\ pc[h] = "release" => AttemptOf(h).compiled = "decision"
    /\ pc[h] \in {"progress", "compile"} /\ AttemptOf(h).compiled = "none" =>
           HasReservation(ActionOf(h))
    /\ pc[h] \in Classifying => call[h].evidence # {}
    /\ pc[h] = "commit" => <<EvidenceAction(h), "successor">> \in outputs
    /\ pc[h] = "record" =>
           \E o \in {"successor", "other"} : <<EvidenceAction(h), o>> \in outputs
    /\ pc[h] = "relinquish" => <<EvidenceAction(h), "other">> \in outputs
    /\ pc[h] \in Replanning /\ AttemptOf(h) = NoAttempt =>
           \/ HasReservation(EvidenceAction(h))
           \/ <<EvidenceAction(h), "other">> \in outputs
    /\ pc[h] \in {"first", "activate"} =>
           ReceiptOf(h) \in pending \/ Previous(h) < Rev(On(h))

\* The Campaign c and the calls on it.
Recovers(c) ==
    /\ CampaignInv(c)
    /\ \A h \in Host : On(h) = c => CallInv(h)

\* Every Campaign has its own receipt, and a call that rolls forward has one.
Owned ==
    /\ \A c \in Campaign : activations[c] # NoReceipt => activations[c].campaign = c
    /\ \A h \in Host :
           pc[h] = "roll" => call[h].active # NoReceipt /\ call[h].active.campaign = On(h)

------------------------------------------------------------------------------
(* Facts about the invariant.                                              *)

LEMMA RevTyped ==
    ASSUME IInv, NEW c \in Campaign
    PROVE  Rev(c) \in Nat /\ (Rev(c) = 0 <=> activations[c] = NoReceipt)
  <1>1. Limit[c] \in Nat /\ Rev(c) \in 0 .. Limit[c]
    BY BoundAssumption DEF IInv, WithinLimit, Rev
  <1>2. activations[c] \in ReceiptValue \cup {NoReceipt}
    BY DEF IInv, TypeOK
  <1>3. \A n \in Revision : n \in Nat /\ n # 0
    BY BoundAssumption DEF Revision
  <1>4. activations[c] \in ReceiptValue => Rev(c) # 0
    BY <1>3 DEF ReceiptValue, Rev
  <1>5. NoReceipt.revision = 0
    BY DEF NoReceipt
  <1> QED BY <1>1, <1>2, <1>4, <1>5 DEF Rev

LEMMA PredecessorNat == Predecessor \subseteq Nat
  BY BoundAssumption DEF Predecessor

LEMMA ReceiptSame ==
    ASSUME NEW c, NEW d, NEW m \in Nat, NEW n \in Nat, NEW a, NEW b,
           Receipt(c, m, a) = Receipt(d, n, b)
    PROVE  c = d /\ m = n
  <1>1. Receipt(c, m, a).campaign = c /\ Receipt(d, n, b).campaign = d
    BY DEF Receipt
  <1>2. Receipt(c, m, a).revision = m + 1 /\ Receipt(d, n, b).revision = n + 1
    BY DEF Receipt
  <1> QED BY <1>1, <1>2

LEMMA ActionSame ==
    ASSUME NEW c, NEW d, NEW m, NEW n, NEW e, NEW f, Action(c, m, e) = Action(d, n, f)
    PROVE  c = d /\ m = n /\ e = f
  BY DEF Action

\* Exact claims are those of a revision that was rolled forward.
LEMMA ExactIsRolled ==
    ASSUME IInv, NEW c \in Campaign, CampaignInv(c), activations[c] # NoReceipt,
           ExactClaims(activations[c])
    PROVE  Rolled(c)
  <1>1. activations[c] = Receipt(c, Rev(c) - 1, attempts[c][Rev(c) - 1])
    BY DEF CampaignInv, ActiveCommitted
  <1>a. attempts[c][Rev(c) - 1].tickets # {}
    BY DEF CampaignInv, ActiveCommitted, AttemptFollows
  <1>b. /\ Receipt(c, Rev(c) - 1, attempts[c][Rev(c) - 1]).campaign = c
        /\ Receipt(c, Rev(c) - 1, attempts[c][Rev(c) - 1]).tickets
               = attempts[c][Rev(c) - 1].tickets
    BY DEF Receipt
  <1>2. activations[c].tickets # {} /\ activations[c].campaign = c
    BY <1>1, <1>a, <1>b
  <1>3. PICK t \in activations[c].tickets : TRUE
    BY <1>2
  <1>4. t \in ClaimedBy(c) /\ claims[t].revision = Rev(c)
    BY <1>2, <1>3 DEF ExactClaims, Rev
  <1> QED BY <1>4 DEF CampaignInv, ClaimsFollow, ClaimedBy

------------------------------------------------------------------------------
(* What a step must keep for a Campaign and for the calls that do not move. *)

Same(c, n) ==
    attempts[c][n] # NoAttempt =>
        /\ attempts'[c][n] # NoAttempt
        /\ attempts'[c][n].tickets = attempts[c][n].tickets
        /\ attempts'[c][n].evidence = attempts[c][n].evidence
        /\ attempts[c][n].compiled # "none" =>
               attempts'[c][n].compiled = attempts[c][n].compiled

\* The calls that do not move, on Campaigns that do not change their attempts.
LEMMA CallKept ==
    ASSUME IInv, NEW g \in Host, CallInv(g), StaysPut(g), outputs \subseteq outputs',
           pc[g] # "idle" =>
               /\ Rev(On(g)) \in Nat /\ Rev(On(g))' \in Nat /\ Previous(g) \in Nat
               /\ Rev(On(g)) =< Rev(On(g))'
               /\ Rev(On(g)) = Rev(On(g))' /\ Rolled(On(g)) => Rolled(On(g))',
           pc[g] \in Later => Same(On(g), Previous(g)),
           /\ pc[g] \in {"progress", "compile"} /\ HasReservation(ActionOf(g))
           /\ AttemptOf(g).compiled = "none"
           => HasReservation(ActionOf(g))',
           pc[g] \in Replanning /\ AttemptOf(g) = NoAttempt /\ HasReservation(EvidenceAction(g)) =>
               \/ HasReservation(EvidenceAction(g))'
               \/ <<EvidenceAction(g), "other">> \in outputs',
           pc[g] \in {"first", "activate"} /\ ReceiptOf(g) \in pending =>
               ReceiptOf(g) \in pending' \/ Previous(g) < Rev(On(g))'
    PROVE  CallInv(g)'
  <1> USE DEF Later, Attempted, Starting, Classifying, Activating, Compiled, Replanning
  <1>1. /\ On(g)' = On(g) /\ Previous(g)' = Previous(g)
        /\ EvidenceAction(g)' = EvidenceAction(g)
        /\ pc'[g] = pc[g] /\ call'[g] = call[g]
    BY DEF StaysPut, On, Previous, EvidenceAction
  <1>2. /\ AttemptOf(g) = attempts[On(g)][Previous(g)]
        /\ AttemptOf(g)' = attempts'[On(g)][Previous(g)]
    BY <1>1 DEF AttemptOf
  <1>3. pc[g] \in Attempted =>
            /\ AttemptOf(g) # NoAttempt
            /\ AttemptOf(g)' # NoAttempt
            /\ AttemptOf(g)'.tickets = AttemptOf(g).tickets
            /\ AttemptOf(g)'.evidence = AttemptOf(g).evidence
            /\ AttemptOf(g).compiled # "none" => AttemptOf(g)'.compiled = AttemptOf(g).compiled
    BY <1>2 DEF IInv, PlacedAt, Same
  <1>4. pc[g] \in Attempted =>
            /\ ActionOf(g)' = ActionOf(g)
            /\ ReceiptOf(g)' = ReceiptOf(g)
    BY <1>1, <1>3 DEF ActionOf, ReceiptOf, Receipt
  <1>5. pc'[g] # "idle" => call'[g].tickets # {} /\ Previous(g)' =< Rev(On(g))'
    <2>1. CASE pc[g] # "idle"
      <3>1. call[g].tickets # {} /\ Previous(g) =< Rev(On(g))
        BY <2>1 DEF CallInv
      <3> QED BY <1>1, <2>1, <3>1
    <2> QED BY <1>1, <2>1
  <1>6. pc'[g] = "roll" => call'[g].active # NoReceipt /\ call'[g].active.campaign = On(g)'
    BY <1>1 DEF CallInv
  <1>7. pc'[g] \in Later /\ Previous(g)' = Rev(On(g))' /\ Previous(g)' # 0 => Rolled(On(g))'
    <2> SUFFICES ASSUME pc[g] \in Later, Previous(g) = Rev(On(g))', Previous(g) # 0
                 PROVE  Rolled(On(g))'
      BY <1>1
    <2>1. Previous(g) =< Rev(On(g))
      BY DEF CallInv
    <2>2. Rev(On(g)) = Rev(On(g))'
      BY <2>1
    <2>3. Rolled(On(g))
      BY <2>2 DEF CallInv
    <2> QED BY <2>2, <2>3
  <1>8. pc'[g] \in Compiled => AttemptOf(g)'.compiled = "plan"
    BY <1>1, <1>3 DEF CallInv
  <1>9. pc'[g] = "release" => AttemptOf(g)'.compiled = "decision"
    BY <1>1, <1>3 DEF CallInv
  <1>10. pc'[g] \in {"progress", "compile"} /\ AttemptOf(g)'.compiled = "none" =>
             HasReservation(ActionOf(g))'
    BY <1>1, <1>3 DEF CallInv
  <1>11. pc'[g] \in Classifying => call'[g].evidence # {}
    BY <1>1 DEF CallInv
  <1>12. /\ pc'[g] = "commit" => <<EvidenceAction(g), "successor">>' \in outputs'
         /\ pc'[g] = "record" =>
                \E o \in {"successor", "other"} : <<EvidenceAction(g), o>>' \in outputs'
         /\ pc'[g] = "relinquish" => <<EvidenceAction(g), "other">>' \in outputs'
    BY <1>1 DEF CallInv
  <1>13. pc'[g] \in Replanning /\ AttemptOf(g)' = NoAttempt =>
             \/ HasReservation(EvidenceAction(g))'
             \/ <<EvidenceAction(g), "other">>' \in outputs'
    <2>1. pc[g] \in Replanning /\ AttemptOf(g)' = NoAttempt => AttemptOf(g) = NoAttempt
      BY <1>2 DEF Same
    <2> QED BY <1>1, <2>1 DEF CallInv
  <1>14. pc'[g] \in {"first", "activate"} =>
             ReceiptOf(g)' \in pending' \/ Previous(g)' < Rev(On(g))'
    <2> SUFFICES ASSUME pc[g] \in {"first", "activate"}
                 PROVE  ReceiptOf(g) \in pending' \/ Previous(g) < Rev(On(g))'
      BY <1>1, <1>4
    <2>1. CASE ReceiptOf(g) \in pending
      BY <2>1
    <2>2. CASE Previous(g) < Rev(On(g))
      BY <2>2
    <2> QED BY <2>1, <2>2 DEF CallInv
  <1> HIDE DEF Later, Attempted, Starting, Classifying, Activating, Compiled, Replanning
  <1> QED BY <1>5, <1>6, <1>7, <1>8, <1>9, <1>10, <1>11, <1>12, <1>13, <1>14 DEF CallInv

LEMMA CallRev ==
    ASSUME IInv, NEW g \in Host, pc[g] # "idle"
    PROVE  /\ On(g) \in Campaign
           /\ Rev(On(g)) \in Nat
           /\ Previous(g) \in Nat
           /\ call[g] \in CallValue
  <1>1. call[g] \in CallValue /\ On(g) \in Campaign
    BY DEF IInv, TypeOK, CallValue, On
  <1>2. Previous(g) \in Predecessor \cup Revision
    BY <1>1 DEF CallValue, Previous
  <1>3. Revision \subseteq Nat
    BY BoundAssumption DEF Revision
  <1> QED BY <1>1, <1>2, <1>3, PredecessorNat, RevTyped

LEMMA ActiveKept ==
    ASSUME NEW c \in Campaign, ActiveCommitted(c), activations'[c] = activations[c],
           \A n \in Predecessor : Same(c, n),
           Rolled(c) => Rolled(c)',
           activations[c] \in pending => activations[c] \in pending' \/ Rolled(c)'
    PROVE  ActiveCommitted(c)'
  <1> SUFFICES ASSUME activations[c] # NoReceipt
               PROVE  ActiveCommitted(c)'
    BY DEF ActiveCommitted
  <1> DEFINE n == Rev(c) - 1
  <1>1. Rev(c)' = Rev(c)
    BY DEF Rev
  <1>2. n \in Predecessor /\ attempts[c][n] # NoAttempt
        /\ activations[c] = Receipt(c, n, attempts[c][n])
    BY DEF ActiveCommitted
  <1>3. attempts'[c][n] # NoAttempt /\ attempts'[c][n].tickets = attempts[c][n].tickets
        /\ attempts'[c][n].evidence = attempts[c][n].evidence
    BY <1>2 DEF Same
  <1>4. Receipt(c, n, attempts'[c][n]) = Receipt(c, n, attempts[c][n])
    BY <1>3 DEF Receipt
  <1>5. activations[c] \in pending' \/ Rolled(c)'
    BY DEF ActiveCommitted
  <1> HIDE DEF n
  <1>6. activations'[c] = Receipt(c, n, attempts'[c][n])
    BY <1>2, <1>4
  <1>7. Rev(c)' - 1 = n
    BY <1>1 DEF n
  <1> QED BY <1>2, <1>3, <1>5, <1>6, <1>7 DEF ActiveCommitted

LEMMA ClaimsKept ==
    ASSUME NEW c \in Campaign, ClaimsFollow(c), activations'[c] = activations[c],
           \A t \in Ticket :
               claims'[t].revision # 0 /\ claims'[t].campaign = c => claims'[t] = claims[t],
           Rolled(c) => Rolled(c)'
    PROVE  ClaimsFollow(c)'
  BY DEF ClaimsFollow, Rev

LEMMA AttemptFollowsOn ==
    ASSUME NEW c \in Campaign, NEW n \in Predecessor, AttemptFollows(c, n),
           activations'[c] = activations[c], attempts'[c][n] = attempts[c][n],
           outputs \subseteq outputs', Rolled(c) => Rolled(c)',
           attempts[c][n] # NoAttempt /\ attempts[c][n].compiled = "plan" /\ Rev(c) =< n =>
               (Held(c, n) => Held(c, n)')
    PROVE  AttemptFollows(c, n)'
  <1>1. Rev(c)' = Rev(c)
    BY DEF Rev
  <1>2. Action(c, n, attempts'[c][n].evidence) = Action(c, n, attempts[c][n].evidence)
    OBVIOUS
  <1> SUFFICES ASSUME attempts[c][n] # NoAttempt
               PROVE  AttemptFollows(c, n)'
    BY DEF AttemptFollows
  <1>3. attempts'[c][n].protocol = "replan" =>
            <<Action(c, n, attempts'[c][n].evidence), "successor">> \in outputs'
    BY <1>2 DEF AttemptFollows
  <1> QED BY <1>1, <1>3 DEF AttemptFollows

------------------------------------------------------------------------------
(* Steps that change neither attempts, reservations, claims nor receipts.  *)

\* Steps that change neither attempts nor holdings nor the active receipts.
Quiet ==
    /\ UNCHANGED <<attempts, planning, pending, claims, activations>>
    /\ outputs \subseteq outputs'

LEMMA QuietCampaign ==
    ASSUME NEW c \in Campaign, CampaignInv(c), Quiet
    PROVE  CampaignInv(c)' /\ Rev(c)' = Rev(c) /\ (Rolled(c)' <=> Rolled(c))
  <1>1. Rev(c)' = Rev(c) /\ (Rolled(c)' <=> Rolled(c))
    BY DEF Quiet, Rev, Rolled, ExactClaims, ClaimedBy
  <1>2. \A n \in Predecessor : Same(c, n)
    BY DEF Quiet, Same
  <1>3. ActiveCommitted(c)'
    BY <1>1, <1>2, ActiveKept DEF CampaignInv, Quiet
  <1>4. ClaimsFollow(c)'
    BY <1>1, ClaimsKept DEF CampaignInv, Quiet
  <1>5. ASSUME NEW n \in Predecessor
        PROVE  AttemptFollows(c, n)'
    <2>1. Held(c, n)' <=> Held(c, n)
      BY DEF Quiet, Held, HasReservation
    <2> QED BY <1>1, <2>1, AttemptFollowsOn DEF CampaignInv, Quiet
  <1> QED BY <1>1, <1>3, <1>4, <1>5 DEF CampaignInv

LEMMA QuietCall ==
    ASSUME IInv, NEW c \in Campaign, Recovers(c), Quiet, NEW g \in Host, StaysPut(g),
           On(g) = c
    PROVE  CallInv(g)'
  <1>1. pc[g] # "idle" =>
            /\ Rev(On(g)) \in Nat /\ Rev(On(g))' \in Nat /\ Previous(g) \in Nat
            /\ Rev(On(g)) =< Rev(On(g))'
            /\ Rev(On(g)) = Rev(On(g))' /\ Rolled(On(g)) => Rolled(On(g))'
    <2>1. pc[g] # "idle" => On(g) \in Campaign /\ Rev(On(g)) \in Nat /\ Previous(g) \in Nat
      BY CallRev
    <2>2. On(g)' = On(g)
      BY DEF StaysPut, On
    <2>3. Rev(c)' = Rev(c) /\ (Rolled(c)' <=> Rolled(c))
      BY QuietCampaign DEF Recovers
    <2> QED BY <2>1, <2>2, <2>3
  <1>2. Same(On(g), Previous(g))
    BY DEF Quiet, Same
  <1>3. On(g)' = On(g) /\ Previous(g)' = Previous(g) /\ AttemptOf(g)' = AttemptOf(g)
    BY DEF StaysPut, On, Previous, AttemptOf, Quiet
  <1>4. ActionOf(g)' = ActionOf(g) /\ ReceiptOf(g)' = ReceiptOf(g)
        /\ EvidenceAction(g)' = EvidenceAction(g)
    BY <1>3 DEF ActionOf, ReceiptOf, EvidenceAction, StaysPut
  <1>5. HasReservation(ActionOf(g)) => HasReservation(ActionOf(g))'
    BY <1>4 DEF HasReservation, Quiet
  <1>6. HasReservation(EvidenceAction(g)) => HasReservation(EvidenceAction(g))'
    BY <1>4 DEF HasReservation, Quiet
  <1>7. pending' = pending /\ outputs \subseteq outputs'
    BY DEF Quiet
  <1>8. CallInv(g)
    BY DEF Recovers
  <1> QED BY <1>1, <1>2, <1>5, <1>6, <1>7, <1>8, CallKept

\* The Campaign and its calls, after a step of one of them.
LEMMA Gather ==
    ASSUME NEW c \in Campaign, CampaignInv(c)', NEW h \in Host, CallInv(h)',
           \A g \in Host \ {h} : StaysPut(g),
           \A g \in Host \ {h} : On(g) = c => CallInv(g)'
    PROVE  Recovers(c)'
  <1>1. \A g \in Host \ {h} : On(g)' = On(g)
    BY DEF StaysPut, On
  <1> QED BY <1>1 DEF Recovers

LEMMA QuietMove ==
    ASSUME IInv, NEW c \in Campaign, Recovers(c), Quiet, NEW h \in Host,
           \A g \in Host \ {h} : StaysPut(g), CallInv(h)'
    PROVE  Recovers(c)'
  <1>1. CampaignInv(c)'
    BY QuietCampaign DEF Recovers
  <1>2. \A g \in Host \ {h} : On(g) = c => CallInv(g)'
    BY QuietCall
  <1> QED BY <1>1, <1>2, Gather

LEMMA EndedCall ==
    ASSUME IInv, NEW h \in Host, End(h)
    PROVE  CallInv(h)' /\ \A g \in Host \ {h} : StaysPut(g)
  <1>1. pc'[h] = "idle" /\ \A g \in Host \ {h} : StaysPut(g)
    BY DEF IInv, TypeOK, End, StaysPut
  <1>2. CallInv(h)'
    BY <1>1 DEF CallInv, Later, Starting, Classifying, Activating, Compiled, Replanning
  <1> QED BY <1>1, <1>2

\* What a call has to rely on at the place it goes to, before it goes.
ReliesAt(h, to) ==
    /\ to \in Compiled => AttemptOf(h).compiled = "plan"
    /\ to = "release" => AttemptOf(h).compiled = "decision"
    /\ to \in {"progress", "compile"} /\ AttemptOf(h).compiled = "none" =>
           HasReservation(ActionOf(h))
    /\ to \in Classifying => pc[h] \in Classifying
    /\ to = "commit" => <<EvidenceAction(h), "successor">> \in outputs'
    /\ to = "record" =>
           \E o \in {"successor", "other"} : <<EvidenceAction(h), o>> \in outputs'
    /\ to = "relinquish" => <<EvidenceAction(h), "other">> \in outputs'
    /\ to \in Replanning /\ AttemptOf(h) = NoAttempt =>
           \/ HasReservation(EvidenceAction(h))
           \/ <<EvidenceAction(h), "other">> \in outputs'
    /\ to \in {"first", "activate"} =>
           ReceiptOf(h) \in pending \/ Previous(h) < Rev(On(h))

LEMMA GoesQuiet ==
    ASSUME IInv, NEW c \in Campaign, Recovers(c), Quiet, NEW h \in Host, On(h) = c, pc[h] \in Later,
           NEW to \in Later, Goto(h, to), ReliesAt(h, to)
    PROVE  Recovers(c)'
  <1>1. /\ \A g \in Host \ {h} : StaysPut(g)
        /\ pc'[h] = to /\ call'[h] = call[h]
        /\ On(h)' = On(h) /\ Previous(h)' = Previous(h)
        /\ EvidenceAction(h)' = EvidenceAction(h)
    BY TypeSplit, Went DEF IInv, Later, Starting, Classifying, Activating
  <1>2. AttemptOf(h)' = AttemptOf(h)
    BY <1>1 DEF AttemptOf, Quiet
  <1>3. ActionOf(h)' = ActionOf(h) /\ ReceiptOf(h)' = ReceiptOf(h)
    BY <1>1, <1>2 DEF ActionOf, ReceiptOf
  <1>4. /\ HasReservation(ActionOf(h))' <=> HasReservation(ActionOf(h))
        /\ HasReservation(EvidenceAction(h))' <=> HasReservation(EvidenceAction(h))
    BY <1>1, <1>3 DEF HasReservation, Quiet
  <1>5. On(h) \in Campaign /\ pc[h] # "idle"
    BY CallRev DEF Later, Starting, Classifying, Activating
  <1>6. Rev(On(h))' = Rev(On(h)) /\ (Rolled(On(h))' <=> Rolled(On(h)))
    BY <1>1, QuietCampaign DEF Recovers
  <1>7. CallInv(h) /\ pending' = pending
    BY DEF Recovers, Quiet
  <1>8. to # "roll" /\ to # "idle"
    BY DEF Later, Starting, Classifying, Activating
  <1>9. /\ call[h].tickets # {} /\ Previous(h) =< Rev(On(h))
        /\ Previous(h) = Rev(On(h)) /\ Previous(h) # 0 => Rolled(On(h))
        /\ pc[h] \in Classifying => call[h].evidence # {}
    BY <1>5, <1>7 DEF CallInv
  <1>10. CallInv(h)'
    BY <1>1, <1>2, <1>3, <1>4, <1>6, <1>7, <1>8, <1>9 DEF CallInv, ReliesAt
  <1> QED BY <1>1, <1>10, QuietMove

LEMMA EndsQuiet ==
    ASSUME IInv, NEW c \in Campaign, Recovers(c), Quiet, NEW h \in Host, On(h) = c, End(h)
    PROVE  Recovers(c)'
  BY EndedCall, QuietMove

LEMMA EndingQuietly ==
    ASSUME IInv, NEW c \in Campaign, Recovers(c), NEW h \in Host, On(h) = c,
           \/ Split(h) \/ PlanPending(h) \/ Settle(h) \/ Refuse(h) \/ Abandon(h)
    PROVE  Recovers(c)'
  <1>1. Quiet /\ End(h)
    BY DEF Split, PlanPending, Settle, Refuse, Abandon, Quiet, tables
  <1> QED BY <1>1, EndsQuiet

LEMMA ReplanCompiled ==
    ASSUME NEW a \in AttemptValue \cup {NoAttempt}, a.protocol = "replan"
    PROVE  a \in AttemptValue /\ a.compiled = "plan"
  BY DEF AttemptValue, NoAttempt

LEMMA GoingQuietly ==
    ASSUME IInv, NEW c \in Campaign, Recovers(c), NEW h \in Host, On(h) = c,
           \/ Publish(h) \/ ReplayClassification(h) \/ NotCommitted(h)
           \/ RecoverClassification(h) \/ PublishRevision(h) \/ Succeed(h)
    PROVE  Recovers(c)'
  <1> USE DEF Later, Attempted, Starting, Classifying, Activating, Compiled, Replanning
  <1>1. Quiet
    BY DEF Publish, ReplayClassification, NotCommitted, RecoverClassification,
       PublishRevision, Succeed, Quiet, tables
  <1>2. CallInv(h)
    BY DEF Recovers
  <1>3. CASE Publish(h)
    <2>1. PICK to \in {"finalize", "reserve"} : Goto(h, to)
      BY <1>3 DEF Publish
    <2>2. pc[h] = "publish" /\ ReliesAt(h, to)
      BY <1>2, <1>3 DEF Publish, CallInv, ReliesAt
    <2> QED BY <1>1, <2>1, <2>2, GoesQuiet
  <1>4. CASE ReplayClassification(h) \/ RecoverClassification(h)
    <2>1. Goto(h, "settle") /\ pc[h] \in Classifying /\ ReliesAt(h, "settle")
      BY <1>4 DEF ReplayClassification, RecoverClassification, ReliesAt
    <2> QED BY <1>1, <2>1, GoesQuiet
  <1>5. CASE NotCommitted(h)
    <2>1. Goto(h, "consult") /\ pc[h] = "recover"
      BY <1>5 DEF NotCommitted
    <2>2. ReliesAt(h, "consult")
      BY <1>1, <1>2, <2>1 DEF CallInv, ReliesAt, Quiet
    <2> QED BY <1>1, <2>1, <2>2, GoesQuiet
  <1>6. CASE PublishRevision(h)
    <2>1. Goto(h, "activate") /\ pc[h] = "first"
      BY <1>6 DEF PublishRevision
    <2>2. ReliesAt(h, "activate")
      BY <1>2, <2>1 DEF CallInv, ReliesAt
    <2> QED BY <1>1, <2>1, <2>2, GoesQuiet
  <1>7. CASE Succeed(h)
    <2>1. pc[h] = "successor" /\ AttemptOf(h).protocol = "replan"
      BY <1>7 DEF Succeed, MaySucceed, IsSuccessor
    <2>2. AttemptOf(h) \in AttemptValue \cup {NoAttempt}
      BY <2>1, CallTyped DEF IInv
    <2>3. AttemptOf(h).compiled = "plan"
      BY <2>1, <2>2, ReplanCompiled
    <2>4. PICK to \in {"finalize", "publish", "revision"} : Goto(h, to)
      BY <1>7 DEF Succeed
    <2>5. ReliesAt(h, to)
      BY <2>3 DEF ReliesAt
    <2> QED BY <1>1, <2>1, <2>4, <2>5, GoesQuiet
  <1> QED BY <1>3, <1>4, <1>5, <1>6, <1>7

\* An action has one output.
LEMMA SameOutput ==
    ASSUME IInv, NEW a, NEW o, <<a, o>> \in outputs
    PROVE  OutputOf(a) = o
  <1>1. HasOutput(a)
    BY DEF HasOutput
  <1>2. <<a, OutputOf(a)>> \in outputs
    BY <1>1, OutputTyped DEF IInv
  <1>3. <<a, OutputOf(a)>> = <<a, o>>
    BY <1>2 DEF IInv, OneOutput
  <1> QED BY <1>3

LEMMA RecordsQuietly ==
    ASSUME IInv, NEW c \in Campaign, Recovers(c), NEW h \in Host, On(h) = c, RecordClassification(h)
    PROVE  Recovers(c)'
  <1> USE DEF Later, Starting, Classifying, Activating, Compiled, Replanning
  <1>1. Quiet /\ pc[h] = "record"
    BY DEF RecordClassification, Quiet
  <1>2. PICK o \in {"successor", "other"} : <<EvidenceAction(h), o>> \in outputs
    BY <1>1 DEF Recovers, CallInv
  <1>3. OutputOf(EvidenceAction(h)) = o
    BY <1>2, SameOutput
  <1>4. Goto(h, IF o = "successor" THEN "settle" ELSE "relinquish")
    BY <1>3 DEF RecordClassification
  <1>5. CASE o = "successor"
    <2>1. Goto(h, "settle") /\ ReliesAt(h, "settle")
      BY <1>1, <1>4, <1>5 DEF ReliesAt
    <2> QED BY <1>1, <2>1, GoesQuiet
  <1>6. CASE o = "other"
    <2>1. Goto(h, "relinquish") /\ ReliesAt(h, "relinquish")
      BY <1>1, <1>2, <1>4, <1>6 DEF ReliesAt, Quiet
    <2> QED BY <1>1, <2>1, GoesQuiet
  <1> QED BY <1>5, <1>6

\* The semantic turns.
LEMMA TurnsQuietly ==
    ASSUME IInv, NEW c \in Campaign, Recovers(c), NEW h \in Host, On(h) = c, NEW o \in Outcome, Plan(h, o) \/ Consult(h, o)
    PROVE  Recovers(c)'
  <1> USE DEF Later, Attempted, Starting, Classifying, Activating, Compiled, Replanning
  <1>1. Quiet
    BY DEF Plan, Consult, Completes, Quiet, tables
  <1>2. CallInv(h)
    BY DEF Recovers
  <1>3. CASE Plan(h, o)
    <2>1. Goto(h, "compile") /\ pc[h] = "progress"
      BY <1>3 DEF Plan
    <2>2. ReliesAt(h, "compile")
      BY <1>2, <2>1 DEF CallInv, ReliesAt
    <2> QED BY <1>1, <2>1, <2>2, GoesQuiet
  <1>4. CASE Consult(h, o)
    <2> DEFINE to == IF o = "successor" THEN "commit" ELSE "record"
    <2>1. Goto(h, to) /\ pc[h] = "consult" /\ o \in {"successor", "other"}
      BY <1>4 DEF Consult
    <2>2. /\ <<EvidenceAction(h), o>> \in outputs'
          /\ \A x \in outputs : x[1] = EvidenceAction(h) => x[2] = o
      BY <1>4 DEF Consult, Completes
    <2>3. o # "other" => <<EvidenceAction(h), "other">> \notin outputs
      BY <2>2
    <2>4. CASE o = "successor"
      <3>1. ReliesAt(h, "commit")
        BY <1>2, <2>1, <2>2, <2>3, <2>4 DEF CallInv, ReliesAt
      <3>2. Goto(h, "commit")
        BY <2>1, <2>4
      <3> QED BY <1>1, <2>1, <3>1, <3>2, GoesQuiet
    <2>5. CASE o = "other"
      <3>1. ReliesAt(h, "record")
        BY <2>1, <2>2, <2>5 DEF ReliesAt
      <3>2. Goto(h, "record")
        BY <2>1, <2>5
      <3> QED BY <1>1, <2>1, <3>1, <3>2, GoesQuiet
    <2> QED BY <2>1, <2>4, <2>5
  <1> QED BY <1>3, <1>4

\* Calls that begin.
LEMMA BeginsQuietly ==
    ASSUME IInv, NEW c \in Campaign, Recovers(c), NEW h \in Host, NEW local \in CallValue,
           NEW to \in {"roll", "attempt", "successor", "classify"}, Begin(h, local, to),
           local.campaign = c, local.tickets # {}, local.previous =< Rev(c),
           to = "roll" => local.active # NoReceipt /\ local.active.campaign = c,
           to # "roll" /\ local.previous = Rev(c) /\ local.previous # 0 => Rolled(c),
           to = "classify" => local.evidence # {}
    PROVE  Recovers(c)'
  <1> USE DEF Later, Attempted, Starting, Classifying, Activating, Compiled, Replanning
  <1>1. /\ \A g \in Host \ {h} : StaysPut(g)
        /\ pc'[h] = to /\ call'[h] = local
        /\ On(h)' = c /\ Previous(h)' = local.previous
    BY TypeSplit, Begun DEF IInv
  <1>2. Quiet
    BY DEF Begin, Quiet, tables
  <1>4. Rev(On(h))' = Rev(c) /\ (Rolled(On(h))' <=> Rolled(c))
    BY <1>1, <1>2, QuietCampaign DEF Recovers
  <1>5. CallInv(h)'
    BY <1>1, <1>4 DEF CallInv
  <1> QED BY <1>1, <1>2, <1>5, QuietMove

\* The active receipt of a Campaign is its own, and has Tickets.
LEMMA ActiveOwn ==
    ASSUME IInv, NEW c \in Campaign, CampaignInv(c), activations[c] # NoReceipt
    PROVE  /\ activations[c].campaign = c
           /\ activations[c].tickets # {}
           /\ activations[c] \in ReceiptValue
           /\ activations[c].tickets \in SUBSET Ticket
  <1>1. activations[c] = Receipt(c, Rev(c) - 1, attempts[c][Rev(c) - 1])
    BY DEF CampaignInv, ActiveCommitted
  <1>2. attempts[c][Rev(c) - 1].tickets # {}
    BY DEF CampaignInv, ActiveCommitted, AttemptFollows
  <1>3. /\ Receipt(c, Rev(c) - 1, attempts[c][Rev(c) - 1]).campaign = c
        /\ Receipt(c, Rev(c) - 1, attempts[c][Rev(c) - 1]).tickets
               = attempts[c][Rev(c) - 1].tickets
    BY DEF Receipt
  <1>4. activations[c] \in ReceiptValue
    BY DEF IInv, TypeOK
  <1>5. activations[c].tickets \in SUBSET Ticket
    BY <1>4 DEF ReceiptValue
  <1> QED BY <1>1, <1>2, <1>3, <1>4, <1>5

LEMMA StartsQuietly ==
    ASSUME IInv, NEW c \in Campaign, Recovers(c), NEW h \in Host, NEW S \in Ready[c],
           Start(h, c, S)
    PROVE  Recovers(c)'
  <1> DEFINE local == CallOn(c, S, FALSE, activations[c].revision, {})
             to == IF activations[c] = NoReceipt THEN "attempt" ELSE "roll"
  <1>1. S \in SUBSET Ticket /\ S # {}
    BY ReadyAssumption
  <1>2. Rev(c) \in Nat /\ (Rev(c) = 0 <=> activations[c] = NoReceipt)
    BY RevTyped
  <1>3. activations[c].revision \in Predecessor \cup Revision
    <2>1. CASE activations[c] = NoReceipt
      <3>1. 0 \in 0 .. Limit[c] - 1
        BY BoundAssumption
      <3>2. 0 \in Predecessor
        BY <3>1, Bounds
      <3> QED BY <2>1, <3>2 DEF NoReceipt
    <2>2. CASE activations[c] # NoReceipt
      BY <2>2 DEF IInv, TypeOK, ReceiptValue
    <2> QED BY <2>1, <2>2
  <1>4. local \in CallValue
    BY <1>1, <1>3, LocalTyped DEF IInv
  <1>5. /\ local.campaign = c /\ local.tickets = S /\ local.previous = Rev(c)
        /\ local.active = activations[c]
    BY DEF CallOn, Rev
  <1>6. activations[c] # NoReceipt => activations[c].campaign = c
    BY ActiveOwn DEF Recovers
  <1>7. Begin(h, local, to)
    BY DEF Start
  <1>8. /\ to \in {"roll", "attempt"}
        /\ to = "roll" => activations[c] # NoReceipt
        /\ to # "roll" => Rev(c) = 0
    BY <1>2
  <1> HIDE DEF local, to
  <1> QED BY <1>1, <1>2, <1>4, <1>5, <1>6, <1>7, <1>8, BeginsQuietly

LEMMA StartsSuccessorQuietly ==
    ASSUME IInv, NEW c \in Campaign, Recovers(c), NEW h \in Host, NEW S \in Ready[c],
           NEW n \in Planned, StartSuccessor(h, c, S, n)
    PROVE  Recovers(c)'
  <1> DEFINE local == CallOn(c, S, TRUE, n, {})
             to == IF attempts[c][n].protocol = "replan" THEN "successor" ELSE "roll"
  <1>1. S \in SUBSET Ticket /\ S # {}
    BY ReadyAssumption
  <1>2. n \in Predecessor /\ n \in Nat /\ n # 0
    BY PredecessorNat DEF Planned
  <1>3. local \in CallValue
    BY <1>1, <1>2, LocalTyped DEF IInv
  <1>4. /\ local.campaign = c /\ local.tickets = S /\ local.previous = n
        /\ local.active = activations[c]
    BY DEF CallOn
  <1>5. activations[c] # NoReceipt /\ activations[c].campaign = c
    BY ActiveOwn DEF Recovers, StartSuccessor
  <1>6. n =< Rev(c)
    <2>1. CASE activations[c].revision = n
      BY <1>2, <2>1 DEF Rev
    <2>2. CASE activations[c] = Receipt(c, n, attempts[c][n])
      <3>1. Rev(c) = n + 1
        BY <2>2 DEF Receipt, Rev
      <3> QED BY <1>2, <3>1
    <2> QED BY <2>1, <2>2 DEF StartSuccessor, NamesLineage
  <1>7. to # "roll" /\ n = Rev(c) => Rolled(c)
    <2>1. to # "roll" => attempts[c][n] # NoAttempt
      BY DEF NoAttempt
    <2> QED BY <1>2, <2>1 DEF Recovers, CampaignInv, AttemptFollows
  <1>8. Begin(h, local, to) /\ to \in {"roll", "successor"}
    BY DEF StartSuccessor
  <1> HIDE DEF local, to
  <1> QED BY <1>1, <1>3, <1>4, <1>5, <1>6, <1>7, <1>8, BeginsQuietly

LEMMA AdvancesQuietly ==
    ASSUME IInv, NEW c \in Campaign, Recovers(c), NEW h \in Host, Advance(h, c)
    PROVE  Recovers(c)'
  <1> DEFINE n == activations[c].revision
  <1>1. PICK es \in {evidence[c][n], settled[c][n]}, to \in {"classify", "successor"} :
            /\ es # {}
            /\ Begin(h, CallOn(c, activations[c].tickets, FALSE, n, es), to)
    BY DEF Advance
  <1> DEFINE local == CallOn(c, activations[c].tickets, FALSE, n, es)
  <1>2. n \in Planned /\ activations[c] # NoReceipt /\ ExactClaims(activations[c])
    BY DEF Advance, Readable
  <1>3. activations[c].tickets # {} /\ activations[c].tickets \in SUBSET Ticket
    BY <1>2, ActiveOwn DEF Recovers
  <1>4. es \in SUBSET Evidence
    BY <1>2 DEF IInv, TypeOK
  <1>5. local \in CallValue
    BY <1>2, <1>3, <1>4, LocalTyped DEF IInv, Planned
  <1>6. /\ local.campaign = c /\ local.previous = n
        /\ local.tickets = activations[c].tickets /\ local.evidence = es
    BY DEF CallOn
  <1>7. Rolled(c)
    BY <1>2, ExactIsRolled DEF Recovers
  <1>8. n = Rev(c) /\ n =< Rev(c)
    BY <1>2, RevTyped DEF Rev
  <1>9. Begin(h, local, to)
    BY <1>1
  <1> HIDE DEF local, n
  <1> QED BY <1>1, <1>3, <1>5, <1>6, <1>7, <1>8, <1>9, BeginsQuietly

\* Steps outside the calls.
LEMMA OutsideQuietly ==
    ASSUME IInv, NEW c \in Campaign, Recovers(c),
           \/ \E d \in Campaign, e \in Evidence : Report(d, e)
           \/ Drain
           \/ UNCHANGED vars
    PROVE  Recovers(c)'
  <1>1. Quiet /\ \A g \in Host : StaysPut(g) /\ On(g)' = On(g)
    BY DEF Report, Drain, vars, tables, Quiet, StaysPut, On
  <1>2. CampaignInv(c)'
    BY <1>1, QuietCampaign DEF Recovers
  <1>3. \A g \in Host : On(g) = c => CallInv(g)'
    BY <1>1, QuietCall
  <1> QED BY <1>1, <1>2, <1>3 DEF Recovers

------------------------------------------------------------------------------
(* Steps that save an attempt.                                             *)

LEMMA SavedCall ==
    ASSUME IInv, NEW c \in Campaign, Recovers(c), UNCHANGED <<planning, pending, claims, activations, outputs>>,
           \A n \in Predecessor : Same(c, n),
           NEW g \in Host, StaysPut(g), On(g) = c
    PROVE  CallInv(g)'
  <1> USE DEF Later, Attempted, Starting, Classifying, Activating, Compiled, Replanning
  <1>1. pc[g] # "idle" =>
            /\ Rev(On(g)) \in Nat /\ Rev(On(g))' \in Nat /\ Previous(g) \in Nat
            /\ Rev(On(g)) =< Rev(On(g))'
            /\ Rev(On(g)) = Rev(On(g))' /\ Rolled(On(g)) => Rolled(On(g))'
    <2>1. pc[g] # "idle" => On(g) \in Campaign /\ Rev(On(g)) \in Nat /\ Previous(g) \in Nat
      BY CallRev
    <2>2. On(g)' = On(g)
      BY DEF StaysPut, On
    <2> QED BY <2>1, <2>2 DEF Rev, Rolled, ExactClaims, ClaimedBy
  <1>2. pc[g] \in Later => Same(On(g), Previous(g))
    BY CallTyped DEF IInv
  <1>3. /\ On(g)' = On(g) /\ Previous(g)' = Previous(g)
        /\ EvidenceAction(g)' = EvidenceAction(g)
    BY DEF StaysPut, On, Previous, EvidenceAction
  <1>4. pc[g] \in Attempted => ActionOf(g)' = ActionOf(g)
    <2> SUFFICES ASSUME pc[g] \in Attempted
                 PROVE  ActionOf(g)' = ActionOf(g)
      OBVIOUS
    <2>1. AttemptOf(g) # NoAttempt
      BY DEF IInv, PlacedAt
    <2>2. AttemptOf(g)'.evidence = AttemptOf(g).evidence
      BY <1>2, <1>3, <2>1 DEF Same, AttemptOf
    <2> QED BY <1>3, <2>2 DEF ActionOf
  <1>5. pc[g] \in {"progress", "compile"} /\ HasReservation(ActionOf(g)) =>
            HasReservation(ActionOf(g))'
    BY <1>4 DEF HasReservation
  <1>6. HasReservation(EvidenceAction(g)) => HasReservation(EvidenceAction(g))'
    BY <1>3 DEF HasReservation
  <1>7. CallInv(g)
    BY DEF Recovers
  <1> QED BY <1>1, <1>2, <1>5, <1>6, <1>7, CallKept

LEMMA SavedCampaign ==
    ASSUME IInv, NEW c \in Campaign, CampaignInv(c),
           UNCHANGED <<planning, pending, claims, activations, outputs>>,
           \A n \in Predecessor : Same(c, n),
           NEW m, AttemptFollows(c, m)',
           \A n \in Predecessor : n # m => attempts'[c][n] = attempts[c][n]
    PROVE  CampaignInv(c)'
  <1>1. Rev(c)' = Rev(c) /\ (Rolled(c)' <=> Rolled(c))
    BY DEF Rev, Rolled, ExactClaims, ClaimedBy
  <1>2. ActiveCommitted(c)'
    BY <1>1, ActiveKept DEF CampaignInv
  <1>3. ClaimsFollow(c)'
    BY <1>1, ClaimsKept DEF CampaignInv
  <1>4. ASSUME NEW n \in Predecessor
        PROVE  AttemptFollows(c, n)'
    <2>1. CASE n = m
      BY <2>1
    <2>2. CASE n # m
      <3>1. attempts'[c][n] = attempts[c][n]
        BY <2>2
      <3>2. Held(c, n) => Held(c, n)'
        BY <3>1 DEF Held, HasReservation
      <3>3. AttemptFollows(c, n)
        BY DEF CampaignInv
      <3> QED BY <1>1, <3>1, <3>2, <3>3, AttemptFollowsOn
    <2> QED BY <2>1, <2>2
  <1> QED BY <1>2, <1>3, <1>4 DEF CampaignInv

LEMMA Saves ==
    ASSUME IInv, NEW c \in Campaign, Recovers(c), NEW h \in Host, NEW n \in Predecessor,
           c = On(h), n = Previous(h), NEW a \in AttemptValue,
           attempts' = [attempts EXCEPT ![c][n] = a],
           AttemptOf(h) # NoAttempt =>
               /\ a.tickets = AttemptOf(h).tickets
               /\ a.evidence = AttemptOf(h).evidence
               /\ AttemptOf(h).compiled # "none" => a.compiled = AttemptOf(h).compiled,
           UNCHANGED <<planning, pending, claims, activations, outputs>>,
           \A g \in Host \ {h} : StaysPut(g),
           AttemptFollows(c, n)', CallInv(h)'
    PROVE  Recovers(c)'
  <1>1. \A m \in Predecessor : attempts'[c][m] = IF m = n THEN a ELSE attempts[c][m]
    BY DEF IInv, TypeOK
  <1>2. a # NoAttempt
    BY DEF AttemptValue, NoAttempt
  <1>3. \A m \in Predecessor : Same(c, m)
    BY <1>1, <1>2 DEF Same, AttemptOf
  <1>4. CampaignInv(c)'
    <2>1. CampaignInv(c)
      BY DEF Recovers
    <2>2. \A m \in Predecessor : m # n => attempts'[c][m] = attempts[c][m]
      BY <1>1
    <2> QED BY <1>3, <2>1, <2>2, SavedCampaign
  <1>5. \A g \in Host \ {h} : On(g) = c => CallInv(g)'
    BY <1>3, SavedCall
  <1> QED BY <1>4, <1>5, Gather

LEMMA SavesAttemptRecoverably ==
    ASSUME IInv, NEW c \in Campaign, Recovers(c), NEW h \in Host, On(h) = c, ReadOrSaveAttempt(h)
    PROVE  Recovers(c)'
  <1> USE DEF Later, Attempted, Starting, Classifying, Activating, Compiled, Replanning
  <1>1. pc[h] = "attempt" /\ call[h] \in CallValue
    BY CallRev DEF ReadOrSaveAttempt
  <1>2. CallInv(h)
    BY DEF Recovers
  <1>3. CASE AttemptOf(h) # NoAttempt
    <2> DEFINE to == AfterAttempt(AttemptOf(h))
    <2>1. AttemptOf(h) \in AttemptValue
      BY <1>1, <1>3, CallTyped DEF IInv
    <2>2. AttemptOf(h).compiled \in {"none", "plan", "decision"}
      BY <2>1 DEF AttemptValue
    <2>3. to \in {"intent", "release", "revision", "publish"}
      BY DEF AfterAttempt
    <2>4. ReliesAt(h, to)
      BY <2>2 DEF AfterAttempt, ReliesAt
    <2>5. Goto(h, to) /\ Quiet
      BY <1>3 DEF ReadOrSaveAttempt, Quiet
    <2> HIDE DEF to
    <2> QED BY <1>1, <2>3, <2>4, <2>5, GoesQuiet
  <1>4. CASE AttemptOf(h) = NoAttempt
    <2>1. PICK n \in Predecessor : c = On(h) /\ n = Previous(h)
      BY <1>1, CallTyped DEF IInv
    <2>2. NewAttempt(h) \in AttemptValue
      BY <1>1 DEF NewAttempt, AttemptValue, CallValue
    <2>3. /\ attempts' = [attempts EXCEPT ![c][n] = NewAttempt(h)]
          /\ Goto(h, "intent")
          /\ UNCHANGED <<planning, pending, claims, activations, outputs>>
      BY <1>4, <2>1 DEF ReadOrSaveAttempt
    <2>4. /\ \A g \in Host \ {h} : StaysPut(g)
          /\ pc'[h] = "intent" /\ call'[h] = call[h]
          /\ On(h)' = On(h) /\ Previous(h)' = Previous(h)
      BY <1>1, <2>3, Went, TypeSplit DEF IInv
    <2>5. attempts'[c][n] = NewAttempt(h)
      BY <2>1, <2>3 DEF IInv, TypeOK
    <2>6. Rev(c)' = Rev(c) /\ (Rolled(c)' <=> Rolled(c))
      BY <2>3 DEF Rev, Rolled, ExactClaims, ClaimedBy
    <2>7. /\ call[h].tickets # {} /\ n =< Rev(c)
          /\ n = Rev(c) /\ n # 0 => Rolled(c)
      BY <1>1, <1>2, <2>1 DEF CallInv
    <2>8. /\ NewAttempt(h).tickets = call[h].tickets
          /\ NewAttempt(h).protocol = "plan"
          /\ NewAttempt(h).compiled = "none"
      BY DEF NewAttempt
    <2>9. AttemptFollows(c, n)'
      BY <2>5, <2>6, <2>7, <2>8 DEF AttemptFollows
    <2>10. Rev(On(h))' = Rev(On(h)) /\ (Rolled(On(h))' <=> Rolled(On(h)))
      BY <2>1, <2>4, <2>6
    <2>11. CallInv(h)'
      BY <2>1, <2>4, <2>7, <2>10 DEF CallInv
    <2> QED BY <1>4, <2>1, <2>2, <2>3, <2>4, <2>9, <2>11, Saves
  <1> QED BY <1>3, <1>4

LEMMA CompilesRecoverably ==
    ASSUME IInv, NEW c \in Campaign, Recovers(c), NEW h \in Host, On(h) = c, SaveCompiled(h) \/ SaveRevision(h)
    PROVE  Recovers(c)'
  <1> USE DEF Later, Attempted, Starting, Classifying, Activating, Compiled, Replanning
  <1>1. pc[h] \in {"compile", "revision"} /\ AttemptOf(h) \in AttemptValue
    BY AttemptTyped DEF IInv, SaveCompiled, SaveRevision
  <1>2. CallInv(h)
    BY DEF Recovers
  <1>3. PICK n \in Predecessor : c = On(h) /\ n = Previous(h)
    BY <1>1, CallTyped DEF IInv
  <1>4. PICK a \in AttemptValue, to \in {"release", "revision", "publish"} :
            /\ attempts' = [attempts EXCEPT ![c][n] = a]
            /\ Goto(h, to)
            /\ a.tickets = AttemptOf(h).tickets
            /\ a.evidence = AttemptOf(h).evidence
            /\ a.protocol = AttemptOf(h).protocol
            /\ AttemptOf(h).compiled # "none" => a.compiled = AttemptOf(h).compiled
            /\ AttemptOf(h).compiled = "none" => pc[h] = "compile"
            /\ a.compiled = IF to = "release" THEN "decision" ELSE "plan"
    <2>1. CASE SaveRevision(h)
      <3> DEFINE b == [AttemptOf(h) EXCEPT !.revision = TRUE]
      <3>1. b \in AttemptValue
        BY <1>1 DEF AttemptValue
      <3>2. /\ b.tickets = AttemptOf(h).tickets
            /\ b.evidence = AttemptOf(h).evidence
            /\ b.protocol = AttemptOf(h).protocol
            /\ b.compiled = AttemptOf(h).compiled
        BY <1>1 DEF AttemptValue
      <3>3. AttemptOf(h).compiled = "plan"
        BY <1>2, <2>1 DEF CallInv, SaveRevision
      <3>4. attempts' = [attempts EXCEPT ![c][n] = b] /\ Goto(h, "publish")
        BY <1>3, <2>1 DEF SaveRevision, AttemptOf
      <3> HIDE DEF b
      <3> QED BY <3>1, <3>2, <3>3, <3>4
    <2>2. CASE SaveCompiled(h)
      <3> DEFINE o == OutputOf(ActionOf(h))
                 b == [AttemptOf(h) EXCEPT !.compiled = o]
      <3>1. AttemptOf(h).protocol = "plan" /\ o \in {"plan", "decision"} /\ pc[h] = "compile"
        BY <2>2, CompiledOutput DEF IInv, PlacedAt, SaveCompiled
      <3>2. b \in AttemptValue
        BY <1>1, <3>1 DEF AttemptValue
      <3>3. /\ b.tickets = AttemptOf(h).tickets
            /\ b.evidence = AttemptOf(h).evidence
            /\ b.protocol = AttemptOf(h).protocol
            /\ b.compiled = o
        BY <1>1 DEF AttemptValue
      <3>4. AttemptOf(h).compiled \in {"none", o}
        BY <2>2 DEF SaveCompiled, MayCompile
      <3>5. /\ attempts' = [attempts EXCEPT ![c][n] = b]
            /\ Goto(h, IF o = "decision" THEN "release" ELSE "revision")
        BY <1>3, <2>2 DEF SaveCompiled, AttemptOf
      <3> HIDE DEF b, o
      <3>6. CASE o = "decision"
        BY <3>1, <3>2, <3>3, <3>4, <3>5, <3>6
      <3>7. CASE o = "plan"
        BY <3>1, <3>2, <3>3, <3>4, <3>5, <3>7
      <3> QED BY <3>1, <3>6, <3>7
    <2> QED BY <2>1, <2>2
  <1>5. UNCHANGED <<planning, pending, claims, activations, outputs>>
    BY DEF SaveCompiled, SaveRevision
  <1>6. /\ \A g \in Host \ {h} : StaysPut(g)
        /\ pc'[h] = to /\ call'[h] = call[h]
        /\ On(h)' = On(h) /\ Previous(h)' = Previous(h)
    BY <1>1, <1>4, Went, TypeSplit DEF IInv
  <1>7. attempts'[c][n] = a /\ AttemptOf(h) = attempts[c][n]
    BY <1>3, <1>4 DEF IInv, TypeOK, AttemptOf
  <1>8. Rev(c)' = Rev(c) /\ (Rolled(c)' <=> Rolled(c))
    BY <1>5 DEF Rev, Rolled, ExactClaims, ClaimedBy
  <1>9. AttemptFollows(c, n) /\ attempts[c][n] # NoAttempt
    BY <1>1, <1>7 DEF Recovers, CampaignInv, AttemptValue, NoAttempt
  <1>10. a.compiled = "plan" /\ Rev(c) =< n => Held(c, n)'
    <2> SUFFICES ASSUME a.compiled = "plan", Rev(c) =< n
                 PROVE  Held(c, n)'
      OBVIOUS
    <2>1. Receipt(c, n, a) = Receipt(c, n, attempts[c][n])
      BY <1>4, <1>7 DEF Receipt
    <2>2. Held(c, n)
      <3>1. CASE AttemptOf(h).compiled = "none"
        <4>1. HasReservation(ActionOf(h))
          BY <1>2, <1>4, <3>1 DEF CallInv
        <4> QED BY <1>3, <1>7, <4>1 DEF Held, ActionOf
      <3>2. CASE AttemptOf(h).compiled # "none"
        BY <1>4, <1>7, <1>9, <3>2 DEF AttemptFollows
      <3> QED BY <3>1, <3>2
    <2> QED BY <1>4, <1>5, <1>7, <2>1, <2>2 DEF Held, HasReservation
  <1>11. AttemptFollows(c, n)'
    BY <1>4, <1>5, <1>7, <1>8, <1>9, <1>10 DEF AttemptFollows
  <1>12. AttemptOf(h)' = a
    BY <1>3, <1>6, <1>7 DEF AttemptOf
  <1>13. Rev(On(h))' = Rev(On(h)) /\ (Rolled(On(h))' <=> Rolled(On(h)))
    BY <1>3, <1>6, <1>8
  <1>14. CallInv(h)'
    BY <1>1, <1>2, <1>3, <1>4, <1>6, <1>12, <1>13 DEF CallInv
  <1> QED BY <1>3, <1>4, <1>5, <1>6, <1>11, <1>14, Saves

LEMMA CommitsRecoverably ==
    ASSUME IInv, NEW c \in Campaign, Recovers(c), NEW h \in Host, On(h) = c, CommitSuccessor(h)
    PROVE  Recovers(c)'
  <1> USE DEF Later, Attempted, Starting, Classifying, Activating, Compiled, Replanning
  <1>1. pc[h] = "commit" /\ call[h] \in CallValue
    BY CallRev DEF CommitSuccessor
  <1>2. CallInv(h)
    BY DEF Recovers
  <1>3. PICK n \in Predecessor : c = On(h) /\ n = Previous(h)
    BY <1>1, CallTyped DEF IInv
  <1> DEFINE a == Successor(h)
  <1>4. a \in AttemptValue
    BY <1>1 DEF Successor, AttemptValue, CallValue
  <1>5. /\ attempts' = [attempts EXCEPT ![c][n] = a]
        /\ Goto(h, "record") \/ End(h)
        /\ UNCHANGED <<planning, pending, claims, activations, outputs>>
    BY <1>3 DEF CommitSuccessor
  <1>6. /\ a.tickets = call[h].tickets /\ a.evidence = call[h].evidence
        /\ a.protocol = "replan"
    BY DEF Successor
  <1>7. AttemptOf(h) = NoAttempt \/ AttemptOf(h) = a
    BY DEF CommitSuccessor, MayCommit
  <1> HIDE DEF a
  <1>8. attempts'[c][n] = a /\ AttemptOf(h) = attempts[c][n]
    BY <1>3, <1>5 DEF IInv, TypeOK, AttemptOf
  <1>9. Rev(c)' = Rev(c) /\ (Rolled(c)' <=> Rolled(c))
    BY <1>5 DEF Rev, Rolled, ExactClaims, ClaimedBy
  <1>10. /\ call[h].tickets # {} /\ n =< Rev(c)
         /\ n = Rev(c) /\ n # 0 => Rolled(c)
         /\ <<EvidenceAction(h), "successor">> \in outputs
    BY <1>1, <1>2, <1>3 DEF CallInv
  <1>11. EvidenceAction(h) = Action(c, n, a.evidence)
    BY <1>3, <1>6 DEF EvidenceAction
  <1>12. Rev(c) =< n => Held(c, n)'
    <2>1. CASE AttemptOf(h) = NoAttempt
      <3>1. <<EvidenceAction(h), "other">> \notin outputs
        <4>1. <<EvidenceAction(h), "other">> \in outputs => "other" = "successor"
          BY <1>10, SameOutput
        <4> QED BY <4>1
      <3>2. HasReservation(Action(c, n, a.evidence))
        BY <1>1, <1>2, <1>11, <2>1, <3>1 DEF CallInv
      <3> QED BY <1>5, <1>8, <3>2 DEF Held, HasReservation
    <2>2. CASE AttemptOf(h) = a
      <3>1. attempts[c][n].compiled = "plan" /\ attempts[c][n] # NoAttempt
        BY <1>4, <1>6, <1>8, <2>2, ReplanCompiled DEF NoAttempt
      <3>2. Rev(c) =< n => Held(c, n)
        BY <3>1 DEF Recovers, CampaignInv, AttemptFollows
      <3> QED BY <1>5, <1>8, <2>2, <3>2 DEF Held, HasReservation
    <2> QED BY <1>7, <2>1, <2>2
  <1>13. AttemptFollows(c, n)'
    BY <1>5, <1>6, <1>8, <1>9, <1>10, <1>11, <1>12 DEF AttemptFollows
  <1>14. CallInv(h)' /\ \A g \in Host \ {h} : StaysPut(g)
    <2>1. CASE End(h)
      BY <2>1, EndedCall
    <2>2. CASE Goto(h, "record")
      <3>1. /\ \A g \in Host \ {h} : StaysPut(g)
            /\ pc'[h] = "record" /\ call'[h] = call[h]
            /\ On(h)' = On(h) /\ Previous(h)' = Previous(h)
            /\ EvidenceAction(h)' = EvidenceAction(h)
        BY <1>1, <2>2, Went, TypeSplit DEF IInv
      <3>2. Rev(On(h))' = Rev(On(h)) /\ (Rolled(On(h))' <=> Rolled(On(h)))
        BY <1>3, <1>9, <3>1
      <3>3. call[h].evidence # {}
        BY <1>1, <1>2 DEF CallInv
      <3> QED BY <1>3, <1>5, <1>10, <3>1, <3>2, <3>3 DEF CallInv
    <2> QED BY <1>5, <2>1, <2>2
  <1>15. AttemptOf(h) # NoAttempt =>
             /\ a.tickets = AttemptOf(h).tickets
             /\ a.evidence = AttemptOf(h).evidence
             /\ AttemptOf(h).compiled # "none" => a.compiled = AttemptOf(h).compiled
    BY <1>7
  <1> QED BY <1>3, <1>4, <1>5, <1>13, <1>14, <1>15, Saves

------------------------------------------------------------------------------
(* Steps that reserve Tickets or give a reservation back.                  *)

\* The active receipt does not become pending.
Reserving(c) ==
    /\ UNCHANGED <<attempts, claims, activations, outputs>>
    /\ pending \subseteq pending'
    /\ activations[c] \in pending' => activations[c] \in pending

LEMMA ReservingCampaign ==
    ASSUME NEW c \in Campaign, CampaignInv(c), Reserving(c),
           \A n \in Predecessor :
               attempts[c][n] # NoAttempt /\ attempts[c][n].compiled = "plan" /\ Rev(c) =< n =>
                   (Held(c, n) => Held(c, n)')
    PROVE  CampaignInv(c)' /\ Rev(c)' = Rev(c) /\ (Rolled(c)' <=> Rolled(c))
  <1>1. Rev(c)' = Rev(c) /\ (Rolled(c)' <=> Rolled(c))
    BY DEF Reserving, Rev, Rolled, ExactClaims, ClaimedBy
  <1>2. ActiveCommitted(c)'
    BY <1>1, ActiveKept DEF CampaignInv, Reserving, Same
  <1>3. ClaimsFollow(c)'
    BY <1>1, ClaimsKept DEF CampaignInv, Reserving
  <1>4. ASSUME NEW n \in Predecessor
        PROVE  AttemptFollows(c, n)'
    BY <1>1, AttemptFollowsOn DEF CampaignInv, Reserving
  <1> QED BY <1>1, <1>2, <1>3, <1>4 DEF CampaignInv

LEMMA ReservingCall ==
    ASSUME IInv, NEW c \in Campaign, Recovers(c), Reserving(c),
           NEW g \in Host, StaysPut(g), On(g) = c,
           /\ pc[g] \in {"progress", "compile"} /\ HasReservation(ActionOf(g))
           /\ AttemptOf(g).compiled = "none"
           => HasReservation(ActionOf(g))',
           pc[g] \in Replanning /\ AttemptOf(g) = NoAttempt /\ HasReservation(EvidenceAction(g)) =>
               \/ HasReservation(EvidenceAction(g))'
               \/ <<EvidenceAction(g), "other">> \in outputs'
    PROVE  CallInv(g)'
  <1>1. pc[g] # "idle" =>
            /\ Rev(On(g)) \in Nat /\ Rev(On(g))' \in Nat /\ Previous(g) \in Nat
            /\ Rev(On(g)) =< Rev(On(g))'
            /\ Rev(On(g)) = Rev(On(g))' /\ Rolled(On(g)) => Rolled(On(g))'
    <2>1. pc[g] # "idle" => On(g) \in Campaign /\ Rev(On(g)) \in Nat /\ Previous(g) \in Nat
      BY CallRev
    <2>2. On(g)' = On(g)
      BY DEF StaysPut, On
    <2> QED BY <2>1, <2>2 DEF Reserving, Rev, Rolled, ExactClaims, ClaimedBy
  <1>2. Same(On(g), Previous(g)) /\ outputs \subseteq outputs'
    BY DEF Reserving, Same
  <1>3. ReceiptOf(g) \in pending => ReceiptOf(g) \in pending'
    BY DEF Reserving
  <1>4. CallInv(g)
    BY DEF Recovers
  <1> QED BY <1>1, <1>2, <1>3, <1>4, CallKept

LEMMA StillActions ==
    ASSUME NEW g \in Host, StaysPut(g), attempts' = attempts
    PROVE  /\ On(g)' = On(g) /\ Previous(g)' = Previous(g)
           /\ AttemptOf(g)' = AttemptOf(g)
           /\ ActionOf(g)' = ActionOf(g)
           /\ ReceiptOf(g)' = ReceiptOf(g)
           /\ EvidenceAction(g)' = EvidenceAction(g)
  <1>1. /\ On(g)' = On(g) /\ Previous(g)' = Previous(g)
        /\ EvidenceAction(g)' = EvidenceAction(g)
    BY DEF StaysPut, On, Previous, EvidenceAction
  <1>2. AttemptOf(g)' = AttemptOf(g)
    BY <1>1 DEF AttemptOf
  <1> QED BY <1>1, <1>2 DEF ActionOf, ReceiptOf

\* A reservation more.
LEMMA ReservesMore ==
    ASSUME IInv, NEW c \in Campaign, Recovers(c), NEW h \in Host,
           planning \subseteq planning', pending' = pending,
           UNCHANGED <<attempts, claims, activations, outputs>>,
           \A g \in Host \ {h} : StaysPut(g), CallInv(h)'
    PROVE  Recovers(c)'
  <1>1. Reserving(c)
    BY DEF Reserving
  <1>2. ASSUME NEW x, HasReservation(x)
        PROVE  HasReservation(x)'
    BY <1>2 DEF HasReservation
  <1>3. CampaignInv(c)'
    <2>1. \A n \in Predecessor : Held(c, n) => Held(c, n)'
      BY DEF Held, HasReservation
    <2> QED BY <1>1, <2>1, ReservingCampaign DEF Recovers
  <1>4. ASSUME NEW g \in Host \ {h}, On(g) = c
        PROVE  CallInv(g)'
    <2>1. ActionOf(g)' = ActionOf(g) /\ EvidenceAction(g)' = EvidenceAction(g)
      BY StillActions
    <2>2. /\ HasReservation(ActionOf(g)) => HasReservation(ActionOf(g))'
          /\ HasReservation(EvidenceAction(g)) => HasReservation(EvidenceAction(g))'
      BY <2>1 DEF HasReservation
    <2> QED BY <1>1, <1>4, <2>2, ReservingCall
  <1> QED BY <1>3, <1>4, Gather

LEMMA ReservesRecoverably ==
    ASSUME IInv, NEW c \in Campaign, Recovers(c), NEW h \in Host, On(h) = c, ReservePlanning(h) \/ ReserveReplanning(h)
    PROVE  Recovers(c)'
  <1> USE DEF Later, Attempted, Starting, Classifying, Activating, Compiled, Replanning
  <1>1. /\ pc[h] \in {"intent", "classify"} /\ pc[h] # "idle" /\ CallInv(h)
        /\ CallsTyped /\ call[h] \in CallValue
    BY CallRev, TypeSplit DEF Recovers, ReservePlanning, ReserveReplanning, IInv
  <1>2. /\ planning \subseteq planning' /\ pending' = pending
        /\ UNCHANGED <<attempts, claims, activations, outputs>>
    BY DEF ReservePlanning, ReserveReplanning
  <1>3. /\ \A g \in Host \ {h} : StaysPut(g)
        /\ pc'[h] = IF ReservePlanning(h) THEN "progress" ELSE "recover"
        /\ call'[h].campaign = call[h].campaign
        /\ call'[h].previous = call[h].previous
        /\ call'[h].tickets = call[h].tickets
        /\ call'[h].evidence = call[h].evidence
    <2>1. CASE ReservePlanning(h)
      BY <1>1, <2>1, Went DEF ReservePlanning
    <2>2. CASE ReserveReplanning(h) /\ ~ ReservePlanning(h)
      BY <1>1, <2>2 DEF ReserveReplanning, CallsTyped, CallValue, StaysPut
    <2> QED BY <2>1, <2>2
  <1>4. /\ On(h)' = On(h) /\ Previous(h)' = Previous(h)
        /\ EvidenceAction(h)' = EvidenceAction(h)
    BY <1>3 DEF On, Previous, EvidenceAction
  <1>5. AttemptOf(h)' = AttemptOf(h) /\ ActionOf(h)' = ActionOf(h)
    BY <1>2, <1>4 DEF AttemptOf, ActionOf
  <1>6. Rev(On(h))' = Rev(On(h)) /\ (Rolled(On(h))' <=> Rolled(On(h)))
    BY <1>2, <1>4 DEF Rev, Rolled, ExactClaims, ClaimedBy
  <1>7. /\ call[h].tickets # {} /\ Previous(h) =< Rev(On(h))
        /\ Previous(h) = Rev(On(h)) /\ Previous(h) # 0 => Rolled(On(h))
        /\ pc[h] \in Classifying => call[h].evidence # {}
    BY <1>1 DEF CallInv
  <1>8. CASE ReservePlanning(h)
    <2>1. HasReservation(ActionOf(h))'
      <3>1. Reservation(On(h), Previous(h), AttemptOf(h)) \in planning'
        BY <1>8 DEF ReservePlanning
      <3>2. Reservation(On(h), Previous(h), AttemptOf(h)).action = ActionOf(h)
        BY DEF Reservation, ActionOf
      <3> QED BY <1>5, <3>1, <3>2 DEF HasReservation
    <2>2. CallInv(h)'
      BY <1>3, <1>4, <1>6, <1>7, <1>8, <2>1 DEF CallInv
    <2> QED BY <1>2, <1>3, <2>2, ReservesMore
  <1>9. CASE ReserveReplanning(h) /\ ~ ReservePlanning(h)
    <2>1. HasReservation(EvidenceAction(h))'
      <3>1. EvidenceReservation(h) \in planning'
        BY <1>9 DEF ReserveReplanning
      <3>2. EvidenceReservation(h).action = EvidenceAction(h)
        BY DEF EvidenceReservation
      <3> QED BY <1>4, <3>1, <3>2 DEF HasReservation
    <2>2. pc[h] = "classify"
      BY <1>9 DEF ReserveReplanning
    <2>3. CallInv(h)'
      BY <1>3, <1>4, <1>6, <1>7, <1>9, <2>1, <2>2 DEF CallInv
    <2> QED BY <1>2, <1>3, <2>3, ReservesMore
  <1> QED BY <1>8, <1>9

\* A reservation that goes away was none that a call or a compiled plan needs.
LEMMA LosesReservation ==
    ASSUME IInv, NEW c \in Campaign, Recovers(c), Reserving(c), NEW h \in Host, NEW b,
           \A x : HasReservation(x) /\ x # b => HasReservation(x)',
           \A n \in Predecessor :
               /\ attempts[c][n] # NoAttempt
               /\ attempts[c][n].compiled = "plan"
               /\ b = Action(c, n, attempts[c][n].evidence)
               => Receipt(c, n, attempts[c][n]) \in pending',
           \A g \in Host \ {h} : StaysPut(g),
           \A g \in Host \ {h} :
               /\ pc[g] \in {"progress", "compile"} /\ AttemptOf(g).compiled = "none" =>
                      ActionOf(g) # b
               /\ pc[g] \in Replanning /\ AttemptOf(g) = NoAttempt /\ EvidenceAction(g) = b =>
                      <<b, "other">> \in outputs,
           CallInv(h)'
    PROVE  Recovers(c)'
  <1>1. /\ attempts' = attempts /\ outputs' = outputs /\ activations' = activations
        /\ pending \subseteq pending'
    BY DEF Reserving
  <1>2. CampaignInv(c)'
    <2>1. ASSUME NEW n \in Predecessor, attempts[c][n] # NoAttempt,
                 attempts[c][n].compiled = "plan", Held(c, n)
          PROVE  Held(c, n)'
      <3>1. PICK x : x = Action(c, n, attempts[c][n].evidence)
        OBVIOUS
      <3>2. CASE Receipt(c, n, attempts[c][n]) \in pending
        BY <1>1, <3>2 DEF Held
      <3>3. CASE HasReservation(x) /\ x # b
        <4>1. HasReservation(x)'
          BY <3>3
        <4> QED BY <1>1, <3>1, <4>1 DEF Held, HasReservation
      <3>4. CASE x = b
        BY <1>1, <2>1, <3>1, <3>4 DEF Held
      <3> QED BY <2>1, <3>1, <3>2, <3>3, <3>4 DEF Held
    <2> QED BY <2>1, ReservingCampaign DEF Recovers
  <1>3. ASSUME NEW g \in Host \ {h}, On(g) = c
        PROVE  CallInv(g)'
    <2>1. ActionOf(g)' = ActionOf(g) /\ EvidenceAction(g)' = EvidenceAction(g)
      BY <1>1, StillActions
    <2>2. PICK x, y : x = ActionOf(g) /\ y = EvidenceAction(g)
      OBVIOUS
    <2>3. /\ HasReservation(x) /\ x # b => HasReservation(x)'
          /\ HasReservation(y) /\ y # b => HasReservation(y)'
      OBVIOUS
    <2>4. /\ HasReservation(ActionOf(g)) /\ ActionOf(g) # b => HasReservation(ActionOf(g))'
          /\ HasReservation(EvidenceAction(g)) /\ EvidenceAction(g) # b =>
                 HasReservation(EvidenceAction(g))'
      BY <2>1, <2>2, <2>3 DEF HasReservation
    <2>5. pc[g] \in {"progress", "compile"} /\ HasReservation(ActionOf(g)) =>
              (AttemptOf(g).compiled = "none" => HasReservation(ActionOf(g))')
      BY <2>4
    <2>6. pc[g] \in Replanning /\ AttemptOf(g) = NoAttempt /\ HasReservation(EvidenceAction(g)) =>
              \/ HasReservation(EvidenceAction(g))'
              \/ <<EvidenceAction(g), "other">> \in outputs'
      BY <1>1, <2>4
    <2> QED BY <1>3, <2>5, <2>6, ReservingCall
  <1> QED BY <1>2, <1>3, Gather

\* The call and the attempt that an action belongs to.
LEMMA ActionOwner ==
    ASSUME IInv, NEW c \in Campaign, NEW n \in Predecessor, NEW h \in Host,
           Action(c, n, attempts[c][n].evidence) = ActionOf(h)
    PROVE  c = On(h) /\ n = Previous(h) /\ attempts[c][n] = AttemptOf(h)
  BY ActionSame DEF ActionOf, AttemptOf

LEMMA ReleasesRecoverably ==
    ASSUME IInv, NEW c \in Campaign, Recovers(c), NEW h \in Host, On(h) = c, ReleaseDecision(h)
    PROVE  Recovers(c)'
  <1> USE DEF Later, Attempted, Starting, Classifying, Activating, Compiled, Replanning
  <1>1. PICK b : b = ActionOf(h)
    OBVIOUS
  <1>2. pc[h] = "release" /\ End(h) /\ planning' = {r \in planning : r.action # b}
        /\ UNCHANGED <<attempts, pending, claims, activations, outputs>>
    BY <1>1 DEF ReleaseDecision
  <1>3. AttemptOf(h).compiled = "decision" /\ AttemptOf(h) # NoAttempt
    BY <1>2 DEF Recovers, CallInv, IInv, PlacedAt
  <1>4. Reserving(c) /\ \A x : HasReservation(x) /\ x # b => HasReservation(x)'
    BY <1>2 DEF Reserving, HasReservation
  <1>5. \A n \in Predecessor :
            Action(c, n, attempts[c][n].evidence) = b => attempts[c][n] = AttemptOf(h)
    BY <1>1, ActionOwner
  <1>6. CallInv(h)' /\ \A g \in Host \ {h} : StaysPut(g)
    BY <1>2, EndedCall
  <1>7. ASSUME NEW g \in Host \ {h}
        PROVE  /\ pc[g] \in {"progress", "compile"} /\ AttemptOf(g).compiled = "none" =>
                      ActionOf(g) # b
               /\ pc[g] \in Replanning /\ AttemptOf(g) = NoAttempt => EvidenceAction(g) # b
    <2>1. ActionOf(g) = b => AttemptOf(g) = AttemptOf(h)
      BY <1>1, ActionSame DEF ActionOf, AttemptOf
    <2>2. EvidenceAction(g) = b => AttemptOf(g) = AttemptOf(h)
      BY <1>1, ActionSame DEF ActionOf, EvidenceAction, AttemptOf
    <2> QED BY <1>3, <2>1, <2>2
  <1>8. \A n \in Predecessor :
            attempts[c][n].compiled = "plan" => Action(c, n, attempts[c][n].evidence) # b
    BY <1>3, <1>5
  <1> QED BY <1>4, <1>6, <1>7, <1>8, LosesReservation

LEMMA RelinquishesRecoverably ==
    ASSUME IInv, NEW c \in Campaign, Recovers(c), NEW h \in Host, On(h) = c, Relinquish(h)
    PROVE  Recovers(c)'
  <1> USE DEF Later, Attempted, Starting, Classifying, Activating, Compiled, Replanning
  <1>1. PICK b : b = EvidenceAction(h)
    OBVIOUS
  <1>2. /\ pc[h] = "relinquish" /\ Goto(h, "settle")
        /\ planning' = {r \in planning : r.action # b}
        /\ UNCHANGED <<attempts, pending, claims, activations, outputs>>
    BY <1>1 DEF Relinquish
  <1>3. call[h].evidence # {} /\ <<b, "other">> \in outputs /\ b.evidence = call[h].evidence
    BY <1>1, <1>2 DEF Recovers, CallInv, EvidenceAction, Action
  <1>4. Reserving(c) /\ \A x : HasReservation(x) /\ x # b => HasReservation(x)'
    BY <1>2 DEF Reserving, HasReservation
  <1>5. <<b, "successor">> \notin outputs
    <2>1. <<b, "successor">> \in outputs => "other" = "successor"
      BY <1>3, SameOutput
    <2> QED BY <2>1
  <1>6. \A n \in Predecessor :
            attempts[c][n] # NoAttempt => Action(c, n, attempts[c][n].evidence) # b
    <2> SUFFICES ASSUME NEW n \in Predecessor,
                        attempts[c][n] # NoAttempt,
                        Action(c, n, attempts[c][n].evidence) = b
                 PROVE  FALSE
      OBVIOUS
    <2>1. attempts[c][n] \in AttemptValue
      BY DEF IInv, TypeOK
    <2>2. attempts[c][n].evidence # {}
      BY <1>3 DEF Action
    <2>3. attempts[c][n].protocol = "replan"
      BY <2>1, <2>2 DEF AttemptValue
    <2> QED BY <1>5, <2>3 DEF Recovers, CampaignInv, AttemptFollows
  <1>7. /\ \A g \in Host \ {h} : StaysPut(g)
        /\ pc'[h] = "settle" /\ call'[h] = call[h]
        /\ On(h)' = On(h) /\ Previous(h)' = Previous(h)
    BY <1>2, Went, TypeSplit DEF IInv
  <1>8. Rev(On(h))' = Rev(On(h)) /\ (Rolled(On(h))' <=> Rolled(On(h)))
    BY <1>2, <1>7 DEF Rev, Rolled, ExactClaims, ClaimedBy
  <1>9. CallInv(h)'
    <2>1. /\ call[h].tickets # {} /\ Previous(h) =< Rev(On(h))
          /\ Previous(h) = Rev(On(h)) /\ Previous(h) # 0 => Rolled(On(h))
      BY <1>2 DEF Recovers, CallInv
    <2> QED BY <1>3, <1>7, <1>8, <2>1 DEF CallInv
  <1>10. ASSUME NEW g \in Host \ {h}, pc[g] \in {"progress", "compile"}
         PROVE  ActionOf(g) # b
    <2>1. AttemptOf(g) \in AttemptValue /\ AttemptOf(g).protocol = "plan"
      BY <1>10, AttemptTyped DEF IInv, PlacedAt
    <2>2. AttemptOf(g).evidence = {}
      BY <2>1 DEF AttemptValue
    <2> QED BY <1>3, <2>2 DEF ActionOf, Action
  <1> QED BY <1>3, <1>4, <1>6, <1>7, <1>9, <1>10, LosesReservation

\* The Planning reservation becomes the pending activation, which is not that of a
\* revision that is already active unless the Campaign is on record for it.
LEMMA ReservesClaimsRecoverably ==
    ASSUME IInv, NEW c \in Campaign, Recovers(c), NEW h \in Host, On(h) = c,
           ReserveClaims(h), c \notin renewed'
    PROVE  Recovers(c)'
  <1> USE DEF Later, Attempted, Starting, Classifying, Activating, Compiled, Replanning
  <1>1. PICK n \in Predecessor : c = On(h) /\ n = Previous(h)
    BY CallTyped DEF IInv, ReserveClaims
  <1>2. PICK a, R, b : a = AttemptOf(h) /\ R = ReceiptOf(h) /\ b = ActionOf(h)
    OBVIOUS
  <1>3. /\ a = attempts[c][n] /\ R = Receipt(c, n, a) /\ b = Action(c, n, a.evidence)
    BY <1>1, <1>2 DEF AttemptOf, ReceiptOf, ActionOf
  <1>4. /\ pc[h] = "reserve" /\ Goto(h, "first") /\ CallInv(h)
        /\ UNCHANGED <<attempts, claims, activations, outputs>>
    BY DEF ReserveClaims, Recovers
  <1>5. a # NoAttempt /\ a.compiled = "plan"
    BY <1>2, <1>4 DEF IInv, PlacedAt, CallInv
  <1>6. CASE R \in pending
    <2>1. Quiet
      BY <1>2, <1>6 DEF ReserveClaims, Quiet
    <2>2. ReliesAt(h, "first")
      BY <1>2, <1>5, <1>6 DEF ReliesAt
    <2> QED BY <1>4, <2>1, <2>2, GoesQuiet
  <1>7. CASE R \notin pending
    <2>1. /\ Reservation(c, n, a) \in planning
          /\ pending' = pending \cup {R}
          /\ planning' = planning \ {Reservation(c, n, a)}
      BY <1>1, <1>2, <1>7 DEF ReserveClaims, MayReserve
    <2>2. Reservation(c, n, a).action = b
      BY <1>3 DEF Reservation
    <2>3. HasReservation(b)
      BY <2>1, <2>2 DEF HasReservation
    <2>4. Rev(c) =< n
      <3>1. ~ (n < activations[c].revision)
        <4>1. renewed' = renewed \cup {d \in {c} : n < activations[d].revision}
          BY <1>1, <1>2, <1>7 DEF ReserveClaims
        <4> QED BY <4>1
      <3>2. n \in Nat /\ Rev(c) \in Nat
        BY PredecessorNat, RevTyped
      <3> QED BY <3>1, <3>2 DEF Rev
    <2>5. activations[c] # R
      <3>1. R.revision = n + 1 /\ n \in Nat
        BY <1>3, PredecessorNat DEF Receipt
      <3>2. activations[c] = R => Rev(c) = n + 1
        BY <3>1 DEF Rev
      <3> QED BY <2>4, <3>1, <3>2
    <2>6. Reserving(c)
      BY <1>4, <2>1, <2>5 DEF Reserving
    <2>7. \A x : HasReservation(x) /\ x # b => HasReservation(x)'
      BY <2>1, <2>2 DEF HasReservation
    <2>8. \A m \in Predecessor :
              b = Action(c, m, attempts[c][m].evidence) =>
                  Receipt(c, m, attempts[c][m]) \in pending'
      <3> SUFFICES ASSUME NEW m \in Predecessor,
                          Action(c, n, a.evidence) = Action(c, m, attempts[c][m].evidence)
                   PROVE  Receipt(c, m, attempts[c][m]) \in pending'
        BY <1>3
      <3>1. n = m
        BY ActionSame
      <3> QED BY <1>3, <2>1, <3>1
    <2>9. /\ \A g \in Host \ {h} : StaysPut(g)
          /\ pc'[h] = "first" /\ call'[h] = call[h]
          /\ On(h)' = On(h) /\ Previous(h)' = Previous(h)
      BY <1>4, Went, TypeSplit DEF IInv
    <2>10. ASSUME NEW g \in Host \ {h}
           PROVE  /\ pc[g] \in {"progress", "compile"} /\ AttemptOf(g).compiled = "none" =>
                         ActionOf(g) # b
                  /\ pc[g] \in Replanning /\ AttemptOf(g) = NoAttempt => EvidenceAction(g) # b
      <3>1. ActionOf(g) = b => AttemptOf(g) = AttemptOf(h)
        BY <1>2, ActionSame DEF ActionOf, AttemptOf
      <3>2. EvidenceAction(g) = b => AttemptOf(g) = AttemptOf(h)
        BY <1>2, ActionSame DEF ActionOf, EvidenceAction, AttemptOf
      <3> QED BY <1>2, <1>5, <3>1, <3>2
    <2>11. AttemptOf(h)' = AttemptOf(h) /\ ReceiptOf(h)' = R
      BY <1>2, <1>4, <2>9 DEF AttemptOf, ReceiptOf
    <2>12. Rev(On(h))' = Rev(On(h)) /\ (Rolled(On(h)) => Rolled(On(h))')
      BY <1>1, <1>4, <2>6, <2>9 DEF Rev, Rolled, ExactClaims, ClaimedBy, Reserving
    <2>13. CallInv(h)'
      <3>1. /\ call[h].tickets # {} /\ Previous(h) =< Rev(On(h))
            /\ Previous(h) = Rev(On(h)) /\ Previous(h) # 0 => Rolled(On(h))
        BY <1>4 DEF CallInv
      <3> QED BY <1>2, <1>5, <2>1, <2>9, <2>11, <2>12, <3>1 DEF CallInv
    <2> QED BY <2>6, <2>7, <2>8, <2>9, <2>10, <2>13, LosesReservation
  <1> QED BY <1>6, <1>7

------------------------------------------------------------------------------
(* Activation and its loss.                                                *)

\* A lost race takes the pending activation of the loser alone.
LEMMA LosesRecoverably ==
    ASSUME IInv, NEW c \in Campaign, Recovers(c), NEW h \in Host, On(h) = c, LoseActivation(h)
    PROVE  Recovers(c)'
  <1> USE DEF Later, Attempted, Starting, Classifying, Activating, Compiled, Replanning
  <1>1. PICK n \in Predecessor : c = On(h) /\ n = Previous(h)
    BY CallTyped DEF IInv, LoseActivation
  <1>2. PICK R : R = ReceiptOf(h)
    OBVIOUS
  <1>3. /\ pc[h] = "activate" /\ End(h) /\ pending' = pending \ {R}
        /\ UNCHANGED <<attempts, planning, claims, activations, outputs>>
        /\ activations[c] # R /\ Rev(c) # n
    BY <1>1, <1>2 DEF LoseActivation, Swap, Rev
  <1>4. R = Receipt(c, n, attempts[c][n]) /\ R.campaign = c /\ n \in Nat
    BY <1>1, <1>2, PredecessorNat DEF ReceiptOf, Receipt, AttemptOf
  <1>5. n < Rev(c)
    <2>1. n =< Rev(c)
      BY <1>1, <1>3 DEF Recovers, CallInv
    <2> QED BY <1>3, <1>4, <2>1, RevTyped
  <1>6. /\ Rev(c)' = Rev(c) /\ (Rolled(c) => Rolled(c)')
        /\ activations[c] \in pending => activations[c] \in pending'
    BY <1>3 DEF Rev, Rolled, ExactClaims, ClaimedBy
  <1>7. CampaignInv(c)'
    <2>1. ActiveCommitted(c)' /\ ClaimsFollow(c)'
      BY <1>3, <1>6, ActiveKept, ClaimsKept DEF Recovers, CampaignInv, Same
    <2>2. ASSUME NEW m \in Predecessor
          PROVE  AttemptFollows(c, m)'
      <3>1. Rev(c) =< m /\ Held(c, m) => Held(c, m)'
        <4> SUFFICES ASSUME Rev(c) =< m, Receipt(c, m, attempts[c][m]) \in pending
                     PROVE  Receipt(c, m, attempts[c][m]) # R
          BY <1>3 DEF Held, HasReservation
        <4>1. m \in Nat
          BY PredecessorNat
        <4>2. Receipt(c, m, attempts[c][m]) = R => m = n
          BY <1>4, <4>1, ReceiptSame
        <4> QED BY <1>5, <4>1, <4>2, RevTyped, <1>4
      <3> QED BY <1>3, <1>6, <3>1, AttemptFollowsOn DEF Recovers, CampaignInv
    <2> QED BY <2>1, <2>2 DEF CampaignInv
  <1>8. CallInv(h)' /\ \A g \in Host \ {h} : StaysPut(g)
    BY <1>3, EndedCall
  <1>9. ASSUME NEW g \in Host \ {h}, On(g) = c
        PROVE  CallInv(g)'
    <2>1. pc[g] # "idle" =>
              /\ Rev(On(g)) \in Nat /\ Rev(On(g))' \in Nat /\ Previous(g) \in Nat
              /\ Rev(On(g)) = Rev(On(g))' /\ Rev(On(g)) =< Rev(On(g))'
              /\ Rev(On(g)) = Rev(On(g))' /\ Rolled(On(g)) => Rolled(On(g))'
      <3>1. pc[g] # "idle" => On(g) \in Campaign /\ Rev(On(g)) \in Nat /\ Previous(g) \in Nat
        BY CallRev
      <3>2. On(g)' = On(g)
        BY <1>8 DEF StaysPut, On
      <3> QED BY <1>6, <1>9, <3>1, <3>2
    <2>2. Same(On(g), Previous(g)) /\ outputs \subseteq outputs'
      BY <1>3 DEF Same
    <2>3. ActionOf(g)' = ActionOf(g) /\ EvidenceAction(g)' = EvidenceAction(g)
      BY <1>3, <1>8, StillActions
    <2>4. /\ HasReservation(ActionOf(g)) => HasReservation(ActionOf(g))'
          /\ HasReservation(EvidenceAction(g)) => HasReservation(EvidenceAction(g))'
      BY <1>3, <2>3 DEF HasReservation
    <2>5. pc[g] \in {"first", "activate"} /\ ReceiptOf(g) \in pending =>
              ReceiptOf(g) \in pending' \/ Previous(g) < Rev(On(g))'
      <3> SUFFICES ASSUME pc[g] \in {"first", "activate"}, ReceiptOf(g) = R
                   PROVE  Previous(g) < Rev(On(g))'
        BY <1>3
      <3>1. R.campaign = On(g) /\ R.revision = Previous(g) + 1
        BY DEF ReceiptOf, Receipt
      <3>2. R.revision = n + 1
        BY <1>4 DEF Receipt
      <3>3. Previous(g) \in Nat
        BY <2>1
      <3>4. Previous(g) = n
        BY <1>4, <3>1, <3>2, <3>3
      <3> QED BY <1>4, <1>5, <2>1, <3>1, <3>4
    <2>6. CallInv(g) /\ StaysPut(g)
      BY <1>8, <1>9 DEF Recovers
    <2> QED BY <2>1, <2>2, <2>4, <2>5, <2>6, CallKept
  <1> QED BY <1>7, <1>8, <1>9, Gather

\* Only the active revision of one Campaign moves, and its receipt is pending.
LEMMA SwappedCampaign ==
    ASSUME IInv, NEW c \in Campaign, CampaignInv(c), NEW n \in Predecessor,
           attempts[c][n] # NoAttempt, Rev(c) = n,
           Receipt(c, n, attempts[c][n]) \in pending,
           activations' = [activations EXCEPT ![c] = Receipt(c, n, attempts[c][n])],
           UNCHANGED <<attempts, planning, pending, claims, outputs>>
    PROVE  /\ Rev(c)' = n + 1
           /\ CampaignInv(c)'
  <1>1. n \in Nat
    BY PredecessorNat
  <1>2. activations'[c] = Receipt(c, n, attempts[c][n])
    BY DEF IInv, TypeOK
  <1>3. Receipt(c, n, attempts[c][n]).revision = n + 1
    BY DEF Receipt
  <1>4. Rev(c)' = n + 1
    BY <1>2, <1>3 DEF Rev
  <1>5. Rev(c)' - 1 = n
    BY <1>1, <1>4
  <1>6. ActiveCommitted(c)'
    BY <1>2, <1>5 DEF ActiveCommitted
  <1>7. ClaimsFollow(c)'
    <2> SUFFICES ASSUME NEW t \in Ticket, claims[t].revision # 0, claims[t].campaign = c
                 PROVE  /\ claims[t].revision =< n + 1
                        /\ claims[t].revision # n + 1
      BY <1>4 DEF ClaimsFollow
    <2>1. claims[t] \in ClaimValue
      BY DEF IInv, TypeOK, NoClaim
    <2>2. claims[t].revision \in Nat
      BY <2>1, BoundAssumption DEF ClaimValue, Revision
    <2>3. claims[t].revision =< n
      BY DEF CampaignInv, ClaimsFollow
    <2> QED BY <1>1, <2>2, <2>3
  <1>8. ASSUME NEW m \in Predecessor
        PROVE  AttemptFollows(c, m)'
    <2> SUFFICES ASSUME attempts[c][m] # NoAttempt
                 PROVE  AttemptFollows(c, m)'
      BY DEF AttemptFollows
    <2>1. AttemptFollows(c, m) /\ m \in Nat
      BY PredecessorNat DEF CampaignInv
    <2>2. m =< n
      BY <2>1 DEF AttemptFollows
    <2>3. m =< n + 1 /\ m # n + 1 /\ ~ (n + 1 =< m)
      BY <1>1, <2>1, <2>2
    <2> QED BY <1>4, <2>1, <2>3 DEF AttemptFollows
  <1> QED BY <1>4, <1>6, <1>7, <1>8 DEF CampaignInv

LEMMA ActivatesRecoverably ==
    ASSUME IInv, NEW c \in Campaign, Recovers(c), NEW h \in Host, On(h) = c, Activate(h)
    PROVE  Recovers(c)'
  <1> USE DEF Later, Attempted, Starting, Classifying, Activating, Compiled, Replanning
  <1>1. PICK n \in Predecessor : c = On(h) /\ n = Previous(h)
    BY CallTyped DEF IInv, Activate
  <1>2. PICK R : R = ReceiptOf(h)
    OBVIOUS
  <1>3. /\ pc[h] = "activate" /\ Goto(h, "finalize") /\ CallInv(h)
        /\ activations' = [activations EXCEPT ![c] = R]
        /\ UNCHANGED <<attempts, planning, pending, claims, outputs>>
        /\ activations[c] = R \/ Rev(c) = n
    BY <1>1, <1>2 DEF Activate, Recovers, Swap, Rev
  <1>4. /\ R = Receipt(c, n, attempts[c][n]) /\ attempts[c][n] # NoAttempt
        /\ AttemptOf(h).compiled = "plan"
    BY <1>1, <1>2, <1>3 DEF ReceiptOf, AttemptOf, IInv, PlacedAt, CallInv
  <1>5. CASE activations[c] = R
    <2>1. activations' = activations
      BY <1>3, <1>5 DEF IInv, TypeOK
    <2>2. Quiet /\ ReliesAt(h, "finalize")
      BY <1>3, <1>4, <2>1 DEF Quiet, ReliesAt
    <2> QED BY <1>3, <2>2, GoesQuiet
  <1>6. CASE Rev(c) = n
    <2>1. n \in Nat
      BY PredecessorNat
    <2>2. R \in pending
      BY <1>1, <1>2, <1>3, <1>6, <2>1 DEF CallInv
    <2>3. Rev(c)' = n + 1 /\ CampaignInv(c)'
      BY <1>3, <1>4, <1>6, <2>2, SwappedCampaign DEF Recovers
    <2>5. /\ \A g \in Host \ {h} : StaysPut(g)
          /\ pc'[h] = "finalize" /\ call'[h] = call[h]
          /\ On(h)' = On(h) /\ Previous(h)' = Previous(h)
      BY <1>3, Went, TypeSplit DEF IInv
    <2>6. AttemptOf(h)' = AttemptOf(h) /\ Rev(On(h))' = Rev(c)'
      BY <1>1, <1>3, <2>5 DEF AttemptOf
    <2>7. CallInv(h)'
      <3>1. call[h].tickets # {}
        BY <1>3 DEF CallInv
      <3>2. n =< n + 1 /\ n # n + 1
        BY <2>1
      <3> QED BY <1>1, <1>4, <2>3, <2>5, <2>6, <3>1, <3>2 DEF CallInv
    <2>8. ASSUME NEW g \in Host \ {h}, On(g) = c
          PROVE  CallInv(g)'
      <3>1. pc[g] # "idle" =>
                /\ Rev(On(g)) \in Nat /\ Rev(On(g))' \in Nat /\ Previous(g) \in Nat
                /\ Rev(On(g)) =< Rev(On(g))'
                /\ Rev(On(g)) = Rev(On(g))' /\ Rolled(On(g)) => Rolled(On(g))'
        <4> SUFFICES ASSUME pc[g] # "idle"
                     PROVE  /\ Rev(On(g)) \in Nat /\ Rev(On(g))' \in Nat /\ Previous(g) \in Nat
                            /\ Rev(On(g)) =< Rev(On(g))'
                            /\ Rev(On(g)) = Rev(On(g))' /\ Rolled(On(g)) => Rolled(On(g))'
          OBVIOUS
        <4>1. On(g) \in Campaign /\ Rev(On(g)) \in Nat /\ Previous(g) \in Nat
          BY CallRev
        <4>2. On(g)' = On(g)
          BY <2>5 DEF StaysPut, On
        <4>3. Rev(On(g)) = n /\ Rev(On(g))' = n + 1
          BY <1>6, <2>3, <2>8, <4>2
        <4> QED BY <2>1, <4>1, <4>3
      <3>2. Same(On(g), Previous(g)) /\ outputs \subseteq outputs'
        BY <1>3 DEF Same
      <3>3. ActionOf(g)' = ActionOf(g) /\ EvidenceAction(g)' = EvidenceAction(g)
        BY <1>3, <2>5, StillActions
      <3>4. /\ HasReservation(ActionOf(g)) => HasReservation(ActionOf(g))'
            /\ HasReservation(EvidenceAction(g)) => HasReservation(EvidenceAction(g))'
        BY <1>3, <3>3 DEF HasReservation
      <3>5. CallInv(g) /\ StaysPut(g) /\ pending' = pending
        BY <1>3, <2>5, <2>8 DEF Recovers
      <3> QED BY <3>1, <3>2, <3>4, <3>5, CallKept
    <2> QED BY <2>3, <2>5, <2>7, <2>8, Gather
  <1> QED BY <1>3, <1>5, <1>6

------------------------------------------------------------------------------
(* Finalization.                                                           *)

\* The active receipt is finalized while it is pending.
Finalizing(c) ==
    /\ activations[c] # NoReceipt
    /\ Finalized(activations[c])
    /\ activations[c] \in pending
    /\ Guarded(activations[c])
    /\ UNCHANGED <<attempts, planning, activations, outputs>>

\* Nothing was built on it yet, and now its claims are exact.
LEMMA FinalizedItself ==
    ASSUME IInv, NEW c \in Campaign, CampaignInv(c), Finalizing(c)
    PROVE  CampaignInv(c)' /\ Rolled(c)' /\ Rev(c)' = Rev(c) /\ ~ Rolled(c)
  <1>1. PICK r : r = activations[c]
    OBVIOUS
  <1>2. /\ r # NoReceipt /\ r \in pending /\ activations'[c] = r
        /\ pending' = {p \in pending : p.campaign # c}
        /\ r.campaign = c /\ r.tickets \in SUBSET Ticket /\ r.revision = Rev(c)
    BY <1>1, ActiveOwn DEF Finalizing, Finalized, Rev
  <1>3. \A t \in Ticket :
            claims'[t] = IF t \in r.tickets THEN [campaign |-> c, revision |-> r.revision]
                         ELSE IF t \in ClaimedBy(c) THEN NoClaim ELSE claims[t]
    BY <1>1, <1>2 DEF Finalizing, Finalized
  <1>4. Rev(c)' = Rev(c) /\ ~ Rolled(c) /\ Rev(c) \in Nat /\ Rev(c) # 0
    BY <1>1, <1>2, RevTyped DEF Rev, Rolled
  <1>5. \A t \in Ticket :
            claims'[t].revision # 0 /\ claims'[t].campaign = c =>
                t \in r.tickets /\ claims'[t].revision = r.revision
    BY <1>3 DEF NoClaim, ClaimedBy
  <1>6. \A t \in r.tickets : claims'[t].revision = r.revision /\ claims'[t].campaign = c
    BY <1>2, <1>3
  <1>7. ClaimedBy(c)' = r.tickets
    BY <1>2, <1>4, <1>5, <1>6 DEF ClaimedBy
  <1>8. Rolled(c)'
    BY <1>2, <1>6, <1>7 DEF Rolled, ExactClaims, ClaimedBy
  <1>9. /\ attempts' = attempts /\ outputs' = outputs /\ planning' = planning
        /\ activations' = activations
    BY DEF Finalizing
  <1>10. ActiveCommitted(c)'
    BY <1>2, <1>4, <1>8, <1>9 DEF CampaignInv, ActiveCommitted, Rev
  <1>11. ClaimsFollow(c)'
    BY <1>2, <1>4, <1>5, <1>8 DEF ClaimsFollow
  <1>12. ASSUME NEW n \in Predecessor
         PROVE  AttemptFollows(c, n)'
    <2> SUFFICES ASSUME attempts[c][n] # NoAttempt
                 PROVE  AttemptFollows(c, n)'
      BY <1>9 DEF AttemptFollows
    <2>1. AttemptFollows(c, n) /\ n \in Nat
      BY PredecessorNat DEF CampaignInv
    <2>2. n =< Rev(c) /\ n # Rev(c)
      BY <1>4, <2>1 DEF AttemptFollows
    <2>3. ~ (Rev(c) =< n)
      BY <1>4, <2>1, <2>2
    <2> QED BY <1>4, <1>8, <1>9, <2>1, <2>3 DEF AttemptFollows
  <1> QED BY <1>4, <1>8, <1>10, <1>11, <1>12 DEF CampaignInv

LEMMA FinalizedCalls ==
    ASSUME IInv, NEW c \in Campaign, Recovers(c), Finalizing(c), NEW g \in Host,
           StaysPut(g), On(g) = c
    PROVE  CallInv(g)'
  <1> USE DEF Later, Attempted, Starting, Classifying, Activating, Compiled, Replanning
  <1>1. /\ attempts' = attempts /\ outputs' = outputs /\ planning' = planning
        /\ activations' = activations
        /\ pending' = {p \in pending : p.campaign # activations[c].campaign}
    BY DEF Finalizing, Finalized
  <1>2. activations[c].campaign = c
    BY ActiveOwn DEF Recovers, Finalizing
  <1>3. pc[g] # "idle" =>
            /\ On(g) \in Campaign
            /\ Rev(On(g)) \in Nat /\ Rev(On(g))' \in Nat /\ Previous(g) \in Nat
            /\ Rev(On(g)) = Rev(On(g))' /\ Rev(On(g)) =< Rev(On(g))'
            /\ Rev(On(g)) = Rev(On(g))' /\ Rolled(On(g)) => Rolled(On(g))'
    <2> SUFFICES ASSUME pc[g] # "idle"
                 PROVE  /\ On(g) \in Campaign
                        /\ Rev(On(g)) \in Nat /\ Rev(On(g))' \in Nat /\ Previous(g) \in Nat
                        /\ Rev(On(g)) = Rev(On(g))' /\ Rev(On(g)) =< Rev(On(g))'
                        /\ Rev(On(g)) = Rev(On(g))' /\ Rolled(On(g)) => Rolled(On(g))'
      OBVIOUS
    <2>1. On(g) \in Campaign /\ Rev(On(g)) \in Nat /\ Previous(g) \in Nat
      BY CallRev
    <2>2. On(g)' = On(g)
      BY DEF StaysPut, On
    <2>3. Rev(c)' = Rev(c) /\ Rolled(c)'
      BY FinalizedItself DEF Recovers
    <2> QED BY <2>1, <2>2, <2>3
  <1>4. Same(On(g), Previous(g)) /\ outputs \subseteq outputs'
    BY <1>1 DEF Same
  <1>5. ActionOf(g)' = ActionOf(g) /\ EvidenceAction(g)' = EvidenceAction(g)
    BY <1>1, StillActions
  <1>6. /\ HasReservation(ActionOf(g)) => HasReservation(ActionOf(g))'
        /\ HasReservation(EvidenceAction(g)) => HasReservation(EvidenceAction(g))'
    BY <1>1, <1>5 DEF HasReservation
  <1>7. CallInv(g)
    BY DEF Recovers
  <1>8. pc[g] \in {"first", "activate"} /\ ReceiptOf(g) \in pending =>
            ReceiptOf(g) \in pending' \/ Previous(g) < Rev(On(g))'
    <2> SUFFICES ASSUME pc[g] \in {"first", "activate"}
                 PROVE  Previous(g) < Rev(On(g))
      BY <1>3
    <2>1. ~ Rolled(c) /\ Rev(c) # 0
      BY FinalizedItself, RevTyped DEF Finalizing, Recovers
    <2>2. Previous(g) =< Rev(c) /\ Previous(g) # Rev(c)
      BY <1>7, <2>1 DEF CallInv
    <2> QED BY <1>3, <2>2
  <1> QED BY <1>3, <1>4, <1>6, <1>7, <1>8, CallKept

LEMMA RollsRecoverably ==
    ASSUME IInv, NEW c \in Campaign, Recovers(c), NEW h \in Host, On(h) = c, RollForward(h) \/ FinalizeClaims(h)
    PROVE  Recovers(c)'
  <1> USE DEF Later, Attempted, Starting, Classifying, Activating, Compiled, Replanning
  <1>1. pc[h] \in {"roll", "finalize"} /\ CallInv(h)
    BY DEF RollForward, FinalizeClaims, Recovers
  <1>2. c = On(h)
    OBVIOUS
  <1>3. PICK r : /\ r # NoReceipt /\ r.campaign = c
                 /\ MayFinalize(r) /\ Finalized(r)
                 /\ r \in pending => Guarded(r)
    <2>1. CASE RollForward(h)
      <3>1. /\ call[h].active # NoReceipt /\ call[h].active.campaign = c
            /\ MayFinalize(call[h].active) /\ Finalized(call[h].active)
            /\ call[h].active \in pending => Guarded(call[h].active)
        BY <1>1, <1>2, <2>1 DEF RollForward, MayRollForward, CallInv
      <3> QED BY <3>1
    <2>2. CASE FinalizeClaims(h)
      <3>1. ReceiptOf(h).campaign = c /\ ReceiptOf(h).revision = Previous(h) + 1
        BY <1>2 DEF ReceiptOf, Receipt
      <3>2. Previous(h) \in Nat
        BY <1>1, CallRev
      <3>3. ReceiptOf(h) # NoReceipt
        BY <3>1, <3>2 DEF NoReceipt
      <3>4. /\ MayFinalize(ReceiptOf(h)) /\ Finalized(ReceiptOf(h))
            /\ ReceiptOf(h) \in pending => Guarded(ReceiptOf(h))
        BY <2>2 DEF FinalizeClaims, MayFinalizeClaims
      <3> QED BY <3>1, <3>3, <3>4
    <2> QED BY <2>1, <2>2
  <1>4. activations[c] = r /\ Recoverable(r)
    BY <1>3 DEF MayFinalize
  <1>5. UNCHANGED <<attempts, planning, activations, outputs>>
    BY DEF RollForward, FinalizeClaims
  <1>6. /\ CampaignInv(c)'
        /\ \A g \in Host : StaysPut(g) /\ On(g) = c => CallInv(g)'
        /\ Rolled(c)' /\ Rev(c)' = Rev(c)
    <2>1. CASE r \in pending
      <3>1. Finalizing(c)
        BY <1>3, <1>4, <1>5, <2>1 DEF Finalizing
      <3> QED BY <3>1, FinalizedItself, FinalizedCalls DEF Recovers
    <2>2. CASE r \notin pending
      <3>1. Quiet
        BY <1>3, <1>5, <2>2 DEF Quiet, Finalized
      <3>2. Rolled(c)
        BY <1>3, <1>4, <2>2, ExactIsRolled DEF Recovers, Recoverable
      <3> QED BY <3>1, <3>2, QuietCampaign, QuietCall DEF Recovers
    <2> QED BY <2>1, <2>2
  <1>7. CallInv(h)' /\ \A g \in Host \ {h} : StaysPut(g)
    <2>1. CASE End(h)
      BY <2>1, EndedCall
    <2>2. CASE RollForward(h) /\ Goto(h, "attempt")
      <3>1. /\ \A g \in Host \ {h} : StaysPut(g)
            /\ pc'[h] = "attempt" /\ call'[h] = call[h]
            /\ On(h)' = On(h) /\ Previous(h)' = Previous(h)
        BY <1>1, <2>2, Went, TypeSplit DEF IInv
      <3>2. Rolled(On(h))' /\ Rev(On(h))' = Rev(On(h))
        BY <1>2, <1>6, <3>1
      <3>3. call[h].tickets # {} /\ Previous(h) =< Rev(On(h))
        BY <1>1 DEF CallInv
      <3> QED BY <3>1, <3>2, <3>3 DEF CallInv
    <2> QED BY <2>1, <2>2 DEF RollForward, FinalizeClaims
  <1> QED BY <1>6, <1>7, Gather

------------------------------------------------------------------------------
(* The calls on other Campaigns touch nothing of this one.                 *)

LEMMA StepMoves ==
    ASSUME IInv, NEW h \in Host, Step(h) \/ Abandon(h)
    PROVE  /\ pc[h] # "idle" /\ On(h) \in Campaign
           /\ \A g \in Host \ {h} : StaysPut(g)
           /\ pc'[h] = "idle" \/ On(h)' = On(h)
  <1>1. pc[h] # "idle"
    BY DEF Step, Abandon, RollForward, ReadOrSaveAttempt, Split, ReservePlanning, Plan,
       Consult, PlanPending, SaveCompiled, ReleaseDecision, SaveRevision, Succeed, Publish,
       ReserveClaims, PublishRevision, Activate, LoseActivation, FinalizeClaims,
       ReplayClassification, ReserveReplanning, RecoverClassification, NotCommitted,
       CommitSuccessor, RecordClassification, Relinquish, Settle, Refuse
  <1>2. ASSUME End(h)
        PROVE  (\A g \in Host \ {h} : StaysPut(g)) /\ pc'[h] = "idle"
    BY <1>2 DEF IInv, TypeOK, End, StaysPut
  <1>3. ASSUME NEW to, Goto(h, to)
        PROVE  (\A g \in Host \ {h} : StaysPut(g)) /\ On(h)' = On(h)
    BY <1>3 DEF IInv, TypeOK, Goto, StaysPut, On
  <1>4. ASSUME ReserveReplanning(h)
        PROVE  (\A g \in Host \ {h} : StaysPut(g)) /\ On(h)' = On(h)
    <2>1. call[h] \in CallValue
      BY <1>1, CallRev
    <2> QED BY <1>4, <2>1 DEF IInv, TypeOK, ReserveReplanning, StaysPut, On, CallValue
  <1>5. CASE \/ Split(h) \/ PlanPending(h) \/ ReleaseDecision(h) \/ LoseActivation(h)
             \/ FinalizeClaims(h) \/ Settle(h) \/ Refuse(h) \/ Abandon(h)
    BY <1>1, <1>2, <1>5, CallRev DEF Split, PlanPending, ReleaseDecision, LoseActivation,
       FinalizeClaims, Settle, Refuse, Abandon
  <1>6. CASE \/ ReservePlanning(h) \/ Publish(h) \/ ReserveClaims(h)
             \/ ReplayClassification(h) \/ RecoverClassification(h) \/ NotCommitted(h)
             \/ RecordClassification(h) \/ Relinquish(h) \/ SaveCompiled(h)
             \/ SaveRevision(h) \/ Succeed(h) \/ PublishRevision(h) \/ Activate(h)
             \/ \E o \in Outcome : Plan(h, o) \/ Consult(h, o)
    BY <1>1, <1>3, <1>6, CallRev DEF ReservePlanning, Publish, ReserveClaims,
       ReplayClassification, RecoverClassification, NotCommitted, RecordClassification,
       Relinquish, SaveCompiled, SaveRevision, Succeed, PublishRevision, Activate, Plan, Consult
  <1>7. CASE RollForward(h) \/ ReadOrSaveAttempt(h) \/ CommitSuccessor(h)
    BY <1>1, <1>2, <1>3, <1>7, CallRev DEF RollForward, ReadOrSaveAttempt, CommitSuccessor
  <1>8. CASE ReserveReplanning(h)
    BY <1>1, <1>4, <1>8, CallRev
  <1> QED BY <1>5, <1>6, <1>7, <1>8 DEF Step

LEMMA InitOwned == Init => Owned
  BY DEF Init, Owned

LEMMA NextOwned ==
    ASSUME IInv, Owned, [Next]_vars
    PROVE  Owned'
  <1>1. ASSUME NEW h \in Host, Activate(h)
        PROVE  \A c \in Campaign : activations'[c] # NoReceipt => activations'[c].campaign = c
    <2>1. activations' = [activations EXCEPT ![On(h)] = ReceiptOf(h)]
      BY <1>1 DEF Activate
    <2>2. ReceiptOf(h).campaign = On(h)
      BY DEF ReceiptOf, Receipt
    <2> QED BY <2>1, <2>2 DEF IInv, TypeOK, Owned
  <1>2. \A c \in Campaign : activations'[c] # NoReceipt => activations'[c].campaign = c
    <2>1. CASE \E h \in Host : Step(h)
      BY <1>1, <2>1, OthersKeepActive DEF Owned
    <2>2. CASE ~ \E h \in Host : Step(h)
      BY <2>2, OthersKeepTables DEF Owned, tables, vars
    <2> QED BY <2>1, <2>2
  <1>3. ASSUME NEW g \in Host, StaysPut(g), pc'[g] = "roll"
        PROVE  call'[g].active # NoReceipt /\ call'[g].active.campaign = On(g)'
    BY <1>3 DEF StaysPut, Owned, On
  <1>4. ASSUME NEW h \in Host, Step(h) \/ Abandon(h)
        PROVE  \A g \in Host : pc'[g] = "roll" =>
                   call'[g].active # NoReceipt /\ call'[g].active.campaign = On(g)'
    <2>1. \A g \in Host \ {h} : StaysPut(g)
      BY <1>4, StepMoves
    <2>2. pc'[h] # "roll"
      <3>1. ASSUME NEW to, pc' = [pc EXCEPT ![h] = to], to # "roll"
            PROVE  pc'[h] # "roll"
        BY <3>1 DEF IInv, TypeOK
      <3>2. CASE ReadOrSaveAttempt(h)
        BY <3>1, <3>2 DEF ReadOrSaveAttempt, AfterAttempt, Goto
      <3>3. CASE RollForward(h) \/ CommitSuccessor(h) \/ Succeed(h) \/ Publish(h)
        BY <3>1, <3>3 DEF RollForward, CommitSuccessor, Succeed, Publish, Goto, End
      <3>4. CASE ~ ReadOrSaveAttempt(h) /\ ~ (RollForward(h) \/ CommitSuccessor(h)
                     \/ Succeed(h) \/ Publish(h))
        BY <1>4, <3>1, <3>4 DEF Step, Abandon, Split, ReservePlanning, Plan, Consult,
           PlanPending, SaveCompiled, ReleaseDecision, SaveRevision, ReserveClaims,
           PublishRevision, Activate, LoseActivation, FinalizeClaims, ReplayClassification,
           ReserveReplanning, RecoverClassification, NotCommitted, RecordClassification,
           Relinquish, Settle, Refuse, Goto, End
      <3> QED BY <3>2, <3>3, <3>4
    <2> QED BY <1>3, <2>1, <2>2
  <1>5. ASSUME NEW h \in Host, NEW c \in Campaign, NEW local, NEW to, Begin(h, local, to),
               local.campaign = c, local.active = activations[c],
               to = "roll" => activations[c] # NoReceipt
        PROVE  \A g \in Host : pc'[g] = "roll" =>
                   call'[g].active # NoReceipt /\ call'[g].active.campaign = On(g)'
    <2>1. \A g \in Host \ {h} : StaysPut(g)
      BY <1>5 DEF Begin, IInv, TypeOK, StaysPut
    <2>2. pc'[h] = to /\ call'[h] = local
      BY <1>5 DEF Begin, IInv, TypeOK
    <2>3. pc'[h] = "roll" => call'[h].active # NoReceipt /\ call'[h].active.campaign = On(h)'
      BY <1>5, <2>2 DEF Owned, On
    <2> QED BY <1>3, <2>1, <2>3
  <1>6. ASSUME NEW h \in Host, NEW c \in Campaign, Advance(h, c)
        PROVE  \A g \in Host : pc'[g] = "roll" =>
                   call'[g].active # NoReceipt /\ call'[g].active.campaign = On(g)'
    <2> DEFINE m == activations[c].revision
    <2>1. PICK es \in {evidence[c][m], settled[c][m]}, to \in {"classify", "successor"} :
              Begin(h, CallOn(c, activations[c].tickets, FALSE, m, es), to)
      BY <1>6 DEF Advance
    <2> DEFINE local == CallOn(c, activations[c].tickets, FALSE, activations[c].revision, es)
    <2>2. local.campaign = c /\ local.active = activations[c] /\ Begin(h, local, to)
      BY <2>1 DEF CallOn
    <2> HIDE DEF local
    <2> QED BY <1>5, <2>1, <2>2
  <1>7. ASSUME NEW h \in Host, NEW c \in Campaign, NEW S \in Ready[c],
               Start(h, c, S) \/ \E n \in Planned : StartSuccessor(h, c, S, n)
        PROVE  \A g \in Host : pc'[g] = "roll" =>
                   call'[g].active # NoReceipt /\ call'[g].active.campaign = On(g)'
    <2>1. PICK ex, n, to :
              /\ Begin(h, CallOn(c, S, ex, n, {}), to)
              /\ to = "roll" => activations[c] # NoReceipt
      <3>1. CASE Start(h, c, S)
        <4> DEFINE to == IF activations[c] = NoReceipt THEN "attempt" ELSE "roll"
        <4>1. /\ Begin(h, CallOn(c, S, FALSE, activations[c].revision, {}), to)
              /\ to = "roll" => activations[c] # NoReceipt
          BY <3>1 DEF Start
        <4> HIDE DEF to
        <4> QED BY <4>1
      <3>2. CASE \E n \in Planned : StartSuccessor(h, c, S, n)
        BY <3>2 DEF StartSuccessor
      <3> QED BY <1>7, <3>1, <3>2
    <2> DEFINE local == CallOn(c, S, ex, n, {})
    <2>2. local.campaign = c /\ local.active = activations[c] /\ Begin(h, local, to)
      BY <2>1 DEF CallOn
    <2> HIDE DEF local
    <2> QED BY <1>5, <2>1, <2>2
  <1>8. CASE \/ \E c \in Campaign, e \in Evidence : Report(c, e)
             \/ Drain
             \/ UNCHANGED vars
    <2>1. \A g \in Host : StaysPut(g)
      BY <1>8 DEF Report, Drain, vars, StaysPut
    <2> QED BY <1>2, <1>3, <2>1 DEF Owned
  <1> QED BY <1>2, <1>4, <1>6, <1>7, <1>8 DEF Next, Owned

\* What belongs to Campaign k stays as it is.
LeftAlone(k) ==
    /\ attempts'[k] = attempts[k]
    /\ activations'[k] = activations[k]
    /\ outputs \subseteq outputs'
    /\ \A r : r.campaign = k => (r \in pending <=> r \in pending')
    /\ \A r : r.action.campaign = k => (r \in planning <=> r \in planning')
    /\ \A t \in Ticket :
           \/ claims[t].revision # 0 /\ claims[t].campaign = k
           \/ claims'[t].revision # 0 /\ claims'[t].campaign = k
           => claims'[t] = claims[t]

LEMMA LeftAloneRecovers ==
    ASSUME IInv, Owned, NEW k \in Campaign, Recovers(k), LeftAlone(k),
           \A g \in Host : StaysPut(g) \/ pc'[g] = "idle" \/ On(g)' # k
    PROVE  Recovers(k)'
  <1>1. Rev(k)' = Rev(k) /\ ClaimedBy(k)' = ClaimedBy(k)
    BY DEF LeftAlone, Rev, ClaimedBy
  <1>2. activations[k] # NoReceipt => activations[k].campaign = k
    BY DEF Owned
  <1>3. Rolled(k) => Rolled(k)'
    <2> SUFFICES ASSUME Rolled(k)
                 PROVE  Rolled(k)'
      OBVIOUS
    <2>1. PICK r : r = activations[k] /\ r # NoReceipt /\ r.campaign = k
      BY <1>2 DEF Rolled
    <2>2. r \notin pending' /\ activations'[k] = r
      BY <2>1 DEF Rolled, LeftAlone
    <2>3. ClaimedBy(k) = r.tickets /\ \A t \in r.tickets : claims[t].revision = r.revision
      BY <2>1 DEF Rolled, ExactClaims
    <2>4. \A t \in r.tickets : claims'[t] = claims[t]
      BY <2>3 DEF ClaimedBy, LeftAlone
    <2> QED BY <1>1, <2>1, <2>2, <2>3, <2>4 DEF Rolled, ExactClaims
  <1>4. ASSUME NEW x, x.campaign = k
        PROVE  HasReservation(x) <=> HasReservation(x)'
    BY <1>4 DEF HasReservation, LeftAlone
  <1>5. \A n \in Predecessor : Same(k, n) /\ attempts'[k][n] = attempts[k][n]
    BY DEF Same, LeftAlone
  <1>6. CampaignInv(k)'
    <2>1. activations[k] \in pending => activations[k] \in pending' \/ Rolled(k)'
      <3>1. CASE activations[k] = NoReceipt
        <4>1. NoReceipt \notin pending
          <5>1. \A n \in Revision : n # 0
            BY BoundAssumption DEF Revision
          <5>2. \A r \in pending : r.revision # 0
            BY <5>1 DEF IInv, TypeOK, ReceiptValue
          <5> QED BY <5>2 DEF NoReceipt
        <4> QED BY <3>1, <4>1
      <3>2. CASE activations[k] # NoReceipt
        BY <1>2, <3>2 DEF LeftAlone
      <3> QED BY <3>1, <3>2
    <2>2. ActiveCommitted(k)'
      BY <1>3, <1>5, <2>1, ActiveKept DEF Recovers, CampaignInv, LeftAlone
    <2>3. ClaimsFollow(k)'
      BY <1>3, ClaimsKept DEF Recovers, CampaignInv, LeftAlone
    <2>4. ASSUME NEW n \in Predecessor
          PROVE  AttemptFollows(k, n)'
      <3>1. PICK R, x : R = Receipt(k, n, attempts[k][n])
                        /\ x = Action(k, n, attempts[k][n].evidence)
        OBVIOUS
      <3>2. R.campaign = k /\ x.campaign = k
        BY <3>1 DEF Receipt, Action
      <3>3. /\ R \in pending => R \in pending'
            /\ HasReservation(x) => HasReservation(x)'
        BY <1>4, <3>2 DEF LeftAlone
      <3>4. Receipt(k, n, attempts'[k][n]) = R /\ Action(k, n, attempts'[k][n].evidence) = x
        BY <1>5, <3>1
      <3>5. Held(k, n) => Held(k, n)'
        BY <3>1, <3>3, <3>4 DEF Held, HasReservation
      <3> QED BY <1>3, <1>5, <3>5, AttemptFollowsOn DEF Recovers, CampaignInv, LeftAlone
    <2> QED BY <2>2, <2>3, <2>4 DEF CampaignInv
  <1>7. ASSUME NEW g \in Host, StaysPut(g), On(g) = k
        PROVE  CallInv(g)'
    <2>1. pc[g] # "idle" =>
              /\ Rev(On(g)) \in Nat /\ Rev(On(g))' \in Nat /\ Previous(g) \in Nat
              /\ Rev(On(g)) =< Rev(On(g))'
              /\ Rev(On(g)) = Rev(On(g))' /\ Rolled(On(g)) => Rolled(On(g))'
      <3> SUFFICES ASSUME pc[g] # "idle"
                   PROVE  /\ Rev(On(g)) \in Nat /\ Rev(On(g))' \in Nat /\ Previous(g) \in Nat
                          /\ Rev(On(g)) =< Rev(On(g))'
                          /\ Rev(On(g)) = Rev(On(g))' /\ Rolled(On(g)) => Rolled(On(g))'
        OBVIOUS
      <3>1. Rev(On(g)) \in Nat /\ Previous(g) \in Nat
        BY CallRev
      <3>2. On(g)' = k
        BY <1>7 DEF StaysPut, On
      <3>3. Rev(On(g))' = Rev(On(g)) /\ (Rolled(On(g)) => Rolled(On(g))')
        BY <1>1, <1>3, <1>7, <3>2
      <3> QED BY <3>1, <3>3
    <2>2. Same(On(g), Previous(g))
      BY <1>7 DEF Same, LeftAlone
    <2>3. PICK x, y, R : x = ActionOf(g) /\ y = EvidenceAction(g) /\ R = ReceiptOf(g)
      OBVIOUS
    <2>4. x.campaign = k /\ y.campaign = k /\ R.campaign = k
      BY <1>7, <2>3 DEF ActionOf, EvidenceAction, ReceiptOf, Action, Receipt
    <2>5. /\ HasReservation(x) => HasReservation(x)'
          /\ HasReservation(y) => HasReservation(y)'
          /\ R \in pending => R \in pending'
      BY <1>4, <2>4 DEF LeftAlone
    <2>6. ActionOf(g)' = x /\ EvidenceAction(g)' = y
      <3>1. On(g)' = On(g) /\ Previous(g)' = Previous(g) /\ call'[g] = call[g]
        BY <1>7 DEF StaysPut, On, Previous
      <3>2. AttemptOf(g)' = AttemptOf(g)
        BY <1>7, <3>1 DEF AttemptOf, LeftAlone
      <3> QED BY <2>3, <3>1, <3>2 DEF ActionOf, EvidenceAction
    <2>7. /\ HasReservation(ActionOf(g)) => HasReservation(ActionOf(g))'
          /\ HasReservation(EvidenceAction(g)) => HasReservation(EvidenceAction(g))'
          /\ ReceiptOf(g) \in pending => ReceiptOf(g) \in pending'
      BY <2>3, <2>5, <2>6 DEF HasReservation
    <2>8. CallInv(g) /\ outputs \subseteq outputs'
      BY <1>7 DEF Recovers, LeftAlone
    <2> QED BY <1>7, <2>1, <2>2, <2>7, <2>8, CallKept
  <1>8. ASSUME NEW g \in Host, pc'[g] = "idle"
        PROVE  CallInv(g)'
    BY <1>8 DEF CallInv, Later, Starting, Classifying, Activating, Compiled, Replanning
  <1>9. \A g \in Host : StaysPut(g) => On(g)' = On(g)
    BY DEF StaysPut, On
  <1> QED BY <1>6, <1>7, <1>8, <1>9 DEF Recovers

\* Finalizing an activation of its own Campaign.
LEMMA FinalizedLeavesAlone ==
    ASSUME IInv, NEW k \in Campaign, NEW r, r.campaign # k, Finalized(r),
           r \in pending => Guarded(r)
    PROVE  /\ \A q : q.campaign = k => (q \in pending <=> q \in pending')
           /\ \A t \in Ticket :
                  \/ claims[t].revision # 0 /\ claims[t].campaign = k
                  \/ claims'[t].revision # 0 /\ claims'[t].campaign = k
                  => claims'[t] = claims[t]
  <1>1. CASE r \notin pending
    BY <1>1 DEF Finalized
  <1>2. CASE r \in pending
    <2>1. pending' = {p \in pending : p.campaign # r.campaign}
      BY <1>2 DEF Finalized
    <2>2. \A t \in Ticket :
              claims'[t] = IF t \in r.tickets
                           THEN [campaign |-> r.campaign, revision |-> r.revision]
                           ELSE IF t \in ClaimedBy(r.campaign) THEN NoClaim ELSE claims[t]
      BY <1>2 DEF Finalized
    <2>3. \A t \in r.tickets : claims[t].revision # 0 => claims[t].campaign = r.campaign
      BY <1>2 DEF Guarded, NoClaim
    <2> QED BY <2>1, <2>2, <2>3 DEF ClaimedBy, NoClaim
  <1> QED BY <1>1, <1>2

LEMMA StepLeavesAlone ==
    ASSUME IInv, Owned, NEW h \in Host, Step(h) \/ Abandon(h), NEW k \in Campaign, On(h) # k
    PROVE  LeftAlone(k)
  <1>1. attempts'[k] = attempts[k]
    <2>1. ASSUME NEW n, NEW a, attempts' = [attempts EXCEPT ![On(h)][n] = a]
          PROVE  attempts'[k] = attempts[k]
      BY <2>1 DEF IInv, TypeOK
    <2>2. CASE ReadOrSaveAttempt(h) \/ CommitSuccessor(h)
      BY <2>1, <2>2 DEF ReadOrSaveAttempt, CommitSuccessor
    <2>3. CASE SaveCompiled(h) \/ SaveRevision(h)
      BY <2>3 DEF SaveCompiled, SaveRevision, IInv, TypeOK
    <2>4. CASE ~ (ReadOrSaveAttempt(h) \/ CommitSuccessor(h)) /\ ~ (SaveCompiled(h) \/ SaveRevision(h))
      BY <2>4 DEF Step, Abandon, RollForward, Split, ReservePlanning, Plan, Consult,
         PlanPending, ReleaseDecision, Succeed, Publish, ReserveClaims, PublishRevision,
         Activate, LoseActivation, FinalizeClaims, ReplayClassification, ReserveReplanning,
         RecoverClassification, NotCommitted, RecordClassification, Relinquish, Settle,
         Refuse, tables
    <2> QED BY <2>2, <2>3, <2>4
  <1>2. activations'[k] = activations[k]
    <2>1. CASE Activate(h)
      BY <2>1 DEF Activate, IInv, TypeOK
    <2>2. CASE ~ Activate(h)
      BY <2>2, OthersKeepActive DEF Abandon, tables
    <2> QED BY <2>1, <2>2
  <1>3. outputs \subseteq outputs'
    BY DEF Step, Abandon, RollForward, ReadOrSaveAttempt, Split, ReservePlanning, Plan,
       Consult, Completes, PlanPending, SaveCompiled, ReleaseDecision, SaveRevision, Succeed,
       Publish, ReserveClaims, PublishRevision, Activate, LoseActivation, FinalizeClaims,
       ReplayClassification, ReserveReplanning, RecoverClassification, NotCommitted,
       CommitSuccessor, RecordClassification, Relinquish, Settle, Refuse
  <1>4. CASE RollForward(h) \/ FinalizeClaims(h)
    <2>1. PICK r : r.campaign = On(h) /\ Finalized(r) /\ (r \in pending => Guarded(r))
      <3>1. CASE RollForward(h)
        BY <3>1 DEF RollForward, MayRollForward, Owned
      <3>2. CASE FinalizeClaims(h)
        BY <3>2 DEF FinalizeClaims, MayFinalizeClaims, ReceiptOf, Receipt
      <3> QED BY <1>4, <3>1, <3>2
    <2>2. planning' = planning
      BY <1>4 DEF RollForward, FinalizeClaims
    <2>3. r.campaign # k
      BY <2>1
    <2>4. /\ \A q : q.campaign = k => (q \in pending <=> q \in pending')
          /\ \A t \in Ticket :
                 \/ claims[t].revision # 0 /\ claims[t].campaign = k
                 \/ claims'[t].revision # 0 /\ claims'[t].campaign = k
                 => claims'[t] = claims[t]
      BY <2>1, <2>3, FinalizedLeavesAlone
    <2> QED BY <1>1, <1>2, <1>3, <2>2, <2>4 DEF LeftAlone
  <1>5. CASE ~ (RollForward(h) \/ FinalizeClaims(h))
    <2>1. claims' = claims
      BY <1>5 DEF Step, Abandon, ReadOrSaveAttempt, Split, ReservePlanning, Plan, Consult,
         PlanPending, SaveCompiled, ReleaseDecision, SaveRevision, Succeed, Publish,
         ReserveClaims, PublishRevision, Activate, LoseActivation, ReplayClassification,
         ReserveReplanning, RecoverClassification, NotCommitted, CommitSuccessor,
         RecordClassification, Relinquish, Settle, Refuse, tables
    <2>2. \A r : r.campaign = k => (r \in pending <=> r \in pending')
      <3>1. ReceiptOf(h).campaign = On(h)
        BY DEF ReceiptOf, Receipt
      <3>2. CASE ReserveClaims(h) \/ LoseActivation(h)
        BY <3>1, <3>2 DEF ReserveClaims, LoseActivation
      <3>3. CASE ~ (ReserveClaims(h) \/ LoseActivation(h))
        BY <1>5, <3>3 DEF Step, Abandon, ReadOrSaveAttempt, Split, ReservePlanning, Plan,
           Consult, PlanPending, SaveCompiled, ReleaseDecision, SaveRevision, Succeed,
           Publish, PublishRevision, Activate, ReplayClassification, ReserveReplanning,
           RecoverClassification, NotCommitted, CommitSuccessor, RecordClassification,
           Relinquish, Settle, Refuse, tables
      <3> QED BY <3>2, <3>3
    <2>3. \A r : r.action.campaign = k => (r \in planning <=> r \in planning')
      <3>1. /\ ActionOf(h).campaign = On(h) /\ EvidenceAction(h).campaign = On(h)
            /\ Reservation(On(h), Previous(h), AttemptOf(h)).action.campaign = On(h)
            /\ EvidenceReservation(h).action.campaign = On(h)
        BY DEF ActionOf, EvidenceAction, Action, Reservation, EvidenceReservation
      <3>2. CASE ReserveClaims(h) \/ ReservePlanning(h) \/ ReserveReplanning(h)
        BY <3>1, <3>2 DEF ReserveClaims, ReservePlanning, ReserveReplanning
      <3>3. CASE ReleaseDecision(h) \/ Relinquish(h)
        BY <3>1, <3>3 DEF ReleaseDecision, Relinquish
      <3>4. CASE ~ (ReserveClaims(h) \/ ReservePlanning(h) \/ ReserveReplanning(h))
                 /\ ~ (ReleaseDecision(h) \/ Relinquish(h))
        BY <1>5, <3>4 DEF Step, Abandon, ReadOrSaveAttempt, Split, Plan, Consult,
           PlanPending, SaveCompiled, SaveRevision, Succeed, Publish, PublishRevision,
           Activate, LoseActivation, ReplayClassification, RecoverClassification,
           NotCommitted, CommitSuccessor, RecordClassification, Settle, Refuse, tables
      <3> QED BY <3>2, <3>3, <3>4
    <2> QED BY <1>1, <1>2, <1>3, <2>1, <2>2, <2>3 DEF LeftAlone
  <1> QED BY <1>4, <1>5

\* A call that begins on another Campaign.
LEMMA BeginsElsewhere ==
    ASSUME IInv, Owned, NEW k \in Campaign, Recovers(k), NEW h \in Host, NEW local, NEW to,
           Begin(h, local, to), local.campaign # k
    PROVE  Recovers(k)'
  <1>1. \A g \in Host \ {h} : StaysPut(g)
    BY DEF Begin, IInv, TypeOK, StaysPut
  <1>2. On(h)' # k
    BY DEF Begin, IInv, TypeOK, On
  <1>3. LeftAlone(k)
    BY DEF Begin, LeftAlone, tables
  <1> QED BY <1>1, <1>2, <1>3, LeftAloneRecovers

------------------------------------------------------------------------------
(* The steps together.                                                     *)

LEMMA OwnStepRecovers ==
    ASSUME IInv, NEW c \in Campaign, Recovers(c), NEW h \in Host, Step(h), On(h) = c,
           c \notin renewed'
    PROVE  Recovers(c)'
  <1>1. CASE \/ Split(h) \/ PlanPending(h) \/ Settle(h) \/ Refuse(h)
    BY <1>1, EndingQuietly
  <1>2. CASE \/ Publish(h) \/ ReplayClassification(h) \/ NotCommitted(h)
             \/ RecoverClassification(h) \/ PublishRevision(h) \/ Succeed(h)
    BY <1>2, GoingQuietly
  <1>3. CASE RecordClassification(h)
    BY <1>3, RecordsQuietly
  <1>4. ASSUME NEW o \in Outcome, Plan(h, o) \/ Consult(h, o)
        PROVE  Recovers(c)'
    BY <1>4, TurnsQuietly
  <1>5. CASE ReadOrSaveAttempt(h) \/ SaveCompiled(h) \/ SaveRevision(h) \/ CommitSuccessor(h)
    BY <1>5, SavesAttemptRecoverably, CompilesRecoverably, CommitsRecoverably
  <1>6. CASE ReservePlanning(h) \/ ReserveReplanning(h)
    BY <1>6, ReservesRecoverably
  <1>7. CASE ReleaseDecision(h) \/ Relinquish(h)
    BY <1>7, ReleasesRecoverably, RelinquishesRecoverably
  <1>8. CASE ReserveClaims(h) \/ LoseActivation(h) \/ Activate(h)
    BY <1>8, ReservesClaimsRecoverably, LosesRecoverably, ActivatesRecoverably
  <1>9. CASE RollForward(h) \/ FinalizeClaims(h)
    BY <1>9, RollsRecoverably
  <1> QED BY <1>1, <1>2, <1>3, <1>4, <1>5, <1>6, <1>7, <1>8, <1>9 DEF Step

LEMMA StepRecovers ==
    ASSUME IInv, Owned, NEW c \in Campaign, Recovers(c), NEW h \in Host,
           Step(h) \/ Abandon(h), c \notin renewed'
    PROVE  Recovers(c)'
  <1>1. CASE On(h) = c
    BY <1>1, OwnStepRecovers, EndingQuietly
  <1>2. CASE On(h) # c
    <2>1. LeftAlone(c)
      BY <1>2, StepLeavesAlone
    <2>2. \A g \in Host : StaysPut(g) \/ pc'[g] = "idle" \/ On(g)' # c
      BY <1>2, StepMoves
    <2> QED BY <2>1, <2>2, LeftAloneRecovers
  <1> QED BY <1>1, <1>2

LEMMA NextRecovers ==
    ASSUME IInv, Owned, NEW c \in Campaign, Recovers(c), [Next]_vars, c \notin renewed'
    PROVE  Recovers(c)'
  <1>1. ASSUME NEW h \in Host, Step(h) \/ Abandon(h) PROVE Recovers(c)'
    BY <1>1, StepRecovers
  <1>2. ASSUME NEW h \in Host, NEW d \in Campaign, Advance(h, d) PROVE Recovers(c)'
    <2>1. CASE d = c
      BY <1>2, <2>1, AdvancesQuietly
    <2>2. CASE d # c
      <3>1. PICK es, to :
                Begin(h, CallOn(d, activations[d].tickets, FALSE, activations[d].revision, es), to)
        BY <1>2 DEF Advance
      <3> DEFINE local == CallOn(d, activations[d].tickets, FALSE, activations[d].revision, es)
      <3>2. local.campaign # c /\ Begin(h, local, to)
        BY <2>2, <3>1 DEF CallOn
      <3> HIDE DEF local
      <3> QED BY <3>2, BeginsElsewhere
    <2> QED BY <2>1, <2>2
  <1>3. ASSUME NEW h \in Host, NEW d \in Campaign, NEW S \in Ready[d],
               Start(h, d, S) \/ \E n \in Planned : StartSuccessor(h, d, S, n)
        PROVE  Recovers(c)'
    <2>1. CASE d = c
      BY <1>3, <2>1, StartsQuietly, StartsSuccessorQuietly
    <2>2. CASE d # c
      <3>1. PICK ex, n, to : Begin(h, CallOn(d, S, ex, n, {}), to)
        BY <1>3 DEF Start, StartSuccessor
      <3> DEFINE local == CallOn(d, S, ex, n, {})
      <3>2. local.campaign # c /\ Begin(h, local, to)
        BY <2>2, <3>1 DEF CallOn
      <3> HIDE DEF local
      <3> QED BY <3>2, BeginsElsewhere
    <2> QED BY <2>1, <2>2
  <1>4. CASE \/ \E d \in Campaign, e \in Evidence : Report(d, e)
             \/ Drain
             \/ UNCHANGED vars
    BY <1>4, OutsideQuietly
  <1> QED BY <1>1, <1>2, <1>3, <1>4 DEF Next

\* Only reserve_claims puts a Campaign on record, and it stays there.
LEMMA OnlyReservesRenew ==
    ASSUME [Next]_vars
    PROVE  renewed' = renewed \/ \E h \in Host : ReserveClaims(h)
  <1>1. ASSUME NEW h \in Host, Step(h) \/ Abandon(h), ~ ReserveClaims(h)
        PROVE  renewed' = renewed
    BY <1>1 DEF Step, Abandon, RollForward, ReadOrSaveAttempt, Split, ReservePlanning,
       Plan, Consult, PlanPending, SaveCompiled, ReleaseDecision, SaveRevision, Succeed,
       Publish, PublishRevision, Activate, LoseActivation, FinalizeClaims,
       ReplayClassification, ReserveReplanning, RecoverClassification, NotCommitted,
       CommitSuccessor, RecordClassification, Relinquish, Settle, Refuse
  <1>2. ASSUME NEW h \in Host, NEW local, NEW to, Begin(h, local, to)
        PROVE  renewed' = renewed
    BY <1>2 DEF Begin
  <1>3. ASSUME NEW h \in Host, NEW c \in Campaign,
               \/ Advance(h, c)
               \/ \E S \in Ready[c] :
                      Start(h, c, S) \/ \E n \in Planned : StartSuccessor(h, c, S, n)
        PROVE  renewed' = renewed
    BY <1>2, <1>3 DEF Advance, Start, StartSuccessor
  <1>4. CASE \/ \E c \in Campaign, e \in Evidence : Report(c, e)
             \/ Drain
             \/ UNCHANGED vars
    BY <1>4 DEF Report, Drain, vars
  <1> QED BY <1>1, <1>3, <1>4 DEF Next

LEMMA StaysRenewed ==
    ASSUME [Next]_vars
    PROVE  renewed \subseteq renewed'
  BY OnlyReservesRenew DEF ReserveClaims

\* Every Campaign recovers unless it is on record.
RInv == Owned /\ \A c \in Campaign \ renewed : Recovers(c)

LEMMA InitRecovers == Init => RInv
  <1> SUFFICES ASSUME Init
               PROVE  RInv
    OBVIOUS
  <1>1. \A c \in Campaign : CampaignInv(c)
    BY DEF Init, CampaignInv, ActiveCommitted, ClaimsFollow, AttemptFollows, NoClaim
  <1>2. \A h \in Host : CallInv(h)
    BY DEF Init, CallInv, Later, Starting, Classifying, Activating, Compiled, Replanning
  <1> QED BY <1>1, <1>2, InitOwned DEF Recovers, RInv

LEMMA RecoversInductive == Spec => []RInv
  <1>1. IInv /\ RInv /\ [Next]_vars => RInv'
    <2> SUFFICES ASSUME IInv, RInv, [Next]_vars
                 PROVE  RInv'
      OBVIOUS
    <2>1. Owned'
      BY NextOwned DEF RInv
    <2>2. ASSUME NEW c \in Campaign, c \notin renewed'
          PROVE  Recovers(c)'
      <3>1. Owned /\ Recovers(c)
        BY <2>2, StaysRenewed DEF RInv
      <3> QED BY <2>2, <3>1, NextRecovers
    <2> QED BY <2>1, <2>2 DEF RInv
  <1> QED BY <1>1, InitRecovers, Inductive, PTL DEF Spec

\* However many calls race, lose, finalize and die, and whatever they are about:
\* every committed activation can be rolled forward, unless its Campaign has a
\* committed activation made pending again (_validate_active_receipt_once).
THEOREM ActivationsRollForward == Spec => []ActiveRecoverable
  <1>1. RInv => ActiveRecoverable
    BY DEF RInv, ActiveRecoverable, Recovers, CampaignInv, ActiveCommitted, Recoverable, Rolled
  <1> QED BY <1>1, RecoversInductive, PTL

\* And every compiled plan keeps its Tickets until it is activated: neither a
\* death, nor a lost race, nor Evidence that asks for no successor, nor a snapshot
\* that is too large costs a Campaign its Tickets, with the same exemption.
THEOREM PlansKeepTickets == Spec => []CompiledHoldsTickets
  <1>1. RInv => CompiledHoldsTickets
    BY DEF RInv, CompiledHoldsTickets, Recovers, CampaignInv, AttemptFollows, Held, Rev
  <1> QED BY <1>1, RecoversInductive, PTL

------------------------------------------------------------------------------
(* One call at a time.  It finds everything as it read it, so that no      *)
(* consumed reservation is made again: the exemption of ActiveRecoverable  *)
(* and CompiledHoldsTickets is one of calls that race, and of no other.    *)

\* The invariant of every Campaign and every call.
RecoverAll ==
    /\ \A c \in Campaign : CampaignInv(c)
    /\ \A h \in Host : CallInv(h)

LEMMA AllRecover ==
    ASSUME IInv, RInv, renewed = {}
    PROVE  RecoverAll
  <1>1. \A c \in Campaign : CampaignInv(c)
    BY DEF RInv, Recovers
  <1>2. ASSUME NEW h \in Host, pc[h] # "idle"
        PROVE  CallInv(h)
    BY <1>2, CallRev DEF RInv, Recovers
  <1>3. ASSUME NEW h \in Host, pc[h] = "idle"
        PROVE  CallInv(h)
    BY <1>3 DEF CallInv, Later, Starting, Classifying, Activating, Compiled, Replanning
  <1> QED BY <1>1, <1>2, <1>3 DEF RecoverAll

\* No reservation of an attempt whose activation is pending or committed.
ReservedOnce ==
    \A c \in Campaign, n \in Predecessor :
        LET a == attempts[c][n] IN
        a # NoAttempt /\ HasReservation(Action(c, n, a.evidence)) =>
            Receipt(c, n, a) \notin pending /\ activations[c].revision =< n

\* The Planning reservation of an attempt was used.
Spent(c, n) ==
    /\ attempts[c][n] # NoAttempt
    /\ Receipt(c, n, attempts[c][n]) \in pending \/ n < Rev(c)

\* By then it is compiled, a successor is classified, and nothing is reserved.
SpentOnce(c, n) ==
    Spent(c, n) =>
        /\ attempts[c][n].compiled = "plan"
        /\ attempts[c][n].protocol = "replan" =>
               <<Action(c, n, attempts[c][n].evidence), "successor">> \in classifications
        /\ ~ HasReservation(Action(c, n, attempts[c][n].evidence))

OneReservation == \A x, y \in planning : x.action = y.action => x = y

PendingBacked ==
    \A r \in pending : \E c \in Campaign, n \in Predecessor :
        attempts[c][n] # NoAttempt /\ r = Receipt(c, n, attempts[c][n])

\* Every revision has its attempt, and a replanned one keeps the Tickets.
Succession(c) ==
    \A n \in Predecessor :
        /\ n < Rev(c) => attempts[c][n] # NoAttempt
        /\ attempts[c][n].protocol = "replan" /\ n = Rev(c) =>
               /\ activations[c] # NoReceipt
               /\ attempts[c][n].tickets = activations[c].tickets

\* A call that is alone finds everything as it read it.
AloneAt(h) ==
    /\ pc[h] = "intent" => AttemptOf(h).compiled = "none"
    /\ pc[h] = "attempt" /\ AttemptOf(h).protocol = "replan" =>
           AttemptOf(h).tickets # call[h].tickets
    /\ pc[h] = "roll" /\ AttemptOf(h).protocol = "replan" =>
           \/ ~ call[h].explicit /\ call[h].active.tickets = call[h].tickets
           \/ AttemptOf(h).tickets # call[h].tickets
    /\ pc[h] \in Compiled /\ AttemptOf(h).protocol = "replan" =>
           <<ActionOf(h), "successor">> \in classifications
    /\ pc[h] \in Classifying =>
           /\ Previous(h) = Rev(On(h))
           /\ activations[On(h)] # NoReceipt
           /\ call[h].tickets = activations[On(h)].tickets

Alone ==
    /\ \A c \in Campaign, n \in Predecessor : SpentOnce(c, n)
    /\ OneReservation
    /\ PendingBacked
    /\ \A c \in Campaign : Succession(c)

LEMMA AloneReservesOnce ==
    ASSUME IInv, Alone
    PROVE  ReservedOnce
  <1> SUFFICES ASSUME NEW c \in Campaign, NEW n \in Predecessor, attempts[c][n] # NoAttempt,
                      HasReservation(Action(c, n, attempts[c][n].evidence))
               PROVE  /\ Receipt(c, n, attempts[c][n]) \notin pending
                      /\ Rev(c) =< n
    BY DEF ReservedOnce, Rev
  <1>1. ~ Spent(c, n)
    BY DEF Alone, SpentOnce
  <1>2. n \in Nat /\ Rev(c) \in Nat
    BY PredecessorNat, RevTyped
  <1> QED BY <1>1, <1>2 DEF Spent

\* A step that reserves nothing.
LEMMA Lessens ==
    ASSUME Alone, planning' \subseteq planning, pending' \subseteq pending,
           UNCHANGED <<attempts, activations>>, classifications \subseteq classifications'
    PROVE  Alone'
  <1>1. ASSUME NEW c \in Campaign, NEW n \in Predecessor
        PROVE  SpentOnce(c, n)'
    <2> DEFINE x == Action(c, n, attempts[c][n].evidence)
    <2>1. Spent(c, n)' => Spent(c, n)
      BY DEF Spent, Rev
    <2>2. HasReservation(x)' => HasReservation(x)
      BY DEF HasReservation
    <2>3. SpentOnce(c, n)
      BY DEF Alone
    <2> QED BY <2>1, <2>2, <2>3 DEF SpentOnce
  <1>2. OneReservation'
    BY DEF Alone, OneReservation
  <1>3. PendingBacked'
    BY DEF Alone, PendingBacked
  <1>4. \A c \in Campaign : Succession(c)'
    BY DEF Alone, Succession, Rev
  <1> QED BY <1>1, <1>2, <1>3, <1>4 DEF Alone

LEMMA EndsAlone ==
    ASSUME IInv, NEW h \in Host, End(h)
    PROVE  AloneAt(h)'
  <1>1. pc'[h] = "idle"
    BY DEF IInv, TypeOK, End
  <1> QED BY <1>1 DEF AloneAt, Compiled, Classifying

LEMMA GoesAlone ==
    ASSUME IInv, NEW h \in Host, AloneAt(h), pc[h] \in Later,
           NEW to \in Later \ {"attempt"}, Goto(h, to),
           UNCHANGED <<attempts, activations>>, classifications \subseteq classifications',
           to = "intent" => AttemptOf(h).compiled = "none",
           to \in Compiled /\ AttemptOf(h).protocol = "replan" =>
               <<ActionOf(h), "successor">> \in classifications',
           to \in Classifying => pc[h] \in Classifying
    PROVE  AloneAt(h)'
  <1>1. /\ pc'[h] = to /\ call'[h] = call[h]
        /\ On(h)' = On(h) /\ Previous(h)' = Previous(h)
    BY TypeSplit, Went DEF IInv, Later, Starting, Classifying, Activating
  <1>2. AttemptOf(h)' = AttemptOf(h)
    BY <1>1 DEF AttemptOf
  <1>3. ActionOf(h)' = ActionOf(h)
    BY <1>1, <1>2 DEF ActionOf
  <1>4. to # "roll"
    BY DEF Later, Starting, Classifying, Activating
  <1>5. to \in Classifying =>
            /\ Previous(h)' = Rev(On(h))'
            /\ activations'[On(h)'] # NoReceipt
            /\ call'[h].tickets = activations'[On(h)'].tickets
    BY <1>1 DEF AloneAt, Rev
  <1> QED BY <1>1, <1>2, <1>3, <1>4, <1>5 DEF AloneAt

LEMMA EndingAlone ==
    ASSUME IInv, Alone, NEW h \in Host,
           \/ Split(h) \/ PlanPending(h) \/ Settle(h) \/ Refuse(h) \/ Abandon(h)
           \/ ReleaseDecision(h) \/ LoseActivation(h) \/ FinalizeClaims(h)
    PROVE  Alone' /\ AloneAt(h)'
  <1>1. End(h)
    BY DEF Split, PlanPending, Settle, Refuse, Abandon, ReleaseDecision, LoseActivation,
       FinalizeClaims
  <1>2. /\ planning' \subseteq planning
        /\ UNCHANGED <<attempts, activations, classifications>>
    BY DEF Split, PlanPending, Settle, Refuse, Abandon, ReleaseDecision, LoseActivation,
       FinalizeClaims, tables
  <1>3. pending' \subseteq pending
    BY DEF Split, PlanPending, Settle, Refuse, Abandon, ReleaseDecision, LoseActivation,
       FinalizeClaims, Finalized, tables
  <1> QED BY <1>1, <1>2, <1>3, EndsAlone, Lessens

LEMMA RollsAlone ==
    ASSUME IInv, Alone, NEW h \in Host, AloneAt(h), RollForward(h)
    PROVE  Alone' /\ AloneAt(h)'
  <1>1. /\ UNCHANGED <<attempts, planning, activations, classifications>>
        /\ pending' \subseteq pending
    BY DEF RollForward, Finalized
  <1>2. Alone'
    BY <1>1, Lessens
  <1>3. CASE ~ call[h].explicit /\ call[h].active.tickets = call[h].tickets
    BY <1>2, <1>3, EndsAlone DEF RollForward
  <1>4. CASE ~ (~ call[h].explicit /\ call[h].active.tickets = call[h].tickets)
    <2>1. Goto(h, "attempt") /\ pc[h] = "roll"
      BY <1>4 DEF RollForward
    <2>2. /\ pc'[h] = "attempt" /\ call'[h] = call[h]
          /\ On(h)' = On(h) /\ Previous(h)' = Previous(h)
      BY <2>1, TypeSplit, Went DEF IInv, Starting
    <2>3. AttemptOf(h)' = AttemptOf(h)
      BY <1>1, <2>2 DEF AttemptOf
    <2>4. AttemptOf(h).protocol = "replan" => AttemptOf(h).tickets # call[h].tickets
      BY <1>4, <2>1 DEF AloneAt
    <2> QED BY <1>2, <2>2, <2>3, <2>4 DEF AloneAt, Compiled, Classifying
  <1> QED BY <1>3, <1>4

LEMMA GoingAlone ==
    ASSUME IInv, Alone, NEW h \in Host, AloneAt(h),
           \/ Publish(h) \/ ReplayClassification(h) \/ NotCommitted(h)
           \/ RecoverClassification(h) \/ PublishRevision(h) \/ Succeed(h)
           \/ (\E o \in Outcome : Plan(h, o) \/ Consult(h, o))
           \/ RecordClassification(h) \/ Relinquish(h)
    PROVE  Alone' /\ AloneAt(h)'
  <1> USE DEF Later, Starting, Classifying, Activating, Compiled
  <1>1. /\ UNCHANGED <<attempts, activations>>
        /\ planning' \subseteq planning /\ pending' \subseteq pending
        /\ classifications \subseteq classifications'
    BY DEF Publish, ReplayClassification, NotCommitted, RecoverClassification,
       PublishRevision, Succeed, Plan, Consult, RecordClassification, Relinquish, tables
  <1>2. Alone'
    BY <1>1, Lessens
  <1>3. CASE Publish(h) \/ PublishRevision(h)
    <2>1. PICK to \in {"finalize", "reserve", "activate"} : Goto(h, to)
      BY <1>3 DEF Publish, PublishRevision
    <2>2. pc[h] \in {"publish", "first"}
      BY <1>3 DEF Publish, PublishRevision
    <2>3. AttemptOf(h).protocol = "replan" => <<ActionOf(h), "successor">> \in classifications'
      BY <1>1, <2>2 DEF AloneAt
    <2> QED BY <1>1, <1>2, <2>1, <2>2, <2>3, GoesAlone
  <1>4. CASE Succeed(h)
    <2>1. PICK to \in {"finalize", "publish", "revision"} : Goto(h, to)
      BY <1>4 DEF Succeed
    <2>2. pc[h] = "successor" /\ <<ActionOf(h), "successor">> \in classifications'
      BY <1>1, <1>4 DEF Succeed, MaySucceed, IsSuccessor
    <2> QED BY <1>1, <1>2, <2>1, <2>2, GoesAlone
  <1>5. CASE \E o \in Outcome : Plan(h, o)
    <2>1. Goto(h, "compile") /\ pc[h] = "progress"
      BY <1>5 DEF Plan
    <2> QED BY <1>1, <1>2, <2>1, GoesAlone
  <1>6. CASE \/ ReplayClassification(h) \/ NotCommitted(h) \/ RecoverClassification(h)
             \/ (\E o \in Outcome : Consult(h, o)) \/ RecordClassification(h) \/ Relinquish(h)
    <2>1. PICK to \in Classifying : Goto(h, to)
      BY <1>6 DEF ReplayClassification, NotCommitted, RecoverClassification, Consult,
         RecordClassification, Relinquish
    <2>2. pc[h] \in Classifying
      BY <1>6 DEF ReplayClassification, NotCommitted, RecoverClassification, Consult,
         RecordClassification, Relinquish
    <2> QED BY <1>1, <1>2, <2>1, <2>2, GoesAlone
  <1> QED BY <1>3, <1>4, <1>5, <1>6

\* An attempt on a revision that had none.
LEMMA AddsAttempt ==
    ASSUME IInv, Alone, NEW c \in Campaign, NEW n \in Predecessor, NEW a \in AttemptValue,
           attempts[c][n] = NoAttempt, attempts' = [attempts EXCEPT ![c][n] = a],
           UNCHANGED <<planning, pending, activations, classifications>>,
           a.protocol = "replan" /\ n = Rev(c) =>
               activations[c] # NoReceipt /\ a.tickets = activations[c].tickets
    PROVE  Alone'
  <1>1. \A d \in Campaign, m \in Predecessor :
            attempts'[d][m] = IF d = c /\ m = n THEN a ELSE attempts[d][m]
    BY DEF IInv, TypeOK
  <1>2. ~ n < Rev(c)
    BY DEF Alone, Succession
  <1>3. Receipt(c, n, a) \notin pending
    <2> SUFFICES ASSUME Receipt(c, n, a) \in pending
                 PROVE  FALSE
      OBVIOUS
    <2>1. PICK d \in Campaign, m \in Predecessor :
              attempts[d][m] # NoAttempt /\ Receipt(c, n, a) = Receipt(d, m, attempts[d][m])
      BY DEF Alone, PendingBacked
    <2>2. m \in Nat /\ n \in Nat
      BY PredecessorNat
    <2>3. c = d /\ m = n
      BY <2>1, <2>2, ReceiptSame
    <2> QED BY <2>1, <2>3
  <1>4. ~ Spent(c, n)'
    BY <1>1, <1>2, <1>3 DEF Spent, Rev
  <1>5. ASSUME NEW d \in Campaign, NEW m \in Predecessor
        PROVE  SpentOnce(d, m)'
    <2>1. CASE d = c /\ m = n
      BY <1>4, <2>1 DEF SpentOnce
    <2>2. CASE ~ (d = c /\ m = n)
      <3>1. attempts'[d][m] = attempts[d][m]
        BY <1>1, <2>2
      <3>2. Spent(d, m)' => Spent(d, m)
        BY <3>1 DEF Spent, Rev
      <3>3. SpentOnce(d, m)
        BY DEF Alone
      <3> QED BY <3>1, <3>2, <3>3 DEF SpentOnce, HasReservation
    <2> QED BY <2>1, <2>2
  <1>6. OneReservation'
    BY DEF Alone, OneReservation
  <1>7. PendingBacked'
    <2> SUFFICES ASSUME NEW r \in pending
                 PROVE  \E d \in Campaign, m \in Predecessor :
                            attempts'[d][m] # NoAttempt /\ r = Receipt(d, m, attempts'[d][m])
      BY DEF PendingBacked
    <2>1. PICK d \in Campaign, m \in Predecessor :
              attempts[d][m] # NoAttempt /\ r = Receipt(d, m, attempts[d][m])
      BY DEF Alone, PendingBacked
    <2>2. attempts'[d][m] = attempts[d][m]
      BY <1>1, <2>1
    <2> QED BY <2>1, <2>2
  <1>8. ASSUME NEW d \in Campaign
        PROVE  Succession(d)'
    <2>1. a # NoAttempt
      BY DEF AttemptValue, NoAttempt
    <2>2. Succession(d)
      BY DEF Alone
    <2> QED BY <1>1, <2>1, <2>2 DEF Succession, Rev
  <1> QED BY <1>5, <1>6, <1>7, <1>8 DEF Alone

\* An attempt that is compiled or bound to its revision.
LEMMA ChangesAttempt ==
    ASSUME IInv, Alone, NEW c \in Campaign, NEW n \in Predecessor, NEW a \in AttemptValue,
           attempts[c][n] # NoAttempt, attempts' = [attempts EXCEPT ![c][n] = a],
           UNCHANGED <<planning, pending, activations, classifications>>,
           a.tickets = attempts[c][n].tickets, a.evidence = attempts[c][n].evidence,
           a.protocol = attempts[c][n].protocol,
           attempts[c][n].compiled # "none" => a.compiled = attempts[c][n].compiled
    PROVE  Alone'
  <1>1. \A d \in Campaign, m \in Predecessor :
            /\ attempts[d][m] # NoAttempt <=> attempts'[d][m] # NoAttempt
            /\ attempts[d][m] # NoAttempt =>
                   /\ attempts'[d][m].tickets = attempts[d][m].tickets
                   /\ attempts'[d][m].evidence = attempts[d][m].evidence
                   /\ attempts[d][m].compiled # "none" =>
                          attempts'[d][m].compiled = attempts[d][m].compiled
            /\ attempts'[d][m].protocol = attempts[d][m].protocol
    <2>1. a # NoAttempt
      BY DEF AttemptValue, NoAttempt
    <2>2. \A d \in Campaign, m \in Predecessor :
              attempts'[d][m] = IF d = c /\ m = n THEN a ELSE attempts[d][m]
      BY DEF IInv, TypeOK
    <2> QED BY <2>1, <2>2
  <1>2. ASSUME NEW d \in Campaign, NEW m \in Predecessor, attempts[d][m] # NoAttempt
        PROVE  /\ Receipt(d, m, attempts'[d][m]) = Receipt(d, m, attempts[d][m])
               /\ Action(d, m, attempts'[d][m].evidence) = Action(d, m, attempts[d][m].evidence)
    BY <1>1, <1>2 DEF Receipt
  <1>3. ASSUME NEW d \in Campaign, NEW m \in Predecessor
        PROVE  SpentOnce(d, m)'
    <2> SUFFICES ASSUME Spent(d, m)'
                 PROVE  /\ attempts'[d][m].compiled = "plan"
                        /\ attempts'[d][m].protocol = "replan" =>
                               <<Action(d, m, attempts'[d][m].evidence), "successor">>
                                   \in classifications'
                        /\ ~ HasReservation(Action(d, m, attempts[d][m].evidence))'
      BY DEF SpentOnce
    <2>1. attempts[d][m] # NoAttempt
      BY <1>1 DEF Spent
    <2>2. Spent(d, m)
      BY <1>2, <2>1 DEF Spent, Rev
    <2>3. SpentOnce(d, m)
      BY DEF Alone
    <2>4. HasReservation(Action(d, m, attempts[d][m].evidence))' =>
              HasReservation(Action(d, m, attempts[d][m].evidence))
      BY <1>2, <2>1 DEF HasReservation
    <2> QED BY <1>1, <1>2, <2>1, <2>2, <2>3, <2>4 DEF SpentOnce
  <1>4. OneReservation'
    BY DEF Alone, OneReservation
  <1>5. PendingBacked'
    <2> SUFFICES ASSUME NEW r \in pending
                 PROVE  \E d \in Campaign, m \in Predecessor :
                            attempts'[d][m] # NoAttempt /\ r = Receipt(d, m, attempts'[d][m])
      BY DEF PendingBacked
    <2>1. PICK d \in Campaign, m \in Predecessor :
              attempts[d][m] # NoAttempt /\ r = Receipt(d, m, attempts[d][m])
      BY DEF Alone, PendingBacked
    <2> QED BY <1>1, <1>2, <2>1
  <1>6. ASSUME NEW d \in Campaign
        PROVE  Succession(d)'
    <2> SUFFICES ASSUME NEW m \in Predecessor
                 PROVE  /\ m < Rev(d) => attempts'[d][m] # NoAttempt
                        /\ attempts'[d][m].protocol = "replan" /\ m = Rev(d) =>
                               /\ activations[d] # NoReceipt
                               /\ attempts'[d][m].tickets = activations[d].tickets
      BY DEF Succession, Rev
    <2>1. Succession(d)
      BY DEF Alone
    <2>2. attempts[d][m].protocol = "replan" => attempts[d][m] # NoAttempt
      BY DEF NoAttempt
    <2> QED BY <1>1, <2>1, <2>2 DEF Succession
  <1> QED BY <1>3, <1>4, <1>5, <1>6 DEF Alone

LEMMA SavesAttemptAlone ==
    ASSUME IInv, Alone, NEW h \in Host, AloneAt(h), ReadOrSaveAttempt(h)
    PROVE  Alone' /\ AloneAt(h)'
  <1> USE DEF Later, Attempted, Starting, Classifying, Activating, Compiled
  <1>1. pc[h] = "attempt" /\ call[h] \in CallValue
    BY CallRev DEF ReadOrSaveAttempt
  <1>2. UNCHANGED <<planning, pending, activations, classifications>>
    BY DEF ReadOrSaveAttempt
  <1>3. CASE AttemptOf(h) # NoAttempt
    <2> DEFINE to == AfterAttempt(AttemptOf(h))
    <2>1. AttemptOf(h).tickets = call[h].tickets
      BY <1>3 DEF ReadOrSaveAttempt, MayAttempt
    <2>2. AttemptOf(h).protocol # "replan"
      BY <1>1, <2>1 DEF AloneAt
    <2>3. to \in {"intent", "release", "revision", "publish"}
      BY DEF AfterAttempt
    <2>4. to = "intent" => AttemptOf(h).compiled = "none"
      BY DEF AfterAttempt
    <2>5. Goto(h, to) /\ UNCHANGED attempts
      BY <1>3 DEF ReadOrSaveAttempt
    <2> HIDE DEF to
    <2>6. AloneAt(h)'
      BY <1>1, <1>2, <2>2, <2>3, <2>4, <2>5, GoesAlone
    <2> QED BY <1>2, <2>5, <2>6, Lessens
  <1>4. CASE AttemptOf(h) = NoAttempt
    <2>1. PICK c \in Campaign, n \in Predecessor : c = On(h) /\ n = Previous(h)
      BY <1>1, CallTyped DEF IInv
    <2>2. NewAttempt(h) \in AttemptValue
      BY <1>1 DEF NewAttempt, AttemptValue, CallValue
    <2>3. attempts' = [attempts EXCEPT ![c][n] = NewAttempt(h)] /\ Goto(h, "intent")
      BY <1>4, <2>1 DEF ReadOrSaveAttempt
    <2>4. pc'[h] = "intent" /\ On(h)' = On(h) /\ Previous(h)' = Previous(h)
      BY <1>1, <2>3, Went, TypeSplit DEF IInv
    <2>5. AttemptOf(h)' = NewAttempt(h)
      BY <2>1, <2>3, <2>4 DEF IInv, TypeOK, AttemptOf
    <2>6. NewAttempt(h).protocol = "plan" /\ NewAttempt(h).compiled = "none"
      BY DEF NewAttempt
    <2>7. attempts[c][n] = NoAttempt
      BY <1>4, <2>1 DEF AttemptOf
    <2>8. Alone'
      BY <1>2, <2>2, <2>3, <2>6, <2>7, AddsAttempt
    <2>9. AloneAt(h)'
      BY <2>4, <2>5, <2>6 DEF AloneAt
    <2> QED BY <2>8, <2>9
  <1> QED BY <1>3, <1>4

LEMMA CompilesAlone ==
    ASSUME IInv, Alone, NEW h \in Host, AloneAt(h), SaveCompiled(h) \/ SaveRevision(h)
    PROVE  Alone' /\ AloneAt(h)'
  <1> USE DEF Later, Attempted, Starting, Classifying, Activating, Compiled
  <1>1. pc[h] \in {"compile", "revision"} /\ AttemptOf(h) \in AttemptValue
    BY AttemptTyped DEF IInv, SaveCompiled, SaveRevision
  <1>2. PICK c \in Campaign, n \in Predecessor : c = On(h) /\ n = Previous(h)
    BY <1>1, CallTyped DEF IInv
  <1>3. UNCHANGED <<planning, pending, activations, classifications>>
    BY DEF SaveCompiled, SaveRevision
  <1>4. attempts[c][n] = AttemptOf(h) /\ attempts[c][n] # NoAttempt
    BY <1>1, <1>2 DEF AttemptOf, AttemptValue, NoAttempt
  <1>5. PICK a \in AttemptValue, to \in {"release", "revision", "publish"} :
            /\ attempts' = [attempts EXCEPT ![c][n] = a]
            /\ Goto(h, to)
            /\ a.tickets = AttemptOf(h).tickets
            /\ a.evidence = AttemptOf(h).evidence
            /\ a.protocol = AttemptOf(h).protocol
            /\ AttemptOf(h).compiled # "none" => a.compiled = AttemptOf(h).compiled
            /\ AttemptOf(h).protocol = "replan" => pc[h] = "revision"
    <2>1. CASE SaveRevision(h)
      <3> DEFINE b == [AttemptOf(h) EXCEPT !.revision = TRUE]
      <3>1. b \in AttemptValue
        BY <1>1 DEF AttemptValue
      <3>2. /\ b.tickets = AttemptOf(h).tickets
            /\ b.evidence = AttemptOf(h).evidence
            /\ b.protocol = AttemptOf(h).protocol
            /\ b.compiled = AttemptOf(h).compiled
        BY <1>1 DEF AttemptValue
      <3>3. attempts' = [attempts EXCEPT ![c][n] = b] /\ Goto(h, "publish")
        BY <1>2, <2>1 DEF SaveRevision, AttemptOf
      <3>4. pc[h] = "revision"
        BY <2>1 DEF SaveRevision
      <3> HIDE DEF b
      <3> QED BY <3>1, <3>2, <3>3, <3>4
    <2>2. CASE SaveCompiled(h)
      <3> DEFINE o == OutputOf(ActionOf(h))
                 b == [AttemptOf(h) EXCEPT !.compiled = o]
      <3>1. AttemptOf(h).protocol = "plan" /\ o \in {"plan", "decision"}
        BY <2>2, CompiledOutput DEF IInv, PlacedAt, SaveCompiled
      <3>2. b \in AttemptValue
        BY <1>1, <3>1 DEF AttemptValue
      <3>3. /\ b.tickets = AttemptOf(h).tickets
            /\ b.evidence = AttemptOf(h).evidence
            /\ b.protocol = AttemptOf(h).protocol
            /\ b.compiled = o
        BY <1>1 DEF AttemptValue
      <3>4. AttemptOf(h).compiled \in {"none", o}
        BY <2>2 DEF SaveCompiled, MayCompile
      <3>5. /\ attempts' = [attempts EXCEPT ![c][n] = b]
            /\ Goto(h, IF o = "decision" THEN "release" ELSE "revision")
        BY <1>2, <2>2 DEF SaveCompiled, AttemptOf
      <3> HIDE DEF b, o
      <3>6. PICK to \in {"release", "revision"} : Goto(h, to)
        BY <3>5
      <3> QED BY <3>1, <3>2, <3>3, <3>4, <3>5, <3>6
    <2> QED BY <2>1, <2>2
  <1>6. Alone'
    BY <1>3, <1>4, <1>5, ChangesAttempt
  <1>7. /\ pc'[h] = to /\ On(h)' = On(h) /\ Previous(h)' = Previous(h)
    BY <1>1, <1>5, Went, TypeSplit DEF IInv
  <1>8. AttemptOf(h)' = a
    BY <1>2, <1>5, <1>7 DEF IInv, TypeOK, AttemptOf
  <1>9. ActionOf(h)' = ActionOf(h)
    BY <1>5, <1>7, <1>8 DEF ActionOf
  <1>10. AttemptOf(h).protocol = "replan" => <<ActionOf(h), "successor">> \in classifications
    BY <1>5 DEF AloneAt
  <1>11. AloneAt(h)'
    BY <1>3, <1>5, <1>7, <1>8, <1>9, <1>10 DEF AloneAt
  <1> QED BY <1>6, <1>11

LEMMA CommitsAlone ==
    ASSUME IInv, Alone, NEW h \in Host, AloneAt(h), CommitSuccessor(h)
    PROVE  Alone' /\ AloneAt(h)'
  <1> USE DEF Later, Attempted, Starting, Classifying, Activating, Compiled
  <1>1. pc[h] = "commit" /\ call[h] \in CallValue
    BY CallRev DEF CommitSuccessor
  <1>2. PICK c \in Campaign, n \in Predecessor : c = On(h) /\ n = Previous(h)
    BY <1>1, CallTyped DEF IInv
  <1>3. Successor(h) \in AttemptValue
    BY <1>1 DEF Successor, AttemptValue, CallValue
  <1>4. /\ attempts' = [attempts EXCEPT ![c][n] = Successor(h)]
        /\ Goto(h, "record") \/ End(h)
        /\ UNCHANGED <<planning, pending, activations, classifications>>
    BY <1>2 DEF CommitSuccessor
  <1>5. attempts[c][n] = AttemptOf(h)
    BY <1>2 DEF AttemptOf
  <1>6. /\ Previous(h) = Rev(On(h)) /\ activations[On(h)] # NoReceipt
        /\ call[h].tickets = activations[On(h)].tickets
    BY <1>1 DEF AloneAt
  <1>7. Alone'
    <2>1. CASE AttemptOf(h) = NoAttempt
      <3>1. Successor(h).tickets = activations[c].tickets /\ activations[c] # NoReceipt
        BY <1>2, <1>6 DEF Successor
      <3> QED BY <1>3, <1>4, <1>5, <2>1, <3>1, AddsAttempt
    <2>2. CASE AttemptOf(h) = Successor(h)
      <3>1. Successor(h) # NoAttempt
        BY <1>3 DEF AttemptValue, NoAttempt
      <3> QED BY <1>3, <1>4, <1>5, <2>2, <3>1, ChangesAttempt
    <2> QED BY <2>1, <2>2 DEF CommitSuccessor, MayCommit
  <1>8. AloneAt(h)'
    <2>1. CASE End(h)
      BY <2>1, EndsAlone
    <2>2. CASE Goto(h, "record")
      <3>1. /\ pc'[h] = "record" /\ call'[h] = call[h]
            /\ On(h)' = On(h) /\ Previous(h)' = Previous(h)
        BY <1>1, <2>2, Went, TypeSplit DEF IInv
      <3>2. Rev(On(h))' = Rev(On(h)) /\ activations'[On(h)'] = activations[On(h)]
        BY <1>4, <3>1 DEF Rev
      <3> QED BY <1>6, <3>1, <3>2 DEF AloneAt
    <2> QED BY <1>4, <2>1, <2>2
  <1> QED BY <1>7, <1>8

\* One reservation more, of an action whose reservation was not used before.
LEMMA ReservesOne ==
    ASSUME Alone, NEW r, planning' = planning \cup {r},
           r \in planning \/ ~ HasReservation(r.action),
           UNCHANGED <<attempts, pending, activations, classifications>>,
           \A c \in Campaign, n \in Predecessor :
               Spent(c, n) => Action(c, n, attempts[c][n].evidence) # r.action
    PROVE  Alone'
  <1>1. ASSUME NEW c \in Campaign, NEW n \in Predecessor
        PROVE  SpentOnce(c, n)'
    <2> DEFINE x == Action(c, n, attempts[c][n].evidence)
    <2>1. Spent(c, n)' => Spent(c, n)
      BY DEF Spent, Rev
    <2>2. Spent(c, n) /\ HasReservation(x)' => HasReservation(x)
      BY DEF HasReservation
    <2>3. SpentOnce(c, n)
      BY DEF Alone
    <2> QED BY <2>1, <2>2, <2>3 DEF SpentOnce
  <1>2. OneReservation'
    BY DEF Alone, OneReservation, HasReservation
  <1>3. PendingBacked'
    BY DEF Alone, PendingBacked
  <1>4. \A c \in Campaign : Succession(c)'
    BY DEF Alone, Succession, Rev
  <1> QED BY <1>1, <1>2, <1>3, <1>4 DEF Alone

LEMMA ReservesPlanningAlone ==
    ASSUME IInv, Alone, NEW h \in Host, AloneAt(h), ReservePlanning(h)
    PROVE  Alone' /\ AloneAt(h)'
  <1> USE DEF Later, Attempted, Starting, Classifying, Activating, Compiled
  <1> DEFINE r == Reservation(On(h), Previous(h), AttemptOf(h))
  <1>1. pc[h] = "intent" /\ AttemptOf(h).compiled = "none"
    BY DEF ReservePlanning, AloneAt
  <1>2. /\ planning' = planning \cup {r} /\ Goto(h, "progress")
        /\ UNCHANGED <<attempts, pending, activations, classifications>>
    BY DEF ReservePlanning
  <1>3. r.action = ActionOf(h)
    BY DEF Reservation, ActionOf
  <1>4. r \in planning \/ ~ HasReservation(r.action)
    BY <1>3 DEF ReservePlanning, MayReservePlanning
  <1>5. ASSUME NEW c \in Campaign, NEW n \in Predecessor, Spent(c, n)
        PROVE  Action(c, n, attempts[c][n].evidence) # r.action
    <2> SUFFICES ASSUME Action(c, n, attempts[c][n].evidence) = ActionOf(h)
                 PROVE  FALSE
      BY <1>3
    <2>1. c = On(h) /\ n = Previous(h)
      BY ActionSame DEF ActionOf
    <2>2. SpentOnce(c, n)
      BY DEF Alone
    <2> QED BY <1>1, <1>5, <2>1, <2>2 DEF SpentOnce, AttemptOf
  <1> HIDE DEF r
  <1>6. Alone'
    BY <1>2, <1>4, <1>5, ReservesOne
  <1>7. AloneAt(h)'
    BY <1>1, <1>2, GoesAlone
  <1> QED BY <1>6, <1>7

LEMMA ReservesReplanningAlone ==
    ASSUME IInv, RecoverAll, Alone, NEW h \in Host, AloneAt(h), ReserveReplanning(h)
    PROVE  Alone' /\ AloneAt(h)'
  <1> USE DEF Later, Attempted, Starting, Classifying, Activating, Compiled
  <1> DEFINE r == EvidenceReservation(h)
  <1>1. pc[h] = "classify" /\ call[h].evidence # {}
    BY DEF ReserveReplanning, RecoverAll, CallInv
  <1>2. /\ planning' = planning \cup {r}
        /\ pc' = [pc EXCEPT ![h] = "recover"]
        /\ call' = [call EXCEPT ![h].retained = EvidenceReservation(h) \in planning]
        /\ UNCHANGED <<attempts, pending, activations, classifications>>
    BY DEF ReserveReplanning
  <1>3. r.action = EvidenceAction(h)
    BY DEF EvidenceReservation
  <1>4. r \in planning \/ ~ HasReservation(r.action)
    BY <1>3 DEF ReserveReplanning, MayConsult
  <1>5. ASSUME NEW c \in Campaign, NEW n \in Predecessor, Spent(c, n)
        PROVE  Action(c, n, attempts[c][n].evidence) # r.action
    <2> SUFFICES ASSUME Action(c, n, attempts[c][n].evidence) = EvidenceAction(h)
                 PROVE  FALSE
      BY <1>3
    <2>1. attempts[c][n].evidence = call[h].evidence
      BY ActionSame DEF EvidenceAction
    <2>2. attempts[c][n] \in AttemptValue
      BY <1>5 DEF Spent, IInv, TypeOK
    <2>3. attempts[c][n].protocol = "replan"
      BY <1>1, <2>1, <2>2 DEF AttemptValue
    <2>4. <<EvidenceAction(h), "successor">> \in classifications
      BY <1>5, <2>3 DEF Alone, SpentOnce
    <2>5. <<EvidenceAction(h), "successor">>[1] = EvidenceAction(h)
      OBVIOUS
    <2>6. Classified(h)
      BY <2>4, <2>5 DEF Classified
    <2> QED BY <2>6 DEF ReserveReplanning
  <1> HIDE DEF r
  <1>6. Alone'
    BY <1>2, <1>4, <1>5, ReservesOne
  <1>7. call[h] \in CallValue
    BY <1>1, CallRev
  <1>8. /\ pc'[h] = "recover" /\ call'[h].tickets = call[h].tickets
        /\ call'[h].campaign = call[h].campaign /\ call'[h].previous = call[h].previous
    BY <1>2, <1>7 DEF IInv, TypeOK, CallValue
  <1>9. On(h)' = On(h) /\ Previous(h)' = Previous(h)
    BY <1>8 DEF On, Previous
  <1>10. Rev(On(h))' = Rev(On(h)) /\ activations'[On(h)'] = activations[On(h)]
    BY <1>2, <1>9 DEF Rev
  <1>11. AloneAt(h)'
    BY <1>1, <1>8, <1>9, <1>10 DEF AloneAt
  <1> QED BY <1>6, <1>11

LEMMA ReservesClaimsAlone ==
    ASSUME IInv, RecoverAll, Alone, NEW h \in Host, AloneAt(h), ReserveClaims(h)
    PROVE  Alone' /\ AloneAt(h)'
  <1> USE DEF Later, Attempted, Starting, Classifying, Activating, Compiled
  <1>1. pc[h] = "reserve" /\ Goto(h, "first")
        /\ UNCHANGED <<attempts, activations, classifications>>
    BY DEF ReserveClaims
  <1>2. AttemptOf(h).protocol = "replan" => <<ActionOf(h), "successor">> \in classifications
    BY <1>1 DEF AloneAt
  <1>3. AloneAt(h)'
    BY <1>1, <1>2, GoesAlone
  <1>4. CASE ReceiptOf(h) \in pending
    BY <1>1, <1>3, <1>4, Lessens DEF ReserveClaims
  <1>5. CASE ReceiptOf(h) \notin pending
    <2> DEFINE y == Reservation(On(h), Previous(h), AttemptOf(h))
    <2>1. /\ pending' = pending \cup {ReceiptOf(h)} /\ planning' = planning \ {y}
          /\ y \in planning
      BY <1>5 DEF ReserveClaims, MayReserve
    <2>2. y.action = ActionOf(h)
      BY DEF Reservation, ActionOf
    <2> HIDE DEF y
    <2>3. PICK c \in Campaign, n \in Predecessor : c = On(h) /\ n = Previous(h)
      BY <1>1, CallTyped DEF IInv
    <2>4. AttemptOf(h) = attempts[c][n] /\ attempts[c][n] # NoAttempt
      BY <1>1, <2>3 DEF IInv, PlacedAt, AttemptOf
    <2>5. ASSUME NEW d \in Campaign, NEW m \in Predecessor
          PROVE  SpentOnce(d, m)'
      <3> DEFINE x == Action(d, m, attempts[d][m].evidence)
      <3>1. CASE d = c /\ m = n
        <4>1. x = ActionOf(h)
          BY <2>3, <2>4, <3>1 DEF ActionOf
        <4>2. ~ HasReservation(x)'
          BY <1>1, <2>1, <2>2, <4>1 DEF Alone, OneReservation, HasReservation
        <4>3. attempts[c][n].compiled = "plan"
          BY <1>1, <2>4 DEF RecoverAll, CallInv
        <4> QED BY <1>1, <1>2, <2>4, <3>1, <4>1, <4>2, <4>3 DEF SpentOnce
      <3>2. CASE ~ (d = c /\ m = n)
        <4>1. Receipt(d, m, attempts[d][m]) # ReceiptOf(h)
          <5>1. m \in Nat /\ n \in Nat
            BY PredecessorNat
          <5>2. ReceiptOf(h) = Receipt(c, n, attempts[c][n])
            BY <2>3, <2>4 DEF ReceiptOf
          <5> QED BY <3>2, <5>1, <5>2, ReceiptSame
        <4>2. Spent(d, m)' => Spent(d, m)
          BY <1>1, <2>1, <4>1 DEF Spent, Rev
        <4>3. HasReservation(x)' => HasReservation(x)
          BY <1>1, <2>1 DEF HasReservation
        <4>4. SpentOnce(d, m)
          BY DEF Alone
        <4> QED BY <1>1, <4>2, <4>3, <4>4 DEF SpentOnce
      <3> QED BY <3>1, <3>2
    <2>6. OneReservation'
      BY <2>1 DEF Alone, OneReservation
    <2>7. PendingBacked'
      <3>1. ReceiptOf(h) = Receipt(c, n, attempts[c][n])
        BY <2>3, <2>4 DEF ReceiptOf
      <3> QED BY <1>1, <2>1, <2>4, <3>1 DEF Alone, PendingBacked
    <2>8. \A d \in Campaign : Succession(d)'
      BY <1>1 DEF Alone, Succession, Rev
    <2> QED BY <1>3, <2>5, <2>6, <2>7, <2>8 DEF Alone
  <1> QED BY <1>4, <1>5

LEMMA ActivatesAlone ==
    ASSUME IInv, RecoverAll, Alone, NEW h \in Host, AloneAt(h), Activate(h)
    PROVE  Alone' /\ AloneAt(h)'
  <1> USE DEF Later, Attempted, Starting, Classifying, Activating, Compiled
  <1>1. pc[h] = "activate" /\ Goto(h, "finalize")
        /\ UNCHANGED <<attempts, planning, pending, classifications>>
    BY DEF Activate
  <1>2. AloneAt(h)'
    <2>1. /\ pc'[h] = "finalize" /\ call'[h] = call[h]
          /\ On(h)' = On(h) /\ Previous(h)' = Previous(h)
      BY <1>1, Went, TypeSplit DEF IInv
    <2>2. AttemptOf(h)' = AttemptOf(h)
      BY <1>1, <2>1 DEF AttemptOf
    <2>3. ActionOf(h)' = ActionOf(h)
      BY <2>1, <2>2 DEF ActionOf
    <2>4. AttemptOf(h).protocol = "replan" => <<ActionOf(h), "successor">> \in classifications
      BY <1>1 DEF AloneAt
    <2> QED BY <1>1, <2>1, <2>2, <2>3, <2>4 DEF AloneAt
  <1>3. PICK c \in Campaign, n \in Predecessor : c = On(h) /\ n = Previous(h)
    BY <1>1, CallTyped DEF IInv
  <1>4. attempts[c][n] # NoAttempt /\ ReceiptOf(h) = Receipt(c, n, attempts[c][n])
    BY <1>1, <1>3 DEF IInv, PlacedAt, AttemptOf, ReceiptOf
  <1>5. /\ activations' = [activations EXCEPT ![c] = Receipt(c, n, attempts[c][n])]
        /\ Rev(c) = n \/ activations[c] = Receipt(c, n, attempts[c][n])
    BY <1>3, <1>4 DEF Activate, Swap, Rev
  <1>6. \A d \in Campaign : activations'[d] =
            IF d = c THEN Receipt(c, n, attempts[c][n]) ELSE activations[d]
    BY <1>5 DEF IInv, TypeOK
  <1>7. CASE activations[c] = Receipt(c, n, attempts[c][n])
    <2>1. activations' = activations
      BY <1>5, <1>7 DEF IInv, TypeOK
    <2> QED BY <1>1, <1>2, <2>1, Lessens
  <1>8. CASE Rev(c) = n
    <2>1. n \in Nat
      BY PredecessorNat
    <2>2. Receipt(c, n, attempts[c][n]) \in pending
      <3>1. ReceiptOf(h) \in pending \/ Previous(h) < Rev(On(h))
        BY <1>1 DEF RecoverAll, CallInv
      <3>2. ~ Previous(h) < Rev(On(h))
        BY <1>3, <1>8, <2>1
      <3> QED BY <1>4, <3>1, <3>2
    <2>3. Rev(c)' = n + 1
      BY <1>6 DEF Rev, Receipt
    <2>4. \A d \in Campaign : d # c => Rev(d)' = Rev(d)
      BY <1>6 DEF Rev
    <2>5. ASSUME NEW d \in Campaign, NEW m \in Predecessor
          PROVE  SpentOnce(d, m)'
      <3> DEFINE x == Action(d, m, attempts[d][m].evidence)
      <3>1. m \in Nat
        BY PredecessorNat
      <3>2. Spent(d, m)' => Spent(d, m)
        <4>1. CASE d = c /\ m = n
          BY <1>4, <2>2, <4>1 DEF Spent
        <4>2. CASE d = c /\ m # n
          BY <1>1, <1>8, <2>1, <2>3, <3>1, <4>2 DEF Spent
        <4>3. CASE d # c
          BY <1>1, <2>4, <4>3 DEF Spent
        <4> QED BY <4>1, <4>2, <4>3
      <3>3. HasReservation(x)' => HasReservation(x)
        BY <1>1 DEF HasReservation
      <3>4. SpentOnce(d, m)
        BY DEF Alone
      <3> QED BY <1>1, <3>2, <3>3, <3>4 DEF SpentOnce
    <2>6. OneReservation' /\ PendingBacked'
      BY <1>1 DEF Alone, OneReservation, PendingBacked
    <2>7. ASSUME NEW d \in Campaign
          PROVE  Succession(d)'
      <3>1. CASE d # c
        BY <1>1, <1>6, <2>4, <3>1 DEF Alone, Succession
      <3>2. CASE d = c
        <4> SUFFICES ASSUME NEW m \in Predecessor
                     PROVE  /\ m < n + 1 => attempts[c][m] # NoAttempt
                            /\ attempts[c][m].protocol = "replan" => m # n + 1
          BY <1>1, <2>3, <3>2 DEF Succession
        <4>1. m \in Nat
          BY PredecessorNat
        <4>2. m < n => attempts[c][m] # NoAttempt
          BY <1>8 DEF Alone, Succession
        <4>3. attempts[c][m].protocol = "replan" => attempts[c][m] # NoAttempt
          BY DEF NoAttempt
        <4>4. attempts[c][m] # NoAttempt => m =< n
          BY <1>8 DEF RecoverAll, CampaignInv, AttemptFollows
        <4> QED BY <1>4, <2>1, <4>1, <4>2, <4>3, <4>4
      <3> QED BY <3>1, <3>2
    <2> QED BY <1>2, <2>5, <2>6, <2>7 DEF Alone
  <1> QED BY <1>5, <1>7, <1>8

LEMMA BeginsAlone ==
    ASSUME IInv, Alone, NEW h \in Host, NEW local \in CallValue,
           NEW to \in {"roll", "attempt", "successor", "classify"}, Begin(h, local, to),
           to \in {"roll", "attempt"} =>
               (attempts[local.campaign][local.previous].protocol = "replan" =>
                   /\ to = "roll"
                   /\ \/ ~ local.explicit /\ local.active.tickets = local.tickets
                      \/ attempts[local.campaign][local.previous].tickets # local.tickets),
           to = "classify" =>
               /\ local.previous = Rev(local.campaign)
               /\ activations[local.campaign] # NoReceipt
               /\ local.tickets = activations[local.campaign].tickets
    PROVE  Alone' /\ AloneAt(h)'
  <1> USE DEF Starting, Classifying, Activating, Compiled
  <1>1. /\ pc'[h] = to /\ call'[h] = local
        /\ On(h)' = local.campaign /\ Previous(h)' = local.previous
    BY TypeSplit, Begun DEF IInv
  <1>2. UNCHANGED tables
    BY DEF Begin
  <1>3. AttemptOf(h)' = attempts[local.campaign][local.previous]
    BY <1>1, <1>2 DEF AttemptOf, tables
  <1>4. Rev(On(h))' = Rev(local.campaign)
        /\ activations'[On(h)'] = activations[local.campaign]
    BY <1>1, <1>2 DEF Rev, tables
  <1>5. AloneAt(h)'
    BY <1>1, <1>3, <1>4 DEF AloneAt
  <1>6. Alone'
    BY <1>2, Lessens DEF tables
  <1> QED BY <1>5, <1>6

LEMMA StartsAlone ==
    ASSUME IInv, Alone, NEW h \in Host, NEW c \in Campaign, NEW S \in Ready[c],
           Start(h, c, S)
    PROVE  Alone' /\ AloneAt(h)'
  <1> DEFINE local == CallOn(c, S, FALSE, activations[c].revision, {})
             to == IF activations[c] = NoReceipt THEN "attempt" ELSE "roll"
  <1>1. S \in SUBSET Ticket
    BY ReadyAssumption
  <1>2. Rev(c) \in Nat /\ (Rev(c) = 0 <=> activations[c] = NoReceipt)
    BY RevTyped
  <1>3. Rev(c) \in 0 .. Limit[c] /\ Limit[c] \in Nat \ {0}
    BY BoundAssumption DEF IInv, WithinLimit, Rev
  <1>4. Rev(c) # Limit[c] => Rev(c) \in Predecessor
    <2>1. Rev(c) # Limit[c] => Rev(c) \in 0 .. Limit[c] - 1
      BY <1>3
    <2> QED BY <2>1, Bounds
  <1>5. Rev(c) \in Predecessor \cup Revision
    <2>1. Rev(c) # 0 => Rev(c) \in 1 .. Limit[c]
      BY <1>3
    <2>2. 0 # Limit[c]
      BY <1>3
    <2> QED BY <1>4, <2>1, <2>2 DEF Revision
  <1>6. local \in CallValue
    BY <1>1, <1>5, LocalTyped DEF IInv, Rev
  <1>7. /\ local.campaign = c /\ local.tickets = S /\ local.previous = Rev(c)
        /\ local.active = activations[c] /\ local.explicit = FALSE
    BY DEF CallOn, Rev
  <1>8. Begin(h, local, to) /\ (Rev(c) = Limit[c] => activations[c].tickets = S)
    BY DEF Start, Rev
  <1>9. Rev(c) \in Predecessor /\ attempts[c][Rev(c)].protocol = "replan" =>
            activations[c] # NoReceipt /\ attempts[c][Rev(c)].tickets = activations[c].tickets
    BY DEF Alone, Succession
  <1>10. to \in {"roll", "attempt"} /\ (to = "attempt" => activations[c] = NoReceipt)
    OBVIOUS
  <1> HIDE DEF local, to
  <1>11. attempts[c][Rev(c)].protocol = "replan" =>
             /\ to = "roll"
             /\ activations[c].tickets = S \/ attempts[c][Rev(c)].tickets # S
    BY <1>2, <1>3, <1>4, <1>8, <1>9, <1>10
  <1> QED BY <1>6, <1>7, <1>8, <1>10, <1>11, BeginsAlone

LEMMA StartsSuccessorAlone ==
    ASSUME IInv, Alone, NEW h \in Host, NEW c \in Campaign, NEW S \in Ready[c],
           NEW n \in Planned, StartSuccessor(h, c, S, n)
    PROVE  Alone' /\ AloneAt(h)'
  <1> DEFINE local == CallOn(c, S, TRUE, n, {})
             to == IF attempts[c][n].protocol = "replan" THEN "successor" ELSE "roll"
  <1>1. S \in SUBSET Ticket /\ n \in Predecessor
    BY ReadyAssumption DEF Planned
  <1>2. local \in CallValue
    BY <1>1, LocalTyped DEF IInv
  <1>3. local.campaign = c /\ local.previous = n
    BY DEF CallOn
  <1>4. Begin(h, local, to) /\ to \in {"roll", "successor"}
        /\ (to = "roll" => attempts[c][n].protocol # "replan")
    BY DEF StartSuccessor
  <1> HIDE DEF local, to
  <1> QED BY <1>2, <1>3, <1>4, BeginsAlone

LEMMA AdvancesAlone ==
    ASSUME IInv, RecoverAll, Alone, NEW h \in Host, NEW c \in Campaign, Advance(h, c)
    PROVE  Alone' /\ AloneAt(h)'
  <1> DEFINE n == activations[c].revision
  <1>1. PICK es \in {evidence[c][n], settled[c][n]}, to \in {"classify", "successor"} :
            Begin(h, CallOn(c, activations[c].tickets, FALSE, n, es), to)
    BY DEF Advance
  <1> DEFINE local == CallOn(c, activations[c].tickets, FALSE, n, es)
  <1>2. n \in Planned /\ activations[c] # NoReceipt
    BY DEF Advance, Readable
  <1>3. activations[c].tickets \in SUBSET Ticket
    BY <1>2, ActiveOwn DEF RecoverAll
  <1>4. es \in SUBSET Evidence
    BY <1>2 DEF IInv, TypeOK
  <1>5. local \in CallValue
    BY <1>2, <1>3, <1>4, LocalTyped DEF IInv, Planned
  <1>6. /\ local.campaign = c /\ local.previous = Rev(c)
        /\ local.tickets = activations[c].tickets
    BY DEF CallOn, Rev
  <1>7. Begin(h, local, to)
    BY <1>1
  <1> HIDE DEF local, n
  <1> QED BY <1>1, <1>2, <1>5, <1>6, <1>7, BeginsAlone

LEMMA StepsAlone ==
    ASSUME IInv, RecoverAll, Alone, NEW h \in Host, AloneAt(h), Step(h) \/ Abandon(h)
    PROVE  Alone' /\ AloneAt(h)'
  <1>1. CASE \/ Split(h) \/ PlanPending(h) \/ Settle(h) \/ Refuse(h) \/ Abandon(h)
             \/ ReleaseDecision(h) \/ LoseActivation(h) \/ FinalizeClaims(h)
    BY <1>1, EndingAlone
  <1>2. CASE \/ Publish(h) \/ ReplayClassification(h) \/ NotCommitted(h)
             \/ RecoverClassification(h) \/ PublishRevision(h) \/ Succeed(h)
             \/ (\E o \in Outcome : Plan(h, o) \/ Consult(h, o))
             \/ RecordClassification(h) \/ Relinquish(h)
    BY <1>2, GoingAlone
  <1>3. CASE RollForward(h)
    BY <1>3, RollsAlone
  <1>4. CASE ReadOrSaveAttempt(h) \/ SaveCompiled(h) \/ SaveRevision(h) \/ CommitSuccessor(h)
    BY <1>4, SavesAttemptAlone, CompilesAlone, CommitsAlone
  <1>5. CASE ReservePlanning(h) \/ ReserveReplanning(h)
    BY <1>5, ReservesPlanningAlone, ReservesReplanningAlone
  <1>6. CASE ReserveClaims(h) \/ Activate(h)
    BY <1>6, ReservesClaimsAlone, ActivatesAlone
  <1> QED BY <1>1, <1>2, <1>3, <1>4, <1>5, <1>6 DEF Step

\* Steps outside the calls.
LEMMA StaysAlone ==
    ASSUME IInv, Alone, NEW h \in Host, AloneAt(h),
           \/ \E c \in Campaign, e \in Evidence : Report(c, e)
           \/ Drain
           \/ UNCHANGED vars
    PROVE  Alone' /\ AloneAt(h)'
  <1>1. UNCHANGED <<tables, pc, call>>
    BY DEF Report, Drain, vars
  <1>2. Alone'
    BY <1>1, Lessens DEF tables
  <1>3. AloneAt(h)'
    BY <1>1 DEF AloneAt, AttemptOf, ActionOf, On, Previous, Rev, tables
  <1> QED BY <1>2, <1>3

LEMMA OneCallInductive ==
    ASSUME NEW p, Host = {p}, IInv, RInv, renewed = {}, Alone, AloneAt(p), [Next]_vars
    PROVE  renewed' = {} /\ Alone' /\ AloneAt(p)'
  <1>1. ReservedOnce /\ RecoverAll
    BY AloneReservesOnce, AllRecover
  <1>a. p \in Host /\ \A h \in Host : h = p
    OBVIOUS
  <1>2. renewed' = {}
    <2>1. ASSUME NEW h \in Host, ReserveClaims(h), ReceiptOf(h) \notin pending
          PROVE  renewed' = {}
      <3>1. PICK c \in Campaign, n \in Predecessor : c = On(h) /\ n = Previous(h)
        BY <2>1, CallTyped DEF IInv, ReserveClaims, Later, Activating
      <3>2. attempts[c][n] = AttemptOf(h) /\ attempts[c][n] # NoAttempt
        BY <2>1, <3>1 DEF IInv, PlacedAt, AttemptOf, ReserveClaims, Attempted, Later,
           Starting, Classifying, Activating
      <3>3. Reservation(c, n, attempts[c][n]) \in planning
        BY <2>1, <3>1, <3>2 DEF ReserveClaims, MayReserve
      <3>4. HasReservation(Action(c, n, attempts[c][n].evidence))
        BY <3>3 DEF HasReservation, Reservation
      <3>5. activations[c].revision =< n
        BY <1>1, <3>2, <3>4 DEF ReservedOnce
      <3>6. n \in Nat /\ activations[c].revision \in Nat
        BY PredecessorNat, RevTyped DEF Rev
      <3>7. renewed' = renewed \cup {d \in {c} : n < activations[d].revision}
        BY <2>1, <3>1 DEF ReserveClaims
      <3> QED BY <3>5, <3>6, <3>7
    <2>2. ASSUME NEW h \in Host, ReserveClaims(h), ReceiptOf(h) \in pending
          PROVE  renewed' = renewed
      BY <2>2 DEF ReserveClaims
    <2> QED BY <2>1, <2>2, OnlyReservesRenew
  <1>3. ASSUME NEW h \in Host, Step(h) \/ Abandon(h) PROVE Alone' /\ AloneAt(p)'
    BY <1>1, <1>a, <1>3, StepsAlone
  <1>4. ASSUME NEW h \in Host, NEW c \in Campaign, Advance(h, c)
        PROVE  Alone' /\ AloneAt(p)'
    BY <1>1, <1>a, <1>4, AdvancesAlone
  <1>5. ASSUME NEW h \in Host, NEW c \in Campaign, NEW S \in Ready[c], Start(h, c, S)
        PROVE  Alone' /\ AloneAt(p)'
    BY <1>a, <1>5, StartsAlone
  <1>6. ASSUME NEW h \in Host, NEW c \in Campaign, NEW S \in Ready[c],
               NEW n \in Planned, StartSuccessor(h, c, S, n)
        PROVE  Alone' /\ AloneAt(p)'
    BY <1>a, <1>6, StartsSuccessorAlone
  <1>7. ASSUME \/ \E c \in Campaign, e \in Evidence : Report(c, e)
               \/ Drain
               \/ UNCHANGED vars
        PROVE  Alone' /\ AloneAt(p)'
    BY <1>a, <1>7, StaysAlone
  <1> QED BY <1>2, <1>3, <1>4, <1>5, <1>6, <1>7 DEF Next

LEMMA InitAlone ==
    ASSUME Init, NEW h \in Host
    PROVE  Alone /\ AloneAt(h)
  <1>1. \A c \in Campaign, n \in Predecessor : attempts[c][n] = NoAttempt
    BY DEF Init
  <1>2. \A c \in Campaign, n \in Predecessor : SpentOnce(c, n)
    BY <1>1 DEF SpentOnce, Spent
  <1>3. OneReservation /\ PendingBacked
    BY DEF Init, OneReservation, PendingBacked
  <1>4. \A c \in Campaign : Succession(c)
    <2>1. \A n \in Predecessor : ~ n < 0
      BY PredecessorNat
    <2>2. \A c \in Campaign : Rev(c) = 0
      BY DEF Init, Rev, NoReceipt
    <2> QED BY <1>1, <2>1, <2>2 DEF Succession, NoAttempt
  <1>5. AloneAt(h)
    BY DEF Init, AloneAt, Compiled, Classifying
  <1> QED BY <1>2, <1>3, <1>4, <1>5 DEF Alone

\* One call at a time, which may die or lose its answer after any transaction,
\* makes no committed activation pending again: nothing is exempted then
\* (_validate_active_receipt_once, reserve_claims).
THEOREM OneCallRenewsNothing ==
    ASSUME NEW p, Host = {p}
    PROVE  Spec => [](renewed = {})
  <1> DEFINE J == renewed = {} /\ Alone /\ AloneAt(p)
  <1>1. Init => J
    <2>1. Init => renewed = {}
      BY DEF Init
    <2> QED BY <2>1, InitAlone
  <1>2. IInv /\ RInv /\ J /\ [Next]_vars => J'
    BY OneCallInductive
  <1>3. J => renewed = {}
    OBVIOUS
  <1> HIDE DEF J
  <1> QED BY Inductive, RecoversInductive, <1>1, <1>2, <1>3, PTL DEF Spec

=============================================================================
