-------------------------- MODULE ClaimLedger_proof --------------------------
(***************************************************************************)
(* Proofs about ClaimLedger, for any processes, actions, tokens and        *)
(* bounds.  The inductive invariant adds to the properties that running    *)
(* calls have different tokens, and that a call about to take a claim over *)
(* has seen a terminal outcome.                                            *)
(***************************************************************************)
EXTENDS ClaimLedger, TLAPS

TokensDiffer ==
    \A g, h \in Host :
        g # h /\ pc[g] \in Calling /\ pc[h] \in Calling
            => call[g].token # call[h].token

ProbedTerminal ==
    \A h \in Host : pc[h] = "takeover" => provider[On(h)] = "terminal"

SameCall(h) ==
    /\ pc[h] \in Calling
    /\ call'[h].token = call[h].token /\ call'[h].action = call[h].action

USE DEF Action

\* A claim in flight is a pair of a token and an age.
LEMMA InFlightClaim ==
    ASSUME NEW a \in Action, claims[a] \in ClaimValue, InFlight(a)
    PROVE  \E t \in Token, old \in BOOLEAN : claims[a] = Claim(t, old)
  BY DEF ClaimValue, InFlight, Unclaimed, Completed, Claim

\* What the transactions write into a claim is a claim.
LEMMA ClaimTyped ==
    /\ Unclaimed \in ClaimValue /\ Completed \in ClaimValue
    /\ \A t \in Token, old \in BOOLEAN : Claim(t, old) \in ClaimValue
  BY DEF ClaimValue

\* A call that ends leaves no locals behind.
LEMMA AbandonTyped ==
    ASSUME TypeOK, NEW h \in Host, Abandon(h),
           crashes' \in 0 .. MaxCrash, failures' \in 0 .. MaxFailure, slow' \in 0 .. MaxSlow
    PROVE  TypeOK'
  BY DEF TypeOK, Abandon, tables, PcValue, Calling, Executing, ReplayValue

\* A step that only changes the locals of a running call.
LEMMA LocalsTyped ==
    ASSUME TypeOK, NEW h \in Host, NEW to \in Calling \ {"record"}, NEW locals \in CallValue,
           pc' = [pc EXCEPT ![h] = to], call' = [call EXCEPT ![h] = locals],
           claims' \in [Action -> ClaimValue], provider' \in [Action -> ProviderValue],
           UNCHANGED <<receipts, consumed, replayed, budget>>
    PROVE  TypeOK'
  BY DEF TypeOK, budget, PcValue, Calling, Executing

\* A step that answers the kernel.
LEMMA AnswerTyped ==
    ASSUME TypeOK, NEW h \in Host, NEW a \in Action, NEW o \in Observation,
           Answer(h, a, o), claims' \in [Action -> ClaimValue],
           receipts' \in [Action -> Observation \cup {NoReceipt}],
           UNCHANGED <<consumed, provider, replayed, budget>>
    PROVE  TypeOK'
  BY DEF TypeOK, Answer, budget, PcValue, Calling, Executing, AnswerValue

\* Every variable keeps its type: a call's locals exist from its token to its
\* answer, and the bounds are never exceeded.
THEOREM TypeCorrect == Spec => []TypeOK
  <1>1. Init => TypeOK
    BY BoundAssumption DEF Init, TypeOK, ClaimValue, ProviderValue, ReplayValue,
       PcValue, NoReceipt, Calling, Executing
  <1>2. TypeOK /\ [Next]_vars => TypeOK'
    <2> SUFFICES ASSUME TypeOK, [Next]_vars
                 PROVE  TypeOK'
      OBVIOUS
    <2> USE DEF TypeOK, On, Goto, budget, tables
    <2>1. ASSUME NEW h \in Host, AdvanceSteps(h) PROVE TypeOK'
      <3>1. CASE Begin(h)
        BY <3>1 DEF Begin, PcValue, Calling, Executing, ReplayValue
      <3>2. CASE End(h)
        BY <3>2 DEF End, PcValue, Calling, Executing, ReplayValue
      <3>3. CASE Settle(h)
        BY <3>3 DEF Settle, PcValue, Calling, Executing, AnswerValue
      <3>4. ASSUME NEW a \in Action, Replay(h, a) PROVE TypeOK'
        BY <3>4 DEF Replay, ReadBack, Answer, ReplayKind, PcValue, Calling,
           Executing, ReplayValue, AnswerValue
      <3>5. ASSUME NEW a \in Action, Enter(h, a) PROVE TypeOK'
        BY <3>5 DEF Enter, IsFresh, PcValue, Calling, Executing, CallValue
      <3> QED BY <2>1, <3>1, <3>2, <3>3, <3>4, <3>5 DEF AdvanceSteps
    <2>2. ASSUME NEW h \in Host, CallSteps(h) PROVE TypeOK'
      <3> USE DEF PcValue, Calling, Executing, CallValue
      <3>0. pc[h] \in Calling => On(h) \in Action /\ call[h].token \in Token
        OBVIOUS
      <3>1. CASE Reserve(h)
        BY <3>0, <3>1, ClaimTyped DEF Reserve
      <3>2. CASE ReserveCached(h)
        BY <3>2 DEF ReserveCached, ReadBack, Answer, ReplayKind, ReplayValue, AnswerValue
      <3>3. CASE ReserveHeld(h)
        <4>1. PICK t \in Token, old \in BOOLEAN : claims[On(h)] = Claim(t, old)
          BY <3>0, <3>3, InFlightClaim DEF ReserveHeld
        <4> QED BY <3>3, <4>1 DEF ReserveHeld, Claim
      <3>4. CASE NotRecoverable(h)
        BY <3>4 DEF NotRecoverable
      <3>5. CASE ProbeRuntime(h)
        <4>1. [call[h] EXCEPT !.attempted = TRUE] \in CallValue
          BY <3>5 DEF ProbeRuntime
        <4>2. call' = [call EXCEPT ![h] = [call[h] EXCEPT !.attempted = TRUE]]
          BY <3>5 DEF ProbeRuntime
        <4>3. provider' \in [Action -> ProviderValue]
          BY <3>5 DEF ProbeRuntime, Materialise, ProviderValue
        <4> QED BY <3>5, <4>1, <4>2, <4>3, LocalsTyped DEF ProbeRuntime
      <3>6. CASE ProbeReturns(h)
        BY <3>6 DEF ProbeReturns
      <3>7. CASE ProbeDelivery(h)
        BY <3>7 DEF ProbeDelivery, PrepareDelivery, ProviderValue
      <3>8. CASE Takeover(h)
        <4> DEFINE taken == [call[h] EXCEPT !.terminal = TRUE, !.seen = call[h].token]
        <4>1. taken \in CallValue
          BY <3>0, <3>8 DEF Takeover
        <4>2. call' = [call EXCEPT ![h] = taken]
          BY <3>8 DEF Takeover
        <4>3. claims' \in [Action -> ClaimValue]
          BY <3>0, <3>8, ClaimTyped DEF Takeover
        <4> HIDE DEF taken
        <4> QED BY <3>8, <4>1, <4>2, <4>3, LocalsTyped DEF Takeover
      <3>9. CASE TakeoverLost(h)
        BY <3>9 DEF TakeoverLost
      <3>10. CASE Poll(h)
        BY <3>10 DEF Poll
      <3>11. CASE Progress(h)
        BY <3>11 DEF Progress, Materialise, ProviderValue
      <3>12. CASE ProgressReturns(h)
        BY <3>12 DEF ProgressReturns, Observation
      <3>13. CASE AdoptTerminal(h)
        BY <3>13 DEF AdoptTerminal
      <3>14. CASE Gate(h) \/ ReadStale(h)
        BY <3>14 DEF Gate, ReadStale, Observation
      <3>15. CASE Defer(h) \/ DeliveryPending(h) \/ RecordRefused(h)
        BY <3>15, AbandonTyped DEF Defer, DeliveryPending, RecordRefused
      <3>16. CASE Prepare(h)
        BY <3>16 DEF Prepare, PrepareDelivery, ProviderValue
      <3>17. CASE Deliver(h)
        BY <3>17 DEF Deliver, ProviderValue, Observation
      <3>18. CASE Record(h)
        <4>1. On(h) \in Action /\ call[h].result \in Observation
          BY <3>0, <3>18 DEF Record
        <4>2. claims' \in [Action -> ClaimValue]
          BY <3>18, <4>1, ClaimTyped DEF Record
        <4>3. receipts' \in [Action -> Observation \cup {NoReceipt}]
          BY <3>18, <4>1 DEF Record
        <4> QED BY <3>18, <4>1, <4>2, <4>3, AnswerTyped DEF Record
      <3> QED BY <2>2, <3>1, <3>2, <3>3, <3>4, <3>5, <3>6, <3>7, <3>8, <3>9,
                 <3>10, <3>11, <3>12, <3>13, <3>14, <3>15, <3>16, <3>17, <3>18
              DEF CallSteps
    <2>3. ASSUME NEW h \in Host,
                 Deadline(h) \/ ProbeFails(h) \/ Fail(h) \/ FailUndispatched(h) \/ Crash(h)
          PROVE  TypeOK'
      <3>1. CASE Deadline(h) \/ Fail(h) \/ Crash(h)
        BY <3>1, AbandonTyped, BoundAssumption DEF Deadline, Fail, Crash
      <3>2. CASE ProbeFails(h)
        BY <3>2, BoundAssumption DEF ProbeFails, PcValue, Calling, Executing
      <3>3. CASE FailUndispatched(h)
        BY <3>3, ClaimTyped, BoundAssumption DEF FailUndispatched, PcValue, Calling,
           Executing, CallValue, ReplayValue
      <3> QED BY <2>3, <3>1, <3>2, <3>3
    <2>4. ASSUME NEW a \in Action, AgeAbandoned(a) \/ AgeLive(a) PROVE TypeOK'
      <3>1. PICK t \in Token, old \in BOOLEAN : claims[a] = Claim(t, old)
        BY <2>4, InFlightClaim DEF AgeAbandoned, AgeLive, Grow
      <3>2. claims' = [claims EXCEPT ![a] = Claim(t, TRUE)]
        BY <2>4, <3>1 DEF AgeAbandoned, AgeLive, Grow, Claim
      <3>3. claims' \in [Action -> ClaimValue]
        BY <3>2, ClaimTyped
      <3>4. slow' \in 0 .. MaxSlow
        BY <2>4, BoundAssumption DEF AgeAbandoned, AgeLive
      <3> QED BY <2>4, <3>3, <3>4 DEF AgeAbandoned, AgeLive, Grow
    <2>5. ASSUME NEW a \in Action, Finish(a) PROVE TypeOK'
      BY <2>5 DEF Finish, ProviderValue
    <2>6. CASE UNCHANGED vars
      BY <2>6 DEF vars
    <2> QED BY <2>1, <2>2, <2>3, <2>4, <2>5, <2>6 DEF Next
  <1> QED BY <1>1, <1>2, PTL DEF Spec

\* Outside Enter a running call is for the action, and has the token, it had.
LEMMA CallsKept ==
    ASSUME TypeOK, [Next]_vars, NEW h \in Host, pc'[h] \in Calling,
           ~ \E a \in Action : Enter(h, a)
    PROVE  SameCall(h)
  <1> USE DEF SameCall, TypeOK, Goto, On, budget, tables, PcValue, Calling, Executing, CallValue
  <1>1. ASSUME NEW g \in Host, AdvanceSteps(g) PROVE SameCall(h)
    BY <1>1 DEF AdvanceSteps, Begin, End, Settle, Replay, Enter, ReadBack, Answer
  <1>2. ASSUME NEW g \in Host, CallSteps(g) PROVE SameCall(h)
    <2>1. CASE Reserve(g) \/ NotRecoverable(g)
      BY <2>1 DEF Reserve, NotRecoverable
    <2>7. CASE ReserveCached(g)
      BY <2>7 DEF ReserveCached, ReadBack, Answer
    <2>8. CASE ReserveHeld(g)
      BY <2>8 DEF ReserveHeld
    <2>2. CASE ProbeRuntime(g) \/ ProbeReturns(g) \/ ProbeDelivery(g)
      BY <2>2 DEF ProbeRuntime, ProbeReturns, ProbeDelivery
    <2>3. CASE TakeoverLost(g) \/ Poll(g)
      BY <2>3 DEF TakeoverLost, Poll
    <2>9. CASE Takeover(g)
      BY <2>9 DEF Takeover
    <2>4. CASE Progress(g) \/ ProgressReturns(g) \/ AdoptTerminal(g) \/ Gate(g) \/ ReadStale(g)
      BY <2>4 DEF Progress, ProgressReturns, AdoptTerminal, Gate, ReadStale
    <2>5. CASE Defer(g) \/ Prepare(g) \/ Deliver(g) \/ DeliveryPending(g)
      BY <2>5 DEF Defer, Prepare, Deliver, DeliveryPending, Abandon
    <2>6. CASE Record(g) \/ RecordRefused(g)
      BY <2>6 DEF Record, RecordRefused, Answer, Abandon
    <2> QED BY <1>2, <2>1, <2>2, <2>3, <2>4, <2>5, <2>6, <2>7, <2>8, <2>9 DEF CallSteps
  <1>3. ASSUME NEW g \in Host,
               Deadline(g) \/ ProbeFails(g) \/ Fail(g) \/ FailUndispatched(g) \/ Crash(g)
        PROVE  SameCall(h)
    BY <1>3 DEF Deadline, ProbeFails, Fail, FailUndispatched, Crash, Abandon
  <1>4. ASSUME NEW a \in Action, AgeAbandoned(a) \/ AgeLive(a) \/ Finish(a)
        PROVE  SameCall(h)
    BY <1>4 DEF AgeAbandoned, AgeLive, Grow, Finish
  <1>5. CASE UNCHANGED vars
    BY <1>5 DEF vars
  <1> QED BY <1>1, <1>2, <1>3, <1>4, <1>5 DEF Next

\* Two calls that run at the same time never share a token.
THEOREM TokensAreDistinct == Spec => []TokensDiffer
  <1>1. Init => TokensDiffer
    BY DEF Init, TokensDiffer, Calling, Executing
  <1>2. TypeOK /\ TypeOK' /\ TokensDiffer /\ [Next]_vars => TokensDiffer'
    <2> SUFFICES ASSUME TypeOK, TypeOK', TokensDiffer, [Next]_vars
                 PROVE  TokensDiffer'
      OBVIOUS
    <2>1. ASSUME NEW h \in Host, NEW a \in Action, Enter(h, a) PROVE TokensDiffer'
      <3>1. ASSUME NEW g \in Host, g # h, pc[g] \in Calling
            PROVE  call[g].token \in InUse
        BY <3>1 DEF InUse
      <3>2. call'[h].token \notin InUse
        BY <2>1 DEF Enter, IsFresh, TypeOK
      <3>3. \A g \in Host : g # h => pc'[g] = pc[g] /\ call'[g] = call[g]
        BY <2>1 DEF Enter, Goto, TypeOK
      <3> QED BY <3>1, <3>2, <3>3 DEF TokensDiffer
    <2>2. CASE ~ \E h \in Host, a \in Action : Enter(h, a)
      BY <2>2, CallsKept DEF TokensDiffer, SameCall
    <2> QED BY <2>1, <2>2
  <1> QED BY <1>1, <1>2, TypeCorrect, PTL DEF Spec

\* A terminal outcome outside stays terminal.
LEMMA TerminalStays ==
    ASSUME TypeOK, [Next]_vars, NEW a \in Action, provider[a] = "terminal"
    PROVE  provider'[a] = "terminal"
  <1> USE DEF TypeOK, budget, tables
  <1>1. ASSUME NEW h \in Host, AdvanceSteps(h) PROVE provider' = provider
    BY <1>1 DEF AdvanceSteps, Begin, End, Settle, Replay, Enter
  <1>2. ASSUME NEW h \in Host, CallSteps(h) PROVE provider'[a] = "terminal"
    BY <1>2 DEF CallSteps, Reserve, ReserveCached, ReserveHeld, NotRecoverable,
       ProbeRuntime, ProbeReturns, ProbeDelivery, Takeover, TakeoverLost, Poll,
       Progress, ProgressReturns, AdoptTerminal, Gate, ReadStale, Defer, Prepare,
       Deliver, DeliveryPending, Record, RecordRefused, Materialise,
       PrepareDelivery, Abandon
  <1>3. ASSUME NEW h \in Host,
               Deadline(h) \/ ProbeFails(h) \/ Fail(h) \/ FailUndispatched(h) \/ Crash(h)
        PROVE  provider' = provider
    BY <1>3 DEF Deadline, ProbeFails, Fail, FailUndispatched, Crash, Abandon
  <1>4. ASSUME NEW b \in Action, AgeAbandoned(b) \/ AgeLive(b) \/ Finish(b)
        PROVE  provider'[a] = "terminal"
    BY <1>4 DEF AgeAbandoned, AgeLive, Grow, Finish
  <1> QED BY <1>1, <1>2, <1>3, <1>4 DEF Next, vars

\* Only a call that reserves or takes over begins to execute.
LEMMA StartsExecuting ==
    ASSUME TypeOK, [Next]_vars, NEW h \in Host, pc'[h] \in Executing, pc[h] \notin Executing
    PROVE  Reserve(h) \/ Takeover(h)
  <1> USE DEF TypeOK, Goto, budget, tables, Executing
  <1>1. ASSUME NEW g \in Host, AdvanceSteps(g) PROVE FALSE
    BY <1>1 DEF AdvanceSteps, Begin, End, Settle, Replay, Enter, ReadBack, Answer
  <1>2. ASSUME NEW g \in Host, CallSteps(g) PROVE Reserve(h) \/ Takeover(h)
    <2>1. g # h => pc'[h] = pc[h]
      BY <1>2 DEF CallSteps, Reserve, ReserveCached, ReserveHeld, NotRecoverable,
         ProbeRuntime, ProbeReturns, ProbeDelivery, Takeover, TakeoverLost, Poll,
         Progress, ProgressReturns, AdoptTerminal, Gate, ReadStale, Defer, Prepare,
         Deliver, DeliveryPending, Record, RecordRefused, ReadBack, Answer, Abandon
    <2>2. g = h
      BY <2>1
    <2> QED
      BY <1>2, <2>2 DEF CallSteps, Reserve, ReserveCached, ReserveHeld, NotRecoverable,
         ProbeRuntime, ProbeReturns, ProbeDelivery, Takeover, TakeoverLost, Poll,
         Progress, ProgressReturns, AdoptTerminal, Gate, ReadStale, Defer, Prepare,
         Deliver, DeliveryPending, Record, RecordRefused, ReadBack, Answer, Abandon
  <1>3. ASSUME NEW g \in Host,
               Deadline(g) \/ ProbeFails(g) \/ Fail(g) \/ FailUndispatched(g) \/ Crash(g)
        PROVE  FALSE
    BY <1>3 DEF Deadline, ProbeFails, Fail, FailUndispatched, Crash, Abandon
  <1>4. ASSUME NEW b \in Action, AgeAbandoned(b) \/ AgeLive(b) \/ Finish(b) PROVE FALSE
    BY <1>4 DEF AgeAbandoned, AgeLive, Grow, Finish
  <1> QED BY <1>1, <1>2, <1>3, <1>4 DEF Next, vars

\* A claim in flight loses its owner only to a call that takes it over, or
\* when its owner ends.
LEMMA ClaimChanges ==
    ASSUME TypeOK, [Next]_vars, NEW a \in Action, InFlight(a),
           ~ (InFlight(a)' /\ claims'[a].owner = claims[a].owner)
    PROVE  \E g \in Host :
               /\ On(g) = a
               /\ Takeover(g) \/ (Owns(g) /\ pc[g] \in Calling /\ pc'[g] \notin Executing)
  <1> USE DEF TypeOK, tables, budget
  <1>0. claims'[a] # claims[a]
    BY DEF InFlight
  <1>1. ASSUME NEW h \in Host, AdvanceSteps(h) PROVE FALSE
    BY <1>0, <1>1 DEF AdvanceSteps, Begin, End, Settle, Replay, Enter
  <1>2. ASSUME NEW h \in Host, CallSteps(h) PROVE On(h) = a /\ (Takeover(h) \/ Record(h))
    <2>1. Reserve(h) \/ Takeover(h) \/ Record(h)
      BY <1>0, <1>2 DEF CallSteps, ReserveCached, ReserveHeld, NotRecoverable,
         ProbeRuntime, ProbeReturns, ProbeDelivery, TakeoverLost, Poll,
         Progress, ProgressReturns, AdoptTerminal, Gate, ReadStale, Defer, Prepare,
         Deliver, DeliveryPending, RecordRefused, Abandon
    <2>2. ~Reserve(h)
      BY <1>0 DEF Reserve, InFlight, Unclaimed, Claim
    <2> QED BY <1>0, <2>1, <2>2 DEF Takeover, Record
  <1>3. ASSUME NEW h \in Host,
               Deadline(h) \/ ProbeFails(h) \/ Fail(h) \/ FailUndispatched(h) \/ Crash(h)
        PROVE  FailUndispatched(h) /\ On(h) = a /\ Owns(h)
    BY <1>0, <1>3 DEF Deadline, ProbeFails, Fail, FailUndispatched, Crash, Abandon
  <1>4. ASSUME NEW b \in Action, AgeAbandoned(b) \/ AgeLive(b) \/ Finish(b) PROVE FALSE
    <2>1. CASE Finish(b)
      BY <1>0, <2>1 DEF Finish
    <2>2. CASE Grow(b)
      <3>1. claims[b] \in ClaimValue /\ InFlight(b)
        BY <2>2 DEF Grow
      <3>2. PICK t \in Token, old \in BOOLEAN : claims[b] = Claim(t, old)
        BY <3>1, InFlightClaim
      <3>3. claims' = [claims EXCEPT ![b] = [claims[b] EXCEPT !.aged = TRUE]]
        BY <2>2 DEF Grow
      <3>4. a = b
        BY <1>0, <3>3
      <3>5. claims'[a] = [Claim(t, old) EXCEPT !.aged = TRUE]
        BY <3>2, <3>3, <3>4
      <3>6. claims'[a].state = "in_flight" /\ claims'[a].owner = t
        BY <3>5 DEF Claim
      <3>7. claims[a].owner = t
        BY <3>2, <3>4 DEF Claim
      <3> QED BY <3>6, <3>7 DEF InFlight
    <2> QED BY <1>4, <2>1, <2>2 DEF AgeAbandoned, AgeLive
  <1>5. ASSUME NEW h \in Host, Record(h) PROVE Owns(h) /\ pc[h] \in Calling /\ pc'[h] \notin Executing
    BY <1>5 DEF Record, Answer, Calling, Executing
  <1>6. ASSUME NEW h \in Host, FailUndispatched(h) PROVE pc[h] \in Calling /\ pc'[h] \notin Executing
    BY <1>6 DEF FailUndispatched, Calling, Executing
  <1> QED BY <1>0, <1>1, <1>2, <1>3, <1>4, <1>5, <1>6 DEF Next, vars

\* A call that goes on to take a claim over has just seen the outcome.
LEMMA ProbesFirst ==
    ASSUME TypeOK, [Next]_vars, NEW h \in Host, pc'[h] = "takeover", pc[h] # "takeover"
    PROVE  provider'[On(h)'] = "terminal"
  <1> USE DEF TypeOK, Goto, On, tables, budget, PcValue
  <1>1. ASSUME NEW g \in Host, AdvanceSteps(g) PROVE FALSE
    BY <1>1 DEF AdvanceSteps, Begin, End, Settle, Replay, Enter, ReadBack, Answer
  <1>2. ASSUME NEW g \in Host, CallSteps(g) PROVE g = h /\ (ProbeReturns(h) \/ ProbeDelivery(h))
    BY <1>2 DEF CallSteps, Reserve, ReserveCached, ReserveHeld, NotRecoverable,
       ProbeRuntime, ProbeReturns, ProbeDelivery, Takeover, TakeoverLost, Poll,
       Progress, ProgressReturns, AdoptTerminal, Gate, ReadStale, Defer, Prepare,
       Deliver, DeliveryPending, Record, RecordRefused, ReadBack, Answer, Abandon
  <1>3. ASSUME NEW g \in Host,
               Deadline(g) \/ ProbeFails(g) \/ Fail(g) \/ FailUndispatched(g) \/ Crash(g)
        PROVE  FALSE
    BY <1>3 DEF Deadline, ProbeFails, Fail, FailUndispatched, Crash, Abandon
  <1>4. ASSUME NEW b \in Action, AgeAbandoned(b) \/ AgeLive(b) \/ Finish(b) PROVE FALSE
    BY <1>4 DEF AgeAbandoned, AgeLive, Grow, Finish
  <1>5. ProbeReturns(h) => provider'[On(h)'] = "terminal"
    BY DEF ProbeReturns
  <1>6. ProbeDelivery(h) => provider'[On(h)'] = "terminal"
    BY DEF ProbeDelivery, PrepareDelivery, Action
  <1> QED BY <1>1, <1>2, <1>3, <1>4, <1>5, <1>6 DEF Next, vars

\* A call that executes an action whose outcome outside is open owns its
\* claim, for any number of processes and any interleaving of their calls.
THEOREM OwnersExecute == Spec => []EffectsUnderClaim
  <1> DEFINE Inv == ProbedTerminal /\ EffectsUnderClaim
  <1>1. Init => Inv
    BY DEF Init, ProbedTerminal, EffectsUnderClaim, Executing
  <1>2. TypeOK /\ TypeOK' /\ TokensDiffer /\ Inv /\ [Next]_vars => Inv'
    <2> SUFFICES ASSUME TypeOK, TypeOK', TokensDiffer, Inv, [Next]_vars
                 PROVE  Inv'
      OBVIOUS
    <2>0. ASSUME NEW h \in Host, pc[h] \in Calling
          PROVE  On(h) \in Action /\ call[h].token \in Token
      BY <2>0 DEF TypeOK, CallValue, On
    <2>1. ASSUME NEW h \in Host, pc[h] \in Calling \ {"reserve"}, pc'[h] \in Calling \ {"reserve"}
          PROVE  On(h)' = On(h) /\ call'[h].token = call[h].token
      <3>1. ~ \E a \in Action : Enter(h, a)
        BY <2>1 DEF Enter, Goto, Calling, Executing
      <3>2. ASSUME NEW g \in Host, NEW a \in Action, g # h, Enter(g, a)
            PROVE  On(h)' = On(h) /\ call'[h].token = call[h].token
        BY <3>2 DEF Enter, Goto, TypeOK, On
      <3>3. CASE ~ \E a \in Action : Enter(h, a)
        <4>1. CASE \E g \in Host, a \in Action : Enter(g, a)
          BY <3>2, <3>3, <4>1
        <4>2. CASE ~ \E g \in Host, a \in Action : Enter(g, a)
          BY <2>1, <4>2, CallsKept DEF SameCall, On
        <4> QED BY <4>1, <4>2
      <3> QED BY <3>1, <3>3
    <2>2. ProbedTerminal'
      <3> SUFFICES ASSUME NEW h \in Host, pc'[h] = "takeover"
                   PROVE  provider'[On(h)'] = "terminal"
        BY DEF ProbedTerminal, On
      <3>1. CASE pc[h] # "takeover"
        BY <3>1, ProbesFirst
      <3>2. CASE pc[h] = "takeover"
        BY <3>2, <2>0, <2>1, TerminalStays DEF ProbedTerminal, Calling
      <3> QED BY <3>1, <3>2
    <2>3. EffectsUnderClaim'
      <3> SUFFICES ASSUME NEW h \in Host, pc'[h] \in Executing
                   PROVE  Owns(h)' \/ provider'[On(h)'] = "terminal"
        BY DEF EffectsUnderClaim, On
      <3>1. CASE pc[h] \notin Executing
        <4>1. CASE Reserve(h)
          BY <4>1, <2>0 DEF Reserve, Goto, Calling, Owns, InFlight, Claim, On, TypeOK
        <4>2. CASE Takeover(h)
          <5>1. On(h) \in Action /\ claims' = [claims EXCEPT ![On(h)] = Claim(call[h].token, FALSE)]
            BY <4>2, <2>0 DEF Takeover, Goto, Calling
          <5>2. On(h)' = On(h) /\ call'[h].token = call[h].token
            BY <4>2, <2>1 DEF Takeover, Goto, Calling, Executing, TypeOK
          <5> QED BY <5>1, <5>2 DEF Owns, InFlight, Claim, TypeOK
        <4> QED BY <3>1, <4>1, <4>2, StartsExecuting
      <3>2. CASE pc[h] \in Executing
        <4>1. On(h)' = On(h) /\ call'[h].token = call[h].token /\ On(h) \in Action
          BY <3>2, <2>0, <2>1 DEF Calling, Executing
        <4>2. CASE provider[On(h)] = "terminal"
          BY <4>1, <4>2, TerminalStays
        <4>3. CASE Owns(h)
          <5>1. CASE InFlight(On(h))' /\ claims'[On(h)].owner = claims[On(h)].owner
            BY <4>1, <4>3, <5>1 DEF Owns, InFlight
          <5>2. ASSUME NEW g \in Host, On(g) = On(h), Takeover(g)
                PROVE  provider'[On(h)'] = "terminal"
            BY <4>1, <5>2, TerminalStays DEF ProbedTerminal, Takeover, Goto
          <5>3. ASSUME NEW g \in Host, On(g) = On(h), Owns(g), pc[g] \in Calling,
                       pc'[g] \notin Executing
                PROVE  FALSE
            BY <3>2, <4>3, <5>3 DEF Owns, TokensDiffer, Calling
          <5> QED BY <4>1, <4>3, <5>1, <5>2, <5>3, ClaimChanges DEF Owns, InFlight
        <4> QED BY <3>2, <4>2, <4>3 DEF EffectsUnderClaim
      <3> QED BY <3>1, <3>2
    <2> QED BY <2>2, <2>3
  <1>3. Inv => EffectsUnderClaim
    OBVIOUS
  <1> QED BY <1>1, <1>2, <1>3, TypeCorrect, TokensAreDistinct, PTL DEF Spec

\* Only the transaction of _record writes a receipt, and whether a claim is
\* completed.
LEMMA OnlyRecordCompletes ==
    ASSUME TypeOK, [Next]_vars, ~ \E g \in Host : Record(g), NEW a \in Action
    PROVE  receipts' = receipts /\ (claims'[a] = Completed <=> claims[a] = Completed)
  <1> USE DEF TypeOK, tables, budget
  <1>1. ASSUME NEW h \in Host, AdvanceSteps(h) PROVE receipts' = receipts /\ claims' = claims
    BY <1>1 DEF AdvanceSteps, Begin, End, Settle, Replay, Enter
  <1>2. ASSUME NEW h \in Host, CallSteps(h)
        PROVE  receipts' = receipts /\ (claims'[a] = Completed <=> claims[a] = Completed)
    <2>1. receipts' = receipts
      BY <1>2 DEF CallSteps, Reserve, ReserveCached, ReserveHeld, NotRecoverable,
       ProbeRuntime, ProbeReturns, ProbeDelivery, Takeover, TakeoverLost, Poll,
       Progress, ProgressReturns, AdoptTerminal, Gate, ReadStale, Defer, Prepare,
       Deliver, DeliveryPending, RecordRefused, Abandon
    <2>2. CASE Reserve(h)
      BY <2>1, <2>2 DEF Reserve, Completed, Unclaimed, Claim
    <2>3. CASE Takeover(h)
      BY <2>1, <2>3 DEF Takeover, SeenInFlight, InFlight, Completed, Claim
    <2>4. CASE ~Reserve(h) /\ ~Takeover(h)
      <3>1. claims' = claims
        BY <1>2, <2>4 DEF CallSteps, Reserve, ReserveCached, ReserveHeld, NotRecoverable,
       ProbeRuntime, ProbeReturns, ProbeDelivery, Takeover, TakeoverLost, Poll,
       Progress, ProgressReturns, AdoptTerminal, Gate, ReadStale, Defer, Prepare,
       Deliver, DeliveryPending, RecordRefused, Abandon
      <3> QED BY <2>1, <3>1
    <2> QED BY <2>2, <2>3, <2>4
  <1>3. ASSUME NEW h \in Host,
               Deadline(h) \/ ProbeFails(h) \/ Fail(h) \/ Crash(h)
        PROVE  receipts' = receipts /\ claims' = claims
    BY <1>3 DEF Deadline, ProbeFails, Fail, Crash, Abandon
  <1>4. ASSUME NEW h \in Host, FailUndispatched(h)
        PROVE  receipts' = receipts /\ (claims'[a] = Completed <=> claims[a] = Completed)
    BY <1>4 DEF FailUndispatched, Owns, InFlight, Completed, Unclaimed
  <1>5. ASSUME NEW b \in Action, Grow(b)
        PROVE  receipts' = receipts /\ (claims'[a] = Completed <=> claims[a] = Completed)
    <2>1. claims' = [claims EXCEPT ![b] = [claims[b] EXCEPT !.aged = TRUE]]
      BY <1>5 DEF Grow
    <2>2. claims[b] \in ClaimValue /\ InFlight(b)
      BY <1>5 DEF Grow
    <2>3. PICK t \in Token, old \in BOOLEAN : claims[b] = Claim(t, old)
      BY <2>2, InFlightClaim
    <2>4. [Claim(t, old) EXCEPT !.aged = TRUE].state = "in_flight"
      BY DEF Claim
    <2>5. claims'[b].state = "in_flight"
      BY <2>1, <2>3, <2>4
    <2> QED BY <1>5, <2>1, <2>2, <2>5 DEF Grow, InFlight, Completed
  <1>6. ASSUME NEW b \in Action, Finish(b) PROVE receipts' = receipts /\ claims' = claims
    BY <1>6 DEF Finish
  <1> QED BY <1>1, <1>2, <1>3, <1>4, <1>5, <1>6 DEF Next, vars, AgeAbandoned, AgeLive

\* No receipt without a completed claim and no completed claim without a
\* receipt, however calls fail, die or lose their claims.
THEOREM ReceiptsAreClaimed == Spec => []ReceiptsHaveClaim
  <1>1. Init => ReceiptsHaveClaim
    BY DEF Init, ReceiptsHaveClaim, Unclaimed, Completed
  <1>2. TypeOK /\ ReceiptsHaveClaim /\ [Next]_vars => ReceiptsHaveClaim'
    <2> SUFFICES ASSUME TypeOK, ReceiptsHaveClaim, [Next]_vars, NEW a \in Action
                 PROVE  receipts'[a] # NoReceipt <=> claims'[a] = Completed
      BY DEF ReceiptsHaveClaim
    <2>1. ASSUME NEW h \in Host, Record(h)
          PROVE  receipts'[a] # NoReceipt <=> claims'[a] = Completed
      <3>1. call[h].result # NoReceipt
        BY <2>1 DEF Record, TypeOK, Observation, NoReceipt
      <3> QED BY <2>1, <3>1 DEF Record, TypeOK, ReceiptsHaveClaim
    <2> QED BY <2>1, OnlyRecordCompletes DEF ReceiptsHaveClaim
  <1> QED BY <1>1, <1>2, TypeCorrect, PTL DEF Spec

\* A call answers with a receipt or with what it records, and the answer does
\* not change until the kernel takes it.
LEMMA AnswersComeFrom ==
    ASSUME TypeOK, [Next]_vars, NEW h \in Host, pc'[h] = "answered"
    PROVE  \/ pc[h] = "answered" /\ call'[h] = call[h]
           \/ Record(h)
           \/ receipts' = receipts /\ \E a \in Action : ReadBack(h, a)
  <1> USE DEF TypeOK, Goto, tables, budget, PcValue
  <1>1. ASSUME NEW g \in Host, NEW a \in Action, Replay(g, a)
        PROVE  \/ pc[h] = "answered" /\ call'[h] = call[h]
               \/ receipts' = receipts /\ ReadBack(h, a)
    BY <1>1 DEF Replay, ReadBack, Answer
  <1>2. ASSUME NEW g \in Host, Begin(g) \/ End(g) \/ Settle(g) \/ \E a \in Action : Enter(g, a)
        PROVE  pc[h] = "answered" /\ call'[h] = call[h]
    BY <1>2 DEF Begin, End, Settle, Enter
  <1>3. ASSUME NEW g \in Host, ReserveCached(g)
        PROVE  \/ pc[h] = "answered" /\ call'[h] = call[h]
               \/ receipts' = receipts /\ \E a \in Action : ReadBack(h, a)
    <2>1. On(g) \in Action
      BY <1>3 DEF ReserveCached, On, Calling, CallValue
    <2> QED BY <1>3, <2>1 DEF ReserveCached, ReadBack, Answer
  <1>4. ASSUME NEW g \in Host, Record(g)
        PROVE  (pc[h] = "answered" /\ call'[h] = call[h]) \/ Record(h)
    BY <1>4 DEF Record, Answer
  <1>5. ASSUME NEW g \in Host, CallSteps(g), ~ReserveCached(g), ~Record(g)
        PROVE  pc[h] = "answered" /\ call'[h] = call[h]
    BY <1>5 DEF CallSteps, Reserve, ReserveCached, ReserveHeld, NotRecoverable,
       ProbeRuntime, ProbeReturns, ProbeDelivery, Takeover, TakeoverLost, Poll,
       Progress, ProgressReturns, AdoptTerminal, Gate, ReadStale, Defer, Prepare,
       Deliver, DeliveryPending, RecordRefused, Abandon
  <1>6. ASSUME NEW g \in Host,
               Deadline(g) \/ ProbeFails(g) \/ Fail(g) \/ FailUndispatched(g) \/ Crash(g)
        PROVE  pc[h] = "answered" /\ call'[h] = call[h]
    BY <1>6 DEF Deadline, ProbeFails, Fail, FailUndispatched, Crash, Abandon
  <1>7. ASSUME NEW b \in Action, AgeAbandoned(b) \/ AgeLive(b) \/ Finish(b)
        PROVE  pc[h] = "answered" /\ call'[h] = call[h]
    BY <1>7 DEF AgeAbandoned, AgeLive, Grow, Finish
  <1> QED BY <1>1, <1>2, <1>3, <1>4, <1>5, <1>6, <1>7 DEF Next, AdvanceSteps, vars

\* What a kernel is told about an action is what every later readback says:
\* a receipt, once written, is never written again.
THEOREM AnswersAreDurable == Spec => []AnswersDurable
  <1>1. Init => AnswersDurable
    BY DEF Init, AnswersDurable
  <1>2. TypeOK /\ ReceiptsHaveClaim /\ AnswersDurable /\ [Next]_vars => AnswersDurable'
    <2> SUFFICES ASSUME TypeOK, ReceiptsHaveClaim, AnswersDurable, [Next]_vars,
                        NEW h \in Host, pc'[h] = "answered"
                 PROVE  call'[h].result = receipts'[call'[h].action]
      BY DEF AnswersDurable, On
    <2>1. CASE pc[h] = "answered" /\ call'[h] = call[h]
      <3>1. call[h] \in AnswerValue
        BY <2>1 DEF TypeOK
      <3>2. On(h) \in Action /\ receipts[On(h)] = call[h].result /\ receipts[On(h)] # NoReceipt
        BY <2>1, <3>1 DEF AnswersDurable, AnswerValue, On, Observation, NoReceipt
      <3>3. ASSUME NEW g \in Host, Record(g) PROVE receipts'[On(h)] = receipts[On(h)]
        <4>1. claims[On(h)] = Completed
          BY <3>2 DEF ReceiptsHaveClaim
        <4>2. On(g) # On(h)
          BY <3>3, <4>1 DEF Record, Owns, InFlight, Completed
        <4> QED BY <3>3, <4>2 DEF Record, TypeOK
      <3> QED BY <2>1, <3>2, <3>3, OnlyRecordCompletes DEF On
    <2>2. CASE Record(h)
      <3>1. On(h) \in Action
        BY <2>2 DEF Record, TypeOK, Calling, Executing, CallValue, On
      <3> QED BY <2>2, <3>1 DEF Record, Answer, TypeOK, On
    <2>3. ASSUME NEW a \in Action, ReadBack(h, a), receipts' = receipts
          PROVE  call'[h].result = receipts'[call'[h].action]
      BY <2>3 DEF ReadBack, Answer, TypeOK
    <2> QED BY <2>1, <2>2, <2>3, AnswersComeFrom
  <1> QED BY <1>1, <1>2, TypeCorrect, ReceiptsAreClaimed, PTL DEF Spec
===============================================================================
