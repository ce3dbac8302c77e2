---------------------------- MODULE Watchdog_proof ----------------------------
(***************************************************************************)
(* Proofs about Watchdog, for any processes, Campaigns, events, due times  *)
(* and bounds: no wake is lost, and as long as nothing has failed the due  *)
(* lock excludes.                                                          *)
(***************************************************************************)
EXTENDS Watchdog, FiniteSetTheorems, SequenceTheorems, TLAPS

\* What has been recorded lies behind the cursor, and a page that is about to be
\* published begins where its reader has found the cursor.
Stream ==
    /\ \A w \in wakes : w.at <= source.cursor
    /\ \A p \in Process : pc[p] = "publish" =>
          /\ run[p].page.from <= run[p].page.next
          /\ source = NoSource => run[p].page.from = 0

Calls == {"advance", "ack"}
Drains == {"drain"} \cup Calls

InCall(p) == pc[p] \in Calls
Dispatching(p) == run[p].at = "dispatch" /\ pc[p] \in Drains

(* What holds of a process with lock table l, at stage s, with locals r. *)

\* It has the lock of every Campaign it has claimed and not yet settled.
Keeps(l, p, r) ==
    /\ \A i \in DOMAIN r.queue : l[r.queue[i]] = p
    /\ \A i, j \in DOMAIN r.queue : r.queue[i] = r.queue[j] => i = j

\* It delivers a due wake in the dispatch of its Campaign, never as a replay.
Carries(s, r) ==
    s \in Calls =>
        /\ r.took = FALSE
        /\ r.wake.kind = "due" => r.at = "dispatch" /\ r.wake.campaign = Head(r.queue)

\* The list of its dispatch names no other Campaign that it has claimed.
Spares(s, r) ==
    r.at = "dispatch" /\ s \in Drains =>
        \A w \in r.todo : w.kind = "due" /\ w.campaign # Head(r.queue) =>
            \A i \in DOMAIN r.queue : r.queue[i] # w.campaign

\* It claims nothing before it has read the stream.
Early(s, r) ==
    s \in {"read", "publish"} \/ (s \in Drains /\ r.at # "dispatch") => r.queue = << >>

Owns(l, p, s, r) == Keeps(l, p, r) /\ Carries(s, r) /\ Spares(s, r) /\ Early(s, r)

\* A pending due wake is in the hands of the process that claimed its Campaign.
Serves(s, r, w) ==
    /\ r.at = "dispatch" /\ s \in Drains
    /\ w.campaign = Head(r.queue)
    /\ w \in r.todo \/ (s \in Calls /\ r.wake = w)

Served ==
    \A w \in pending : w.kind = "due" => \E q \in Process : Serves(pc[q], run[q], w)

Claims == Served /\ \A p \in Process : Owns(lock, p, pc[p], run[p])
Orderly == faults = 0 => Claims

------------------------------------------------------------------------------
(* Types *)

Machine == pc \in [Process -> Stages] /\ run \in [Process -> Local]

LEMMA ContinueTypes ==
    ASSUME Machine, NEW p \in Process, NEW s \in Stages, NEW r \in Local,
           Continue(p, s, r)
    PROVE  Machine'
  BY DEF Machine, Continue, Goto

LEMMA DrainTypes ==
    ASSUME Machine, NEW p \in Process, NEW r \in Local, Drain(p, r)
    PROVE  Machine'
  <1>1. Drained(r) \in Stages
    BY DEF Drained, Local, Stages
  <1> QED BY <1>1, ContinueTypes DEF Drain

LEMMA IdleType == Idle \in Local
  <1>1. Idle.seen \in [Campaign -> Time \cup {Never}]
    BY DEF Idle, NothingSeen
  <1>2. Idle.page \in [from : Cursor, next : Cursor]
    BY EventsAssumption DEF Idle, NoPage, Cursor
  <1>3. Idle.queue \in Seq(Campaign)
    BY DEF Idle
  <1> QED BY <1>1, <1>2, <1>3 DEF Idle, Local

LEMMA FinishTypes ==
    ASSUME Machine, NEW p \in Process, Finish(p)
    PROVE  Machine'
  BY IdleType, ContinueTypes DEF Finish, Stages

LEMMA ProceedTypes ==
    ASSUME Machine, NEW p \in Process, NEW r \in Local, Proceed(p, r)
    PROVE  Machine'
  BY ContinueTypes, FinishTypes DEF Proceed, Stages

\* The claims of a run, in whichever order.
LEMMA OrderedClaims ==
    ASSUME NEW S, S \subseteq Campaign, NEW s \in SetToSeqs(S)
    PROVE  /\ s \in Seq(Campaign)
           /\ \A i \in DOMAIN s : s[i] \in S
           /\ \A i, j \in DOMAIN s : s[i] = s[j] => i = j
  <1>1. Cardinality(S) \in Nat
    BY CampaignAssumption, FS_Subset, FS_CardinalityType
  <1>2. s \in [1 .. Cardinality(S) -> S]
    BY DEF SetToSeqs
  <1>3. s \in Seq(Campaign)
    BY <1>1, <1>2
  <1> QED BY <1>2, <1>3 DEF SetToSeqs

Tables ==
    /\ clock \in Nat /\ published \in Cursor
    /\ check \in [Campaign -> Time \cup {Never}]
    /\ wakes \subseteq WakeValue /\ pending \subseteq WakeValue
    /\ source \in [cursor : Cursor, from : Cursor \cup {-1}]
    /\ due \in [Campaign -> Time \cup {Never}]
    /\ claims \in [Campaign -> Process \cup {Nobody}]
    /\ faults \in 0 .. MaxFault

LEMMA TypeParts == TypeOK <=> Tables /\ Machine /\ lock \in [Campaign -> Process \cup {Nobody}]
  BY DEF TypeOK, Tables, Machine

\* What a process has in hand where it needs it.
HandOK ==
    \A p \in Process :
        /\ pc[p] \in {"look", "after"} \/ Dispatching(p) => run[p].queue # << >>
        /\ InCall(p) => run[p].wake \in WakeValue

TypeInv == TypeOK /\ HandOK

LEMMA LocalOf == ASSUME TypeInv, NEW p \in Process PROVE run[p] \in Local
  BY DEF TypeInv, TypeOK

LEMMA SameTables ==
    ASSUME TypeInv, UNCHANGED <<world, tables, faults>> PROVE Tables'
  BY DEF TypeInv, TypeOK, Tables, world, tables

LEMMA Typed ==
    ASSUME Machine', Tables', HandOK', lock' \in [Campaign -> Process \cup {Nobody}]
    PROVE  TypeInv'
  BY DEF TypeInv, TypeOK, Machine, Tables

LEMMA InitTypes == Init => TypeInv
  <1> SUFFICES ASSUME Init PROVE TypeInv
    OBVIOUS
  <1>1. 0 \in Cursor
    BY EventsAssumption DEF Cursor
  <1>2. Machine
    BY IdleType DEF Init, Machine, Stages
  <1>3. Tables
    BY <1>1, MaxFaultAssumption DEF Init, Tables, NoSource, NothingSeen, Never
  <1>4. HandOK
    BY DEF Init, HandOK, InCall, Dispatching, Calls, Drains
  <1> QED BY <1>2, <1>3, <1>4, TypeParts DEF Init, TypeInv

LEMMA WakeValueOf ==
    ASSUME NEW w \in WakeValue PROVE w.campaign \in Campaign
  BY EventsAssumption DEF WakeValue, EventWake

LEMMA ReleasedTypes ==
    ASSUME lock \in [Campaign -> Process \cup {Nobody}], NEW p \in Process, NEW c
    PROVE  Released(p, c) \in [Campaign -> Process \cup {Nobody}]
  BY DEF Released

LEMMA UnclaimedTypes ==
    ASSUME claims \in [Campaign -> Process \cup {Nobody}], NEW p \in Process, NEW c
    PROVE  Unclaimed(p, c) \in [Campaign -> Process \cup {Nobody}]
  BY DEF Unclaimed

\* What the steps do to the hand of a process.
LEMMA HandContinue ==
    ASSUME TypeInv, NEW p \in Process, NEW s \in Stages, NEW r \in Local, Continue(p, s, r),
           s \in {"look", "after"} => r.queue # << >>,
           r.at = "dispatch" /\ s \in {"drain", "advance", "ack"} => r.queue # << >>,
           s \in {"advance", "ack"} => r.wake \in WakeValue
    PROVE  HandOK'
  BY DEF TypeInv, TypeOK, HandOK, InCall, Dispatching, Calls, Drains, Continue, Goto

LEMMA HandFinish ==
    ASSUME TypeInv, NEW p \in Process, Finish(p) PROVE HandOK'
  BY IdleType, HandContinue DEF Finish, Stages

LEMMA HandDrain ==
    ASSUME TypeInv, NEW p \in Process, NEW r \in Local, Drain(p, r),
           r.at = "dispatch" => r.queue # << >>
    PROVE  HandOK'
  <1>1. /\ Drained(r) \in Stages \ {"look", "advance", "ack"}
        /\ Drained(r) = "after" => r.at = "dispatch"
    BY DEF Drained, Local, Stages
  <1> QED BY <1>1, HandContinue DEF Drain

LEMMA HandProceed ==
    ASSUME TypeInv, NEW p \in Process, NEW r \in Local, Proceed(p, r) PROVE HandOK'
  BY HandContinue, HandFinish DEF Proceed, Stages

------------------------------------------------------------------------------
(* Every step keeps the types *)

LEMMA BeginTypes ==
    ASSUME TypeInv, NEW p \in Process, Begin(p) PROVE TypeInv'
  <1>1. [Idle EXCEPT !.now = clock, !.todo = pending] \in Local
    BY IdleType DEF TypeInv, TypeOK, Local
  <1>2. [Idle EXCEPT !.now = clock, !.todo = pending].at # "dispatch"
    BY DEF Idle
  <1>3. Machine' /\ HandOK'
    BY <1>1, <1>2, DrainTypes, HandDrain, TypeParts DEF Begin, TypeInv
  <1> QED BY <1>3, SameTables, Typed DEF Begin, TypeInv, TypeOK

LEMMA CarryingType ==
    ASSUME TypeInv, NEW p \in Process, NEW w \in WakeValue, NEW t \in BOOLEAN
    PROVE  /\ Carrying(p, w, t) \in Local
           /\ Carrying(p, w, t).wake = w /\ Carrying(p, w, t).took = t
           /\ Carrying(p, w, t).todo = run[p].todo
           /\ Carrying(p, w, t).at = run[p].at /\ Carrying(p, w, t).queue = run[p].queue
  <1>1. run[p] \in Local
    BY LocalOf
  <1>2. w \in WakeValue \cup {NoWake}
    OBVIOUS
  <1>3. Carrying(p, w, t) \in Local
    BY <1>1, <1>2 DEF Local, Carrying
  <1> QED BY <1>1, <1>2, <1>3 DEF Local, Carrying

LEMMA SkippedType ==
    ASSUME TypeInv, NEW p \in Process, NEW w
    PROVE  /\ Skipped(p, w) \in Local
           /\ Skipped(p, w).at = run[p].at /\ Skipped(p, w).queue = run[p].queue
           /\ Skipped(p, w).todo = run[p].todo \ {w}
           /\ Skipped(p, w).took = FALSE /\ Skipped(p, w).wake = NoWake
  <1>1. run[p] \in Local
    BY LocalOf
  <1>2. run[p].todo \ {w} \in SUBSET WakeValue
    BY <1>1 DEF Local
  <1> QED BY <1>1, <1>2 DEF Local, Skipped

LEMMA NextWakeTypes ==
    ASSUME TypeInv, NEW p \in Process, NextWake(p) PROVE TypeInv'
  <1>1. PICK w \in run[p].todo :
          LET took == Locks(p, w)
              lockedOut == took /\ lock[w.campaign] \notin {Nobody, p}
              current == w.kind = "due" => w \in pending
          IN  \/ Drain(p, Skipped(p, w)) /\ UNCHANGED lock
              \/ Drain(p, Skipped(p, w)) /\ GiveBack(p, w, took)
              \/ /\ Continue(p, "advance", Carrying(p, w, took))
                 /\ lock' = IF took THEN [lock EXCEPT ![w.campaign] = p] ELSE lock
    BY DEF NextWake
  <1>2. w \in WakeValue /\ w.campaign \in Campaign /\ Locks(p, w) \in BOOLEAN
    BY WakeValueOf DEF TypeInv, TypeOK, Local, Locks
  <1>3. lock' \in [Campaign -> Process \cup {Nobody}]
    BY <1>1, <1>2, ReleasedTypes DEF TypeInv, TypeOK, GiveBack
  <1>4. pc[p] = "drain" /\ (run[p].at = "dispatch" => run[p].queue # << >>)
    BY DEF NextWake, TypeInv, HandOK, Dispatching, Drains, Calls
  <1>6. CASE Drain(p, Skipped(p, w))
    <2>1. Machine' /\ HandOK'
      BY <1>4, <1>6, SkippedType, DrainTypes, HandDrain, TypeParts DEF TypeInv
    <2> QED BY <2>1, <1>3, SameTables, Typed DEF NextWake
  <1>7. CASE Continue(p, "advance", Carrying(p, w, Locks(p, w)))
    <2>1. Machine' /\ HandOK'
      BY <1>2, <1>4, <1>7, CarryingType, ContinueTypes, HandContinue, TypeParts
         DEF TypeInv, Stages
    <2> QED BY <2>1, <1>3, SameTables, Typed DEF NextWake
  <1> QED BY <1>1, <1>6, <1>7

LEMMA AdvanceReturnsTypes ==
    ASSUME TypeInv, NEW p \in Process, AdvanceReturns(p) PROVE TypeInv'
  <1>1. Continue(p, "ack", run[p])
    BY DEF AdvanceReturns, Continue, TypeInv, TypeOK
  <1>2. /\ run[p] \in Local /\ run[p].wake \in WakeValue
        /\ run[p].at = "dispatch" => run[p].queue # << >>
    BY LocalOf DEF AdvanceReturns, TypeInv, HandOK, InCall, Dispatching, Calls, Drains
  <1>3. Machine' /\ HandOK'
    BY <1>1, <1>2, ContinueTypes, HandContinue, TypeParts DEF TypeInv, Stages
  <1>4. check' \in [Campaign -> Time \cup {Never}]
    BY DEF AdvanceReturns, TypeInv, TypeOK
  <1> QED BY <1>3, <1>4, Typed DEF AdvanceReturns, TypeInv, TypeOK, Tables, tables

Replayed(p, w) ==
    [Skipped(p, w) EXCEPT !.replayed = IF w.kind = "due" THEN @ \cup {w.campaign} ELSE @]

LEMMA ReplayedType ==
    ASSUME TypeInv, NEW p \in Process, NEW w \in WakeValue
    PROVE  /\ Replayed(p, w) \in Local
           /\ Replayed(p, w).at = run[p].at /\ Replayed(p, w).queue = run[p].queue
           /\ Replayed(p, w).todo = run[p].todo \ {w}
           /\ Replayed(p, w).took = FALSE
  <1> DEFINE s == Skipped(p, w)
              S == IF w.kind = "due" THEN s.replayed \cup {w.campaign} ELSE s.replayed
  <1>0. s \in Local /\ w.campaign \in Campaign
    BY WakeValueOf, SkippedType
  <1>1. s \in Local /\ S \in SUBSET Campaign
    <2>1. s.replayed \in SUBSET Campaign
      <3> HIDE DEF s
      <3> QED BY <1>0 DEF Local
    <2> QED BY <1>0, <2>1
  <1>2. Replayed(p, w) = [s EXCEPT !.replayed = S]
    BY DEF Replayed
  <1> HIDE DEF s, S
  <1>3. /\ Replayed(p, w) \in Local
        /\ Replayed(p, w).at = s.at /\ Replayed(p, w).queue = s.queue
        /\ Replayed(p, w).todo = s.todo /\ Replayed(p, w).took = s.took
    BY <1>1, <1>2 DEF Local
  <1> QED BY <1>3, SkippedType DEF s

LEMMA AckTypes ==
    ASSUME TypeInv, NEW p \in Process, Ack(p) PROVE TypeInv'
  <1>1. /\ run[p].wake \in WakeValue
        /\ run[p].at = "dispatch" => run[p].queue # << >>
    BY DEF Ack, TypeInv, HandOK, InCall, Dispatching, Calls, Drains
  <1>2. Drain(p, Replayed(p, run[p].wake))
    BY DEF Ack, Replayed
  <1>3. Machine' /\ HandOK'
    BY <1>1, <1>2, ReplayedType, DrainTypes, HandDrain, TypeParts DEF TypeInv
  <1>4. lock' \in [Campaign -> Process \cup {Nobody}]
    BY ReleasedTypes DEF Ack, GiveBack, TypeInv, TypeOK
  <1> QED BY <1>3, <1>4, Typed DEF Ack, TypeInv, TypeOK, Tables, world

LEMMA ReadPageTypes ==
    ASSUME TypeInv, NEW p \in Process, ReadPage(p) PROVE TypeInv'
  <1> run[p] \in Local
    BY LocalOf
  <1>1. PICK n \in source.cursor .. published :
          Continue(p, "publish", [run[p] EXCEPT !.page = [from |-> source.cursor, next |-> n]])
    BY DEF ReadPage
  <1>2. source.cursor \in Cursor /\ n \in Cursor
    BY EventsAssumption DEF TypeInv, TypeOK, Cursor
  <1>3. [run[p] EXCEPT !.page = [from |-> source.cursor, next |-> n]] \in Local
    BY <1>2 DEF Local
  <1>4. Machine' /\ HandOK'
    BY <1>1, <1>3, ContinueTypes, HandContinue, TypeParts DEF TypeInv, Stages
  <1> QED BY <1>4, SameTables, Typed DEF ReadPage, TypeInv, TypeOK

NoPageType == NoPage \in [from : Cursor, next : Cursor]

LEMMA NoPageTyped == NoPageType
  BY EventsAssumption DEF NoPageType, NoPage, Cursor

LEMMA SkipPageTypes ==
    ASSUME TypeInv, NEW p \in Process, SkipPage(p) PROVE TypeInv'
  <1>1. [run[p] EXCEPT !.page = NoPage] \in Local
    BY LocalOf, NoPageTyped DEF Local, NoPageType
  <1>2. Machine' /\ HandOK'
    BY <1>1, ContinueTypes, HandContinue, TypeParts DEF SkipPage, TypeInv, Stages
  <1> QED BY <1>2, SameTables, Typed DEF SkipPage, TypeInv, TypeOK

LEMMA CursorConflictTypes ==
    ASSUME TypeInv, NEW p \in Process, CursorConflict(p) PROVE TypeInv'
  <1>1. Machine' /\ HandOK'
    BY FinishTypes, HandFinish, TypeParts DEF CursorConflict, TypeInv
  <1> QED BY <1>1, SameTables, Typed DEF CursorConflict, TypeInv, TypeOK

LEMMA PublishPageTypes ==
    ASSUME TypeInv, NEW p \in Process, PublishPage(p) PROVE TypeInv'
  <1> run[p] \in Local
    BY LocalOf
  <1>1. run[p].page.from \in Cursor /\ run[p].page.next \in Cursor
    BY DEF Local
  <1>2. PageWakes(run[p].page) \subseteq WakeValue
    BY <1>1, EventsAssumption DEF PageWakes, WakeValue, Cursor
  <1>3. wakes' \subseteq WakeValue /\ pending' \subseteq WakeValue
    BY <1>2 DEF PublishPage, TypeInv, TypeOK
  <1>4. source' \in [cursor : Cursor, from : Cursor \cup {-1}]
    BY <1>1 DEF PublishPage
  <1>5. /\ [run[p] EXCEPT !.at = "page", !.todo = pending', !.page = NoPage] \in Local
        /\ [run[p] EXCEPT !.at = "page", !.todo = pending', !.page = NoPage].at = "page"
    BY <1>3, NoPageTyped DEF Local, NoPageType
  <1>6. Machine' /\ HandOK'
    BY <1>5, DrainTypes, HandDrain, TypeParts DEF PublishPage, TypeInv
  <1> QED BY <1>3, <1>4, <1>6, Typed DEF PublishPage, TypeInv, TypeOK, Tables, world
LEMMA SnapshotTypes ==
    ASSUME TypeInv, NEW p \in Process, Snapshot(p) PROVE TypeInv'
  <1> run[p] \in Local
    BY LocalOf
  <1>1. check \in [Campaign -> Time \cup {Never}]
    BY DEF TypeInv, TypeOK
  <1>2. [run[p] EXCEPT !.seen = check] \in Local
    BY <1>1 DEF Local
  <1>3. PICK s \in {"rebuild", "finish"} : Continue(p, s, [run[p] EXCEPT !.seen = check])
    BY DEF Snapshot
  <1>4. Machine' /\ HandOK'
    BY <1>2, <1>3, ContinueTypes, HandContinue, TypeParts DEF TypeInv, Stages
  <1> QED BY <1>4, SameTables, Typed DEF Snapshot, TypeInv, TypeOK

LEMMA NothingSeenType == NothingSeen \in [Campaign -> Time \cup {Never}]
  BY DEF NothingSeen

LEMMA RebuildTypes ==
    ASSUME TypeInv, NEW p \in Process, Rebuild(p) PROVE TypeInv'
  <1> run[p] \in Local
    BY LocalOf
  <1>1. [run[p] EXCEPT !.seen = NothingSeen] \in Local
    BY NothingSeenType DEF Local
  <1>2. Finish(p) \/ Continue(p, "claim", [run[p] EXCEPT !.seen = NothingSeen])
    BY DEF Rebuild
  <1>3. Machine' /\ HandOK'
    BY <1>1, <1>2, ContinueTypes, FinishTypes, HandContinue, HandFinish, TypeParts
       DEF TypeInv, Stages
  <1>4. due' \in [Campaign -> Time \cup {Never}]
    BY DEF Rebuild, Local
  <1> QED BY <1>3, <1>4, Typed DEF Rebuild, TypeInv, TypeOK, Tables, world

Queued(p, s) == [run[p] EXCEPT !.queue = s]

LEMMA QueuedType ==
    ASSUME TypeInv, NEW p \in Process, NEW s \in Seq(Campaign)
    PROVE  /\ Queued(p, s) \in Local /\ Queued(p, s).queue = s
           /\ Queued(p, s).wake = run[p].wake /\ Queued(p, s).took = run[p].took
  BY LocalOf DEF Local, Queued

LEMMA ClaimDueTypes ==
    ASSUME TypeInv, NEW p \in Process, ClaimDue(p) PROVE TypeInv'
  <1>1. PICK s : /\ s \in SetToSeqs({c \in Available(p) : ~Leased(p, c)})
                 /\ Proceed(p, Queued(p, s))
    BY DEF ClaimDue, Queued
  <1>2. s \in Seq(Campaign)
    BY <1>1, OrderedClaims DEF Available
  <1>3. Machine' /\ HandOK'
    BY <1>1, <1>2, QueuedType, ProceedTypes, HandProceed, TypeParts DEF TypeInv
  <1>4. /\ claims' \in [Campaign -> Process \cup {Nobody}]
        /\ lock' \in [Campaign -> Process \cup {Nobody}]
    BY DEF ClaimDue, TypeInv, TypeOK
  <1> QED BY <1>3, <1>4, Typed DEF ClaimDue, TypeInv, TypeOK, Tables, world

LEMMA HandTarget ==
    ASSUME TypeInv, NEW p \in Process, pc[p] \in {"look", "after"} \/ Dispatching(p)
    PROVE  /\ run[p].queue \in Seq(Campaign) /\ run[p].queue # << >>
           /\ Target(p) \in Campaign /\ Target(p) = run[p].queue[1]
           /\ Tail(run[p].queue) \in Seq(Campaign)
  <1>1. run[p].queue \in Seq(Campaign) /\ run[p].queue # << >>
    BY LocalOf DEF Local, TypeInv, HandOK
  <1> QED BY <1>1 DEF Target

LEMMA GiveUpTypes ==
    ASSUME TypeInv, NEW p \in Process, NEW a, GiveUp(p, a)
    PROVE  /\ due' \in [Campaign -> Time \cup {Never}]
           /\ claims' \in [Campaign -> Process \cup {Nobody}]
           /\ lock' \in [Campaign -> Process \cup {Nobody}]
  BY ReleasedTypes, UnclaimedTypes DEF GiveUp, TypeInv, TypeOK

LEMMA NotDueTypes ==
    ASSUME TypeInv, NEW p \in Process, NotDue(p) PROVE TypeInv'
  <1> run[p] \in Local
    BY LocalOf
  <1>1. Proceed(p, Queued(p, Tail(run[p].queue)))
    BY DEF NotDue, Queued
  <1>2. Tail(run[p].queue) \in Seq(Campaign)
    BY HandTarget DEF NotDue
  <1>3. Machine' /\ HandOK'
    BY <1>1, <1>2, QueuedType, ProceedTypes, HandProceed, TypeParts DEF TypeInv
  <1> QED BY <1>3, GiveUpTypes, Typed DEF NotDue, TypeInv, TypeOK, Tables, world

Settled(p) == [run[p] EXCEPT !.queue = Tail(@), !.before = Never, !.advanced = TRUE]

LEMMA SettledType ==
    ASSUME TypeInv, NEW p \in Process, pc[p] = "after"
    PROVE  /\ Settled(p) \in Local /\ Settled(p).queue = Tail(run[p].queue)
           /\ Settled(p).wake = run[p].wake /\ Settled(p).took = run[p].took
  <1>1. run[p] \in Local /\ Tail(run[p].queue) \in Seq(Campaign)
    BY LocalOf, HandTarget
  <1>2. Never \in Time \cup {Never}
    OBVIOUS
  <1> QED BY <1>1, <1>2 DEF Settled, Local

LEMMA SettleClaimTypes ==
    ASSUME TypeInv, NEW p \in Process, SettleClaim(p) PROVE TypeInv'
  <1>1. Proceed(p, Settled(p)) /\ GiveUp(p, check[Target(p)] # run[p].before)
    BY DEF SettleClaim, Settled
  <1>2. Machine' /\ HandOK'
    BY <1>1, SettledType, ProceedTypes, HandProceed, TypeParts DEF TypeInv, SettleClaim
  <1> QED BY <1>1, <1>2, GiveUpTypes, Typed DEF SettleClaim, TypeInv, TypeOK, Tables, world

Recorded(p, n, T) == [run[p] EXCEPT !.before = n, !.at = "dispatch", !.todo = T]

LEMMA RecordedType ==
    ASSUME TypeInv, NEW p \in Process, NEW n \in Time \cup {Never}, NEW T \in SUBSET WakeValue
    PROVE  /\ Recorded(p, n, T) \in Local /\ Recorded(p, n, T).todo = T
           /\ Recorded(p, n, T).queue = run[p].queue /\ Recorded(p, n, T).at = "dispatch"
           /\ Recorded(p, n, T).wake = run[p].wake /\ Recorded(p, n, T).took = run[p].took
  BY LocalOf DEF Local, Recorded

LEMMA RecordDueTypes ==
    ASSUME TypeInv, NEW p \in Process, RecordDue(p) PROVE TypeInv'
  <1>1. /\ Target(p) \in Campaign /\ run[p].queue # << >>
    BY HandTarget DEF RecordDue
  <1>2. check[Target(p)] \in Time
    BY <1>1 DEF RecordDue, IsDue, TypeInv, TypeOK
  <1>3. pending' \subseteq WakeValue
    BY <1>1, <1>2 DEF RecordDue, DueWake, WakeValue, TypeInv, TypeOK
  <1>4. Drain(p, Recorded(p, check[Target(p)], pending'))
    BY DEF RecordDue, Recorded
  <1>5. Machine' /\ HandOK'
    BY <1>1, <1>2, <1>3, <1>4, RecordedType, DrainTypes, HandDrain, TypeParts DEF TypeInv
  <1> QED BY <1>3, <1>5, Typed DEF RecordDue, TypeInv, TypeOK, Tables, world

LEMMA FailTypes ==
    ASSUME TypeInv, NEW p \in Process, Fail(p) PROVE TypeInv'
  <1>1. Machine' /\ HandOK'
    BY FinishTypes, HandFinish, TypeParts DEF Fail, TypeInv
  <1>2. lock' \in [Campaign -> Process \cup {Nobody}]
    BY DEF Fail, TypeInv, TypeOK
  <1>3. claims' \in [Campaign -> Process \cup {Nobody}]
    BY UnclaimedTypes DEF Fail, TypeInv, TypeOK
  <1>4. faults' \in 0 .. MaxFault
    BY MaxFaultAssumption DEF Fail, TypeInv, TypeOK
  <1> QED BY <1>1, <1>2, <1>3, <1>4, Typed DEF Fail, TypeInv, TypeOK, Tables, world

LEMMA DieTypes ==
    ASSUME TypeInv, NEW p \in Process, Die(p) PROVE TypeInv'
  <1>1. Machine' /\ HandOK'
    BY FinishTypes, HandFinish, TypeParts DEF Die, TypeInv
  <1>2. /\ lock' \in [Campaign -> Process \cup {Nobody}]
        /\ claims' \in [Campaign -> Process \cup {Nobody}]
    BY DEF Die, TypeInv, TypeOK
  <1>3. faults' \in 0 .. MaxFault
    BY MaxFaultAssumption DEF Die, TypeInv, TypeOK
  <1> QED BY <1>1, <1>2, <1>3, Typed DEF Die, TypeInv, TypeOK, Tables, world

LEMMA SameMachine ==
    ASSUME TypeInv, UNCHANGED <<lock, pc, run>>
    PROVE  Machine' /\ HandOK' /\ lock' \in [Campaign -> Process \cup {Nobody}]
  BY DEF TypeInv, TypeOK, Machine, HandOK, InCall, Dispatching, Calls, Drains

LEMMA TickTypes == ASSUME TypeInv, Tick PROVE TypeInv'
  BY SameMachine, Typed DEF Tick, TypeInv, TypeOK, Tables, tables

LEMMA PublishEventTypes == ASSUME TypeInv, PublishEvent PROVE TypeInv'
  <1>1. published' \in Cursor
    BY EventsAssumption DEF PublishEvent, TypeInv, TypeOK, Cursor
  <1> QED BY <1>1, SameMachine, Typed DEF PublishEvent, TypeInv, TypeOK, Tables, tables

LEMMA ExpireTypes == ASSUME TypeInv, NEW c \in Campaign, Expire(c) PROVE TypeInv'
  <1>1. claims' \in [Campaign -> Process \cup {Nobody}]
    BY DEF Expire, TypeInv, TypeOK
  <1> QED BY <1>1, SameMachine, Typed DEF Expire, TypeInv, TypeOK, Tables, world

LEMMA TypeStep == ASSUME TypeInv, [Next]_vars PROVE TypeInv'
  <1>1. CASE UNCHANGED vars
    BY <1>1, SameMachine, Typed, SameTables DEF vars
  <1>2. CASE Tick \/ PublishEvent \/ \E c \in Campaign : Expire(c)
    BY <1>2, TickTypes, PublishEventTypes, ExpireTypes
  <1>3. CASE \E p \in Process : Step(p) \/ Fail(p) \/ Die(p)
    <2> PICK p \in Process : Step(p) \/ Fail(p) \/ Die(p)
      BY <1>3
    <2> QED BY BeginTypes, NextWakeTypes, AdvanceReturnsTypes, AckTypes, ReadPageTypes,
               SkipPageTypes, CursorConflictTypes, PublishPageTypes, SnapshotTypes,
               RebuildTypes, ClaimDueTypes, NotDueTypes, RecordDueTypes, SettleClaimTypes,
               FailTypes, DieTypes DEF Step
  <1> QED BY <1>1, <1>2, <1>3 DEF Next

\* Every variable, every local of a run and every wake it holds has its type.
THEOREM TypeCorrect == Spec => []TypeInv
  BY InitTypes, TypeStep, PTL DEF Spec
------------------------------------------------------------------------------
(* No wake is lost *)

LEMMA StreamOther ==
    ASSUME TypeInv, Stream, NEW p \in Process, UNCHANGED <<wakes, source>>,
           \A q \in Process \ {p} : pc'[q] = pc[q] /\ run'[q] = run[q],
           pc'[p] # "publish"
    PROVE  Stream'
  BY DEF Stream

LEMMA StreamSame ==
    ASSUME Stream, UNCHANGED <<wakes, source, pc, run>> PROVE Stream'
  BY DEF Stream

\* A step changes the stage and the locals of one process.
LEMMA ContinueOnly ==
    ASSUME TypeInv, NEW p \in Process, NEW s, NEW r, Continue(p, s, r)
    PROVE  /\ \A q \in Process \ {p} : pc'[q] = pc[q] /\ run'[q] = run[q]
           /\ pc'[p] = s /\ run'[p] = r
  BY DEF Continue, Goto, TypeInv, TypeOK

LEMMA FinishOnly ==
    ASSUME TypeInv, NEW p \in Process, Finish(p)
    PROVE  /\ \A q \in Process \ {p} : pc'[q] = pc[q] /\ run'[q] = run[q]
           /\ pc'[p] = "idle" /\ run'[p] = Idle
  BY ContinueOnly DEF Finish

LEMMA DrainOnly ==
    ASSUME TypeInv, NEW p \in Process, NEW r \in Local, Drain(p, r)
    PROVE  /\ \A q \in Process \ {p} : pc'[q] = pc[q] /\ run'[q] = run[q]
           /\ pc'[p] = Drained(r) /\ run'[p] = r
           /\ pc'[p] \in {"drain", "read", "snapshot", "after"}
  <1>1. Drained(r) \in {"drain", "read", "snapshot", "after"}
    BY DEF Drained, Local
  <1> QED BY <1>1, ContinueOnly DEF Drain

LEMMA ProceedOnly ==
    ASSUME TypeInv, NEW p \in Process, NEW r, Proceed(p, r)
    PROVE  /\ \A q \in Process \ {p} : pc'[q] = pc[q] /\ run'[q] = run[q]
           /\ \/ pc'[p] \in {"look", "survey"} /\ run'[p] = r
              \/ pc'[p] = "idle" /\ run'[p] = Idle
  BY ContinueOnly, FinishOnly DEF Proceed

LEMMA EventWakeAt == ASSUME NEW k PROVE EventWake(k).at = k
  BY DEF EventWake

LEMMA WakeAt == ASSUME NEW w \in WakeValue PROVE w.at \in Int
  <1>1. DOMAIN Events \subseteq Int
    BY EventsAssumption
  <1>2. CASE w \in [kind : {"due"}, campaign : Campaign, at : Time]
    <2>1. w.at \in Time
      BY <1>2
    <2>2. \A t \in Time : t \in Int
      BY TimeAssumption
    <2> QED BY <2>1, <2>2
  <1>3. CASE \E k \in DOMAIN Events : w = EventWake(k)
    BY <1>1, <1>3, EventWakeAt
  <1> QED BY <1>2, <1>3 DEF WakeValue

\* The new wakes of a page, and the cursor that passes them.
LEMMA PublishedPage ==
    ASSUME TypeInv, Stream, NEW p \in Process, PublishPage(p)
    PROVE  /\ source'.cursor \in Cursor /\ source.cursor <= source'.cursor
           /\ source' # NoSource
           /\ \A w \in wakes' : w.at <= source'.cursor
           /\ \A k \in source.cursor + 1 .. source'.cursor : EventWake(k) \in pending'
           /\ pending \subseteq pending'
           /\ pc'[p] # "publish"
           /\ \A q \in Process \ {p} : pc'[q] = pc[q] /\ run'[q] = run[q]
  <1> DEFINE page == run[p].page
  <1>0. run[p] \in Local
    BY LocalOf
  <1>1. page.from \in Cursor /\ page.next \in Cursor /\ page.from <= page.next
    BY <1>0 DEF PublishPage, Stream, Local
  <1>2. source.cursor \in Cursor /\ Cursor \subseteq Nat
    BY EventsAssumption DEF TypeInv, TypeOK, Cursor
  <1>12. page.from \in Nat /\ page.next \in Nat /\ source.cursor \in Nat
    BY <1>1, <1>2
  <1>3. page.from = source.cursor
    BY DEF PublishPage, Overtaken, Stream, NoSource
  <1>4. source' = [cursor |-> page.next, from |-> page.from]
    BY DEF PublishPage
  <1>5. source' # NoSource
    BY <1>1, <1>2, <1>4 DEF NoSource
  <1>6. /\ wakes' = wakes \cup PageWakes(page)
        /\ pending' = pending \cup (PageWakes(page) \ wakes)
    BY DEF PublishPage
  <1>7. \A w \in PageWakes(page) : w.at \in Nat /\ w.at <= page.next
    <2> SUFFICES ASSUME NEW k \in page.from + 1 .. page.next
                 PROVE  k \in Nat /\ k <= page.next
      BY EventWakeAt DEF PageWakes
    <2> QED BY <1>12
  <1>8. \A w \in wakes' : w.at <= source'.cursor
    <2> SUFFICES ASSUME NEW w \in wakes' PROVE w.at <= page.next
      BY <1>4
    <2>1. CASE w \in PageWakes(page)
      BY <2>1, <1>7
    <2>2. CASE w \in wakes
      <3>1. w \in WakeValue /\ w.at <= source.cursor
        BY <2>2 DEF Stream, TypeInv, TypeOK
      <3>2. w.at \in Int
        BY <3>1, WakeAt
      <3> QED BY <3>1, <3>2, <1>1, <1>12, <1>3
    <2> QED BY <2>1, <2>2, <1>6
  <1>9. \A k \in source.cursor + 1 .. source'.cursor : EventWake(k) \in pending'
    <2> SUFFICES ASSUME NEW k \in source.cursor + 1 .. page.next
                 PROVE  EventWake(k) \in pending'
      BY <1>4
    <2>1. EventWake(k) \in PageWakes(page)
      BY <1>3 DEF PageWakes
    <2>2. EventWake(k) \notin wakes
      <3>1. EventWake(k) \in wakes => k <= source.cursor
        BY EventWakeAt DEF Stream
      <3> QED BY <3>1, <1>12
    <2> QED BY <2>1, <2>2, <1>6
  <1>10. [run[p] EXCEPT !.at = "page", !.todo = pending', !.page = NoPage] \in Local
    <2>1. pending' \subseteq WakeValue
      BY PublishPageTypes DEF TypeInv, TypeOK
    <2> QED BY <1>0, <2>1, NoPageTyped DEF Local, NoPageType
  <1>11. pc'[p] # "publish" /\ \A q \in Process \ {p} : pc'[q] = pc[q] /\ run'[q] = run[q]
    BY <1>10, DrainOnly DEF PublishPage
  <1> QED BY <1>1, <1>2, <1>3, <1>4, <1>5, <1>6, <1>8, <1>9, <1>11

\* What a step does to the stream and to the pending wakes.
StreamKept ==
    /\ Stream'
    /\ \A k \in source.cursor + 1 .. source'.cursor : EventWake(k) \in pending'
    /\ \A w \in pending \ pending' : Answered(w)

LEMMA StreamQuiet ==
    ASSUME TypeInv, Stream', UNCHANGED <<source>>,
           \A w \in pending \ pending' : Answered(w)
    PROVE  StreamKept
  <1>1. source.cursor + 1 .. source.cursor = {}
    BY EventsAssumption DEF TypeInv, TypeOK, Cursor
  <1> QED BY <1>1 DEF StreamKept

LEMMA ReadPageStream ==
    ASSUME TypeInv, Stream, NEW p \in Process, ReadPage(p) PROVE Stream'
  <1>1. PICK n \in source.cursor .. published :
          Continue(p, "publish", [run[p] EXCEPT !.page = [from |-> source.cursor, next |-> n]])
    BY DEF ReadPage
  <1>2. run[p] \in Local /\ source.cursor \in Int
    BY LocalOf, EventsAssumption DEF TypeInv, TypeOK, Cursor
  <1>3. /\ \A q \in Process \ {p} : pc'[q] = pc[q] /\ run'[q] = run[q]
        /\ run'[p].page = [from |-> source.cursor, next |-> n]
    BY <1>1, <1>2, ContinueOnly DEF Local
  <1>4. source.cursor <= n
    BY <1>1, <1>2
  <1> QED BY <1>3, <1>4 DEF ReadPage, Stream, NoSource, tables

LEMMA PublishPageStream ==
    ASSUME TypeInv, Stream, NEW p \in Process, PublishPage(p) PROVE StreamKept
  <1>1. Stream'
    BY PublishedPage DEF Stream
  <1> QED BY <1>1, PublishedPage DEF StreamKept
LEMMA BeginLocal ==
    ASSUME TypeInv
    PROVE  [Idle EXCEPT !.now = clock, !.todo = pending] \in Local
  BY IdleType DEF TypeInv, TypeOK, Local

LEMMA StreamStep == ASSUME TypeInv, Stream, [Next]_vars PROVE StreamKept
  <1> USE DEF Step
  <1>1. CASE UNCHANGED vars \/ Tick \/ PublishEvent \/ \E c \in Campaign : Expire(c)
    <2>1. UNCHANGED <<wakes, pending, source, pc, run>>
      BY <1>1 DEF vars, tables, Tick, PublishEvent, Expire
    <2> QED BY <2>1, StreamSame, StreamQuiet
  <1>2. CASE \E p \in Process : Step(p) \/ Fail(p) \/ Die(p)
    <2> PICK p \in Process : Step(p) \/ Fail(p) \/ Die(p)
      BY <1>2
    <2> DEFINE Quiet == /\ \A q \in Process \ {p} : pc'[q] = pc[q] /\ run'[q] = run[q]
                        /\ pc'[p] # "publish"
    <2> run[p] \in Local
      BY LocalOf
    <2>1. CASE Begin(p)
      <3>1. Quiet
        BY <2>1, BeginLocal, DrainOnly DEF Begin
      <3> QED BY <2>1, <3>1, StreamOther, StreamQuiet DEF Begin, tables
    <2>2. CASE NextWake(p)
      <3>1. PICK w \in run[p].todo, t \in BOOLEAN :
              Drain(p, Skipped(p, w)) \/ Continue(p, "advance", Carrying(p, w, t))
        BY <2>2 DEF NextWake, Locks
      <3>2. Quiet
        <4>1. CASE Drain(p, Skipped(p, w))
          <5>1. Skipped(p, w) \in Local
            BY SkippedType
          <5> QED BY <4>1, <5>1, DrainOnly
        <4>2. CASE Continue(p, "advance", Carrying(p, w, t))
          BY <4>2, ContinueOnly
        <4> QED BY <3>1, <4>1, <4>2
      <3> QED BY <2>2, <3>2, StreamOther, StreamQuiet DEF NextWake, tables
    <2>3. CASE AdvanceReturns(p)
      <3>1. Quiet
        BY <2>3 DEF AdvanceReturns, Goto, TypeInv, TypeOK
      <3> QED BY <2>3, <3>1, StreamOther, StreamQuiet DEF AdvanceReturns, tables
    <2>4. CASE Ack(p)
      <3>1. run[p].wake \in WakeValue /\ Drain(p, Replayed(p, run[p].wake))
        BY <2>4 DEF Ack, Replayed, TypeInv, HandOK, InCall, Calls
      <3>2. Quiet
        BY <3>1, ReplayedType, DrainOnly
      <3>3. \A w \in pending \ pending' : Answered(w)
        BY <2>4 DEF Ack, Answered
      <3> QED BY <2>4, <3>2, <3>3, StreamOther, StreamQuiet DEF Ack
    <2>5. CASE ReadPage(p)
      BY <2>5, ReadPageStream, StreamQuiet DEF ReadPage, tables
    <2>6. CASE PublishPage(p)
      BY <2>6, PublishPageStream
    <2>7. CASE SkipPage(p) \/ Snapshot(p)
      <3>1. Quiet
        BY <2>7, ContinueOnly DEF SkipPage, Snapshot
      <3> QED BY <2>7, <3>1, StreamOther, StreamQuiet DEF SkipPage, Snapshot, tables
    <2>8. CASE CursorConflict(p) \/ Fail(p) \/ Die(p)
      <3>1. Quiet
        BY <2>8, FinishOnly DEF CursorConflict, Fail, Die
      <3> QED BY <2>8, <3>1, StreamOther, StreamQuiet DEF CursorConflict, Fail, Die, tables
    <2>9. CASE Rebuild(p)
      <3>1. Quiet
        BY <2>9, FinishOnly, ContinueOnly DEF Rebuild
      <3> QED BY <2>9, <3>1, StreamOther, StreamQuiet DEF Rebuild
    <2>10. CASE ClaimDue(p) \/ NotDue(p) \/ SettleClaim(p)
      <3>1. PICK r : Proceed(p, r)
        BY <2>10 DEF ClaimDue, NotDue, SettleClaim
      <3>2. Quiet
        BY <3>1, ProceedOnly
      <3>3. UNCHANGED <<wakes, pending, source>>
        BY <2>10 DEF ClaimDue, NotDue, SettleClaim
      <3> QED BY <3>2, <3>3, StreamOther, StreamQuiet
    <2>11. CASE RecordDue(p)
      <3>1. check[Target(p)] \in Time \cup {Never} /\ pending' \in SUBSET WakeValue
        BY <2>11, HandTarget, RecordDueTypes DEF RecordDue, TypeInv, TypeOK
      <3>2. Drain(p, Recorded(p, check[Target(p)], pending'))
        BY <2>11 DEF RecordDue, Recorded
      <3>3. Quiet
        BY <3>1, <3>2, RecordedType, DrainOnly
      <3> QED BY <2>11, <3>3, StreamOther, StreamQuiet DEF RecordDue
    <2> QED BY <2>1, <2>2, <2>3, <2>4, <2>5, <2>6, <2>7, <2>8, <2>9, <2>10, <2>11
  <1> QED BY <1>1, <1>2 DEF Next

LEMMA InitStream == Init => Stream
  BY DEF Init, Stream

\* Whatever fails or dies: the cursor passes no event without its wake, and a wake
\* stays pending until an advance has returned with it.
THEOREM NoWakeLost == Spec => WakesKept
  <1>1. Init => TypeInv /\ Stream
    BY InitTypes, InitStream
  <1>2. TypeInv /\ Stream /\ [Next]_vars => (TypeInv /\ Stream)'
    BY TypeStep, StreamStep DEF StreamKept
  <1>3. TypeInv /\ Stream /\ [Next]_vars =>
          [ /\ \A k \in source.cursor + 1 .. source'.cursor : EventWake(k) \in pending'
            /\ \A w \in pending \ pending' : Answered(w) ]_vars
    BY StreamStep DEF StreamKept
  <1> QED BY <1>1, <1>2, <1>3, PTL DEF Spec, WakesKept
------------------------------------------------------------------------------
(* The due lock *)

Others(p) ==
    \A q \in Process \ {p} :
        /\ pc'[q] = pc[q] /\ run'[q] = run[q]
        /\ \A c \in Campaign : lock[c] = q => lock'[c] = q

LEMMA QueueType ==
    ASSUME TypeInv, NEW p \in Process
    PROVE  run[p].queue \in Seq(Campaign)
           /\ \A i \in DOMAIN run[p].queue : run[p].queue[i] \in Campaign
  <1>1. run[p].queue \in Seq(Campaign)
    BY LocalOf DEF Local
  <1> QED BY <1>1

\* It is enough to look at the process that takes the step.
LEMMA ClaimsStep ==
    ASSUME TypeInv, Claims, NEW p \in Process, Others(p),
           Owns(lock', p, pc'[p], run'[p]),
           \A w \in pending' : w.kind = "due" =>
               \/ Serves(pc'[p], run'[p], w)
               \/ w \in pending /\ ~Serves(pc[p], run[p], w)
    PROVE  Claims'
  <1>1. ASSUME NEW q \in Process PROVE Owns(lock', q, pc'[q], run'[q])
    <2>1. CASE q = p
      BY <2>1
    <2>2. CASE q # p
      <3>1. pc'[q] = pc[q] /\ run'[q] = run[q]
        BY <2>2 DEF Others
      <3>2. Owns(lock, q, pc[q], run[q])
        BY DEF Claims
      <3>3. \A i \in DOMAIN run[q].queue : lock'[run[q].queue[i]] = q
        BY <2>2, <3>2, QueueType DEF Others, Owns, Keeps
      <3> QED BY <3>1, <3>2, <3>3 DEF Owns, Keeps
    <2> QED BY <2>1, <2>2
  <1>2. ASSUME NEW w \in pending', w.kind = "due"
        PROVE  \E q \in Process : Serves(pc'[q], run'[q], w)
    <2>1. CASE w \in pending /\ ~Serves(pc[p], run[p], w)
      <3>1. PICK q \in Process : Serves(pc[q], run[q], w)
        BY <1>2, <2>1 DEF Claims, Served
      <3>2. q # p /\ pc'[q] = pc[q] /\ run'[q] = run[q]
        BY <2>1, <3>1 DEF Others
      <3> QED BY <3>1, <3>2
    <2> QED BY <1>2, <2>1
  <1> QED BY <1>1, <1>2 DEF Claims, Served

\* A pending due wake: the process that serves it has the lock of its Campaign.
LEMMA ServedLock ==
    ASSUME TypeInv, Claims, NEW q \in Process, NEW w, Serves(pc[q], run[q], w)
    PROVE  lock[w.campaign] = q
  <1>1. Dispatching(q)
    BY DEF Serves, Dispatching
  <1>2. run[q].queue # << >> /\ run[q].queue \in Seq(Campaign)
    BY <1>1, HandTarget
  <1>3. w.campaign = run[q].queue[1] /\ 1 \in DOMAIN run[q].queue
    BY <1>2 DEF Serves
  <1> QED BY <1>3 DEF Claims, Owns, Keeps

\* With an empty queue there is nothing to keep.
LEMMA OwnsNothing ==
    ASSUME NEW l, NEW p, NEW s, NEW r, r.queue = << >>, s \notin Calls,
           r.at = "dispatch" => s \notin Drains
    PROVE  Owns(l, p, s, r)
  BY DEF Owns, Keeps, Carries, Spares, Early, Calls, Drains

LEMMA NobodyElse == ASSUME NEW p \in Process PROVE p # Nobody
  BY NobodyAssumption

LEMMA SameLockOthers ==
    ASSUME NEW p \in Process, UNCHANGED lock,
           \A q \in Process \ {p} : pc'[q] = pc[q] /\ run'[q] = run[q]
    PROVE  Others(p)
  BY DEF Others

\* A process that gives a lock back gives back its own.
LEMMA ReleasedOthers ==
    ASSUME TypeInv, NEW p \in Process, NEW c, lock' = Released(p, c),
           \A q \in Process \ {p} : pc'[q] = pc[q] /\ run'[q] = run[q]
    PROVE  Others(p)
  BY NobodyAssumption DEF Others, Released, TypeInv, TypeOK

LEMMA BeginClaims ==
    ASSUME TypeInv, Claims, NEW p \in Process, Begin(p) PROVE Claims'
  <1> DEFINE r == [Idle EXCEPT !.now = clock, !.todo = pending]
  <1>1. r \in Local /\ r.queue = << >> /\ r.at = "start"
    BY BeginLocal DEF Idle
  <1>2. Drain(p, r)
    BY DEF Begin
  <1> HIDE DEF r
  <1>3. /\ \A q \in Process \ {p} : pc'[q] = pc[q] /\ run'[q] = run[q]
        /\ pc'[p] \in {"drain", "read", "snapshot", "after"} /\ run'[p] = r
    BY <1>1, <1>2, DrainOnly
  <1>4. Others(p)
    BY <1>3, SameLockOthers DEF Begin
  <1>5. Owns(lock', p, pc'[p], run'[p])
    BY <1>1, <1>3, OwnsNothing DEF Calls, Drains
  <1>6. \A w : ~Serves(pc[p], run[p], w)
    BY DEF Begin, Serves, Calls, Drains
  <1> QED BY <1>4, <1>5, <1>6, ClaimsStep DEF Begin, tables

\* A run that ends keeps nothing.
LEMMA FinishClaims ==
    ASSUME TypeInv, Claims, NEW p \in Process, Finish(p), UNCHANGED <<lock, pending>>,
           pc[p] \notin Drains
    PROVE  Claims'
  <1>1. Others(p)
    BY FinishOnly, SameLockOthers
  <1>2. Owns(lock', p, pc'[p], run'[p])
    BY FinishOnly, OwnsNothing DEF Calls, Drains, Idle
  <1> QED BY <1>1, <1>2, ClaimsStep DEF Serves

\* A step outside the drains that leaves the claims of its run alone.
LEMMA QuietClaims ==
    ASSUME TypeInv, Claims, NEW p \in Process, UNCHANGED <<lock, pending>>,
           \A q \in Process \ {p} : pc'[q] = pc[q] /\ run'[q] = run[q],
           pc[p] \notin Drains, pc'[p] \notin Drains, run'[p].queue = run[p].queue,
           pc'[p] \in {"read", "publish"} => pc[p] \in {"read", "publish"}
    PROVE  Claims'
  <1>1. Others(p)
    BY SameLockOthers
  <1>2. Owns(lock, p, pc[p], run[p])
    BY DEF Claims
  <1>3. Keeps(lock, p, run'[p])
    BY <1>2 DEF Owns, Keeps
  <1>4. Carries(pc'[p], run'[p]) /\ Spares(pc'[p], run'[p])
    BY DEF Carries, Spares, Drains
  <1>5. Early(pc'[p], run'[p])
    BY <1>2 DEF Owns, Early
  <1> QED BY <1>1, <1>3, <1>4, <1>5, ClaimsStep DEF Owns, Serves

\* A drain that is done with one wake of its list.
LEMMA DrainClaims ==
    ASSUME TypeInv, Claims, NEW p \in Process, NEW w, NEW r \in Local, Drain(p, r),
           pc[p] \in Drains, Others(p), Keeps(lock', p, run[p]),
           r.at = run[p].at, r.queue = run[p].queue, r.todo = run[p].todo \ {w},
           pending' \subseteq pending,
           \A v \in pending' :
               v.kind = "due" /\ Serves(pc[p], run[p], v) => v \in run[p].todo \ {w}
    PROVE  Claims'
  <1>1. /\ pc'[p] = Drained(r) /\ run'[p] = r
        /\ pc'[p] \in {"drain", "read", "snapshot", "after"}
    BY DrainOnly
  <1>2. Owns(lock, p, pc[p], run[p])
    BY DEF Claims
  <1>3. Keeps(lock', p, r)
    BY DEF Keeps
  <1>4. Carries(pc'[p], r)
    BY <1>1 DEF Carries, Calls
  <1>5. Spares(pc'[p], r)
    BY <1>2 DEF Owns, Spares
  <1>6. Early(pc'[p], r)
    <2>1. pc'[p] = "read" => r.at # "dispatch"
      BY <1>1 DEF Drained, Local
    <2>2. pc'[p] # "publish"
      BY <1>1
    <2> QED BY <1>2, <2>1, <2>2 DEF Owns, Early
  <1>7. ASSUME NEW v \in pending', v.kind = "due"
        PROVE  \/ Serves(pc'[p], r, v)
               \/ v \in pending /\ ~Serves(pc[p], run[p], v)
    <2>1. CASE Serves(pc[p], run[p], v)
      <3>1. v \in r.todo
        BY <1>7, <2>1
      <3>2. pc'[p] \in Drains
        BY <1>1, <3>1 DEF Drained, Drains
      <3> QED BY <2>1, <3>1, <3>2 DEF Serves
    <2> QED BY <1>7, <2>1
  <1> QED BY <1>1, <1>3, <1>4, <1>5, <1>6, <1>7, ClaimsStep DEF Owns

LEMMA NextWakeClaims ==
    ASSUME TypeInv, Claims, NEW p \in Process, NextWake(p) PROVE Claims'
  <1>1. PICK w \in run[p].todo :
          LET took == Locks(p, w)
              lockedOut == took /\ lock[w.campaign] \notin {Nobody, p}
              current == w.kind = "due" => w \in pending
          IN  \/ lockedOut /\ Drain(p, Skipped(p, w)) /\ UNCHANGED lock
              \/ /\ ~lockedOut /\ ~current
                 /\ Drain(p, Skipped(p, w)) /\ GiveBack(p, w, took)
              \/ /\ ~lockedOut /\ current
                 /\ Continue(p, "advance", Carrying(p, w, took))
                 /\ lock' = IF took THEN [lock EXCEPT ![w.campaign] = p] ELSE lock
    BY DEF NextWake
  <1>2. /\ pc[p] = "drain" /\ run[p] \in Local /\ w \in WakeValue
        /\ pending' = pending
    BY LocalOf DEF NextWake, Local, tables
  <1>3. Owns(lock, p, pc[p], run[p])
    BY DEF Claims
  <1>4. Serves(pc[p], run[p], w) /\ w.kind = "due" => ~Locks(p, w) /\ w \in run[p].todo
    BY DEF Serves, Locks, Dispatches
  <1>5. Locks(p, w) \in BOOLEAN
    BY DEF Locks
  \* Only the process that serves a due wake gets as far as its advance.
  <1>6. w.kind = "due" /\ w \in pending /\ Locks(p, w) =>
          lock[w.campaign] \notin {Nobody, p}
    <2> SUFFICES ASSUME w.kind = "due", w \in pending, Locks(p, w)
                 PROVE  lock[w.campaign] \notin {Nobody, p}
      OBVIOUS
    <2>1. PICK q \in Process : Serves(pc[q], run[q], w)
      BY DEF Claims, Served
    <2>2. lock[w.campaign] = q
      BY <2>1, ServedLock
    <2>3. q # p
      BY <1>4, <2>1
    <2> QED BY <2>2, <2>3, NobodyElse
  <1>7. CASE Drain(p, Skipped(p, w)) /\ (UNCHANGED lock \/ GiveBack(p, w, Locks(p, w)))
             /\ (w.kind = "due" /\ w \in pending => Locks(p, w))
    <2>1. Skipped(p, w) \in Local
      BY SkippedType
    <2>2. Others(p)
      BY <1>7, <2>1, DrainOnly, SameLockOthers, ReleasedOthers DEF GiveBack
    <2>3. Keeps(lock', p, run[p])
      <3>1. CASE UNCHANGED lock
        BY <1>3, <3>1 DEF Owns, Keeps
      <3>2. CASE ~UNCHANGED lock
        <4>1. /\ lock' = Released(p, w.campaign) /\ w.kind = "due"
              /\ ~Dispatches(p, w)
          BY <1>7, <3>2 DEF GiveBack, Locks
        <4>2. \A i \in DOMAIN run[p].queue : run[p].queue[i] # w.campaign
          <5>1. CASE run[p].at = "dispatch"
            BY <1>2, <1>3, <4>1, <5>1 DEF Owns, Spares, Dispatches, Drains
          <5>2. CASE run[p].at # "dispatch"
            BY <1>2, <1>3, <5>2 DEF Owns, Early, Drains
          <5> QED BY <5>1, <5>2
        <4> QED BY <1>3, <4>1, <4>2, QueueType DEF Owns, Keeps, Released, TypeInv, TypeOK
      <3> QED BY <3>1, <3>2
    <2>4. \A v \in pending' :
            v.kind = "due" /\ Serves(pc[p], run[p], v) => v \in run[p].todo \ {w}
      BY <1>2, <1>4, <1>7 DEF Serves, Calls
    <2>5. pc[p] \in Drains
      BY <1>2 DEF Drains
    <2> QED BY <1>2, <1>7, <2>1, <2>2, <2>3, <2>4, <2>5, SkippedType, DrainClaims
  <1>8. CASE /\ ~(Locks(p, w) /\ lock[w.campaign] \notin {Nobody, p})
             /\ w.kind = "due" => w \in pending
             /\ Continue(p, "advance", Carrying(p, w, Locks(p, w)))
             /\ lock' = IF Locks(p, w) THEN [lock EXCEPT ![w.campaign] = p] ELSE lock
    <2> DEFINE r == Carrying(p, w, Locks(p, w))
    <2>1. ~Locks(p, w) /\ UNCHANGED lock
      BY <1>6, <1>8 DEF Locks
    <2>2. /\ r.wake = w /\ r.took = FALSE /\ r.todo = run[p].todo
          /\ r.at = run[p].at /\ r.queue = run[p].queue
      BY <1>2, <1>5, <2>1, CarryingType
    <2>3. /\ pc'[p] = "advance" /\ run'[p] = r
          /\ \A q \in Process \ {p} : pc'[q] = pc[q] /\ run'[q] = run[q]
      BY <1>8, ContinueOnly
    <2> HIDE DEF r
    <2>4. Others(p)
      BY <2>1, <2>3, SameLockOthers
    <2>5. Keeps(lock', p, r)
      BY <1>3, <2>1, <2>2 DEF Owns, Keeps
    <2>6. Carries("advance", r)
      BY <2>1, <2>2 DEF Carries, Locks, Dispatches
    <2>7. Spares("advance", r) /\ Early("advance", r)
      BY <1>2, <1>3, <2>2 DEF Owns, Spares, Early, Drains, Calls
    <2>8. \A v : Serves(pc[p], run[p], v) => Serves("advance", r, v)
      BY <1>2, <2>2 DEF Serves, Drains, Calls
    <2> QED BY <1>2, <2>3, <2>4, <2>5, <2>6, <2>7, <2>8, ClaimsStep DEF Owns
  <1> QED BY <1>1, <1>7, <1>8 DEF Locks

LEMMA AdvanceReturnsClaims ==
    ASSUME TypeInv, Claims, NEW p \in Process, AdvanceReturns(p) PROVE Claims'
  <1>1. /\ pc[p] = "advance" /\ pc'[p] = "ack" /\ run' = run
        /\ pending' = pending /\ lock' = lock
        /\ \A q \in Process \ {p} : pc'[q] = pc[q]
    BY DEF AdvanceReturns, Goto, TypeInv, TypeOK, tables
  <1>2. Others(p)
    BY <1>1, SameLockOthers
  <1>3. Owns(lock', p, "ack", run[p])
    <2>1. Owns(lock, p, "advance", run[p])
      BY <1>1 DEF Claims
    <2> QED BY <1>1, <2>1 DEF Owns, Keeps, Carries, Spares, Early, Drains, Calls
  <1>4. \A w : Serves(pc[p], run[p], w) => Serves("ack", run[p], w)
    BY <1>1 DEF Serves, Drains, Calls
  <1> QED BY <1>1, <1>2, <1>3, <1>4, ClaimsStep

LEMMA AckClaims ==
    ASSUME TypeInv, Claims, NEW p \in Process, Ack(p) PROVE Claims'
  <1> DEFINE w == run[p].wake
  <1>1. pc[p] = "ack" /\ w \in WakeValue /\ Drain(p, Replayed(p, w))
    BY DEF Ack, Replayed, TypeInv, HandOK, InCall, Calls
  <1>2. Owns(lock, p, pc[p], run[p])
    BY DEF Claims
  <1>3. run[p].took = FALSE
    BY <1>1, <1>2 DEF Owns, Carries, Calls
  <1>4. UNCHANGED lock
    BY <1>3 DEF Ack, GiveBack
  <1>5. Others(p)
    BY <1>1, <1>4, ReplayedType, DrainOnly, SameLockOthers
  <1>6. Keeps(lock', p, run[p])
    BY <1>2, <1>4 DEF Owns, Keeps
  <1>7. \A v \in pending' :
          v.kind = "due" /\ Serves(pc[p], run[p], v) => v \in run[p].todo \ {w}
    BY DEF Ack, Serves
  <1>8. pc[p] \in Drains /\ pending' \subseteq pending
    BY DEF Ack, Drains, Calls
  <1> QED BY <1>1, <1>5, <1>6, <1>7, <1>8, ReplayedType, DrainClaims
LEMMA PublishPageClaims ==
    ASSUME TypeInv, Claims, NEW p \in Process, PublishPage(p) PROVE Claims'
  <1> DEFINE r == [run[p] EXCEPT !.at = "page", !.todo = pending', !.page = NoPage]
  <1>1. pending' \subseteq WakeValue /\ run[p] \in Local
    BY PublishPageTypes, LocalOf DEF TypeInv, TypeOK
  <1>2. r \in Local /\ r.at = "page" /\ r.queue = run[p].queue
    BY <1>1, NoPageTyped DEF Local, NoPageType
  <1>3. Drain(p, r) /\ pc[p] = "publish" /\ UNCHANGED lock
    BY DEF PublishPage
  <1> HIDE DEF r
  <1>4. /\ \A q \in Process \ {p} : pc'[q] = pc[q] /\ run'[q] = run[q]
        /\ pc'[p] \in {"drain", "read", "snapshot", "after"} /\ run'[p] = r
    BY <1>2, <1>3, DrainOnly
  <1>5. r.queue = << >>
    BY <1>2, <1>3 DEF Claims, Owns, Early
  <1>6. Others(p) /\ Owns(lock', p, pc'[p], run'[p])
    BY <1>2, <1>3, <1>4, <1>5, SameLockOthers, OwnsNothing DEF Calls
  <1>7. \A w \in pending' : w.kind = "due" => w \in pending /\ ~Serves(pc[p], run[p], w)
    <2>1. \A w \in PageWakes(run[p].page) : w.kind # "due"
      BY DEF PageWakes, EventWake
    <2> QED BY <1>3, <2>1 DEF PublishPage, Serves, Drains, Calls
  <1> QED BY <1>6, <1>7, ClaimsStep

\* The claims are taken one by one: each has its lock, and no other run has it.
LEMMA ClaimDueClaims ==
    ASSUME TypeInv, Claims, NEW p \in Process, ClaimDue(p) PROVE Claims'
  <1> DEFINE taken == {c \in Available(p) : ~Leased(p, c)}
  <1>1. PICK s : s \in SetToSeqs(taken) /\ Proceed(p, Queued(p, s))
    BY DEF ClaimDue, Queued
  <1>2. /\ s \in Seq(Campaign)
        /\ \A i \in DOMAIN s : s[i] \in Available(p)
        /\ \A i, j \in DOMAIN s : s[i] = s[j] => i = j
    BY <1>1, OrderedClaims DEF Available
  <1>3. /\ \A q \in Process \ {p} : pc'[q] = pc[q] /\ run'[q] = run[q]
        /\ \/ pc'[p] \in {"look", "survey"} /\ run'[p] = Queued(p, s)
           \/ pc'[p] = "idle" /\ run'[p] = Idle
    BY <1>1, ProceedOnly
  <1>4. lock' = [c \in Campaign |-> IF c \in Available(p) THEN p ELSE lock[c]]
    BY DEF ClaimDue
  <1>5. Others(p)
    BY <1>3, <1>4, NobodyElse DEF Others, Available
  <1>6. Owns(lock', p, pc'[p], run'[p])
    <2>1. CASE pc'[p] \in {"look", "survey"} /\ run'[p] = Queued(p, s)
      <3>1. run'[p].queue = s
        BY <1>2, <2>1, QueuedType
      <3>2. Keeps(lock', p, run'[p])
        BY <1>2, <1>4, <3>1 DEF Keeps, Available
      <3> QED BY <2>1, <3>2 DEF Owns, Carries, Spares, Early, Calls, Drains
    <2>2. CASE pc'[p] = "idle" /\ run'[p] = Idle
      BY <2>2, OwnsNothing DEF Idle, Calls, Drains
    <2> QED BY <1>3, <2>1, <2>2
  <1>7. \A w : ~Serves(pc[p], run[p], w)
    BY DEF ClaimDue, Serves, Calls, Drains
  <1> QED BY <1>5, <1>6, <1>7, ClaimsStep DEF ClaimDue

\* The claim in hand is given up, the others keep their locks.
LEMMA GiveUpClaims ==
    ASSUME TypeInv, Claims, NEW p \in Process, pc[p] \in {"look", "after"},
           NEW a, GiveUp(p, a), NEW r, Proceed(p, r), r.queue = Tail(run[p].queue),
           UNCHANGED pending
    PROVE  Claims'
  <1>1. /\ run[p].queue \in Seq(Campaign) /\ run[p].queue # << >>
        /\ Target(p) = run[p].queue[1]
    BY HandTarget
  <1>2. lock' = Released(p, Target(p))
    BY DEF GiveUp
  <1>3. /\ \A q \in Process \ {p} : pc'[q] = pc[q] /\ run'[q] = run[q]
        /\ \/ pc'[p] \in {"look", "survey"} /\ run'[p] = r
           \/ pc'[p] = "idle" /\ run'[p] = Idle
    BY ProceedOnly
  <1>4. Others(p)
    BY <1>2, <1>3, ReleasedOthers
  <1>5. Keeps(lock', p, r)
    <2>1. Keeps(lock, p, run[p])
      BY DEF Claims, Owns
    <2>2. ASSUME NEW i \in DOMAIN Tail(run[p].queue)
          PROVE  /\ i + 1 \in DOMAIN run[p].queue /\ i + 1 # 1
                 /\ Tail(run[p].queue)[i] = run[p].queue[i + 1]
      BY <1>1
    <2>3. ASSUME NEW i \in DOMAIN r.queue PROVE lock'[r.queue[i]] = p
      <3>1. r.queue[i] # Target(p) /\ lock[r.queue[i]] = p /\ r.queue[i] \in Campaign
        BY <1>1, <2>1, <2>2, QueueType DEF Keeps
      <3> QED BY <1>2, <3>1 DEF Released, TypeInv, TypeOK
    <2>4. ASSUME NEW i \in DOMAIN r.queue, NEW j \in DOMAIN r.queue, r.queue[i] = r.queue[j]
          PROVE  i = j
      <3>1. i + 1 = j + 1
        BY <2>1, <2>2, <2>4 DEF Keeps
      <3>2. i \in Int /\ j \in Int
        BY <1>1
      <3> QED BY <3>1, <3>2
    <2> QED BY <2>3, <2>4 DEF Keeps
  <1>6. Owns(lock', p, pc'[p], run'[p])
    <2>1. CASE pc'[p] \in {"look", "survey"} /\ run'[p] = r
      BY <1>5, <2>1 DEF Owns, Carries, Spares, Early, Calls, Drains
    <2>2. CASE pc'[p] = "idle" /\ run'[p] = Idle
      BY <2>2, OwnsNothing DEF Idle, Calls, Drains
    <2> QED BY <1>3, <2>1, <2>2
  <1>7. \A w : ~Serves(pc[p], run[p], w)
    BY DEF Serves, Calls, Drains
  <1> QED BY <1>4, <1>6, <1>7, ClaimsStep

\* The dispatch of a claim: whatever else is pending belongs to another run.
LEMMA RecordDueClaims ==
    ASSUME TypeInv, Claims, NEW p \in Process, RecordDue(p) PROVE Claims'
  <1> DEFINE n == check[Target(p)]
             r == Recorded(p, n, pending')
             new == DueWake(Target(p), n)
  <1>1. n \in Time \cup {Never} /\ pending' \in SUBSET WakeValue
    BY HandTarget, RecordDueTypes DEF RecordDue, TypeInv, TypeOK
  <1>2. Drain(p, r) /\ pc[p] = "look" /\ UNCHANGED lock /\ pending' = pending \cup {new}
    BY DEF RecordDue, Recorded
  <1>3. /\ r \in Local /\ r.todo = pending' /\ r.queue = run[p].queue /\ r.at = "dispatch"
    BY <1>1, RecordedType
  <1>4. new.campaign = Head(run[p].queue)
    BY DEF DueWake, Target
  <1> HIDE DEF r, new, n
  <1>5. /\ \A q \in Process \ {p} : pc'[q] = pc[q] /\ run'[q] = run[q]
        /\ pc'[p] = "drain" /\ run'[p] = r
    BY <1>2, <1>3, DrainOnly DEF Drained
  <1>6. Others(p)
    BY <1>2, <1>5, SameLockOthers
  <1>7. Keeps(lock', p, r)
    BY <1>2, <1>3 DEF Claims, Owns, Keeps
  <1>8. Spares("drain", r)
    <2> SUFFICES ASSUME NEW w \in pending', w.kind = "due", w.campaign # Head(r.queue),
                        NEW i \in DOMAIN r.queue
                 PROVE  r.queue[i] # w.campaign
      BY <1>3 DEF Spares
    <2>1. w \in pending
      BY <1>2, <1>3, <1>4
    <2>2. PICK q \in Process : Serves(pc[q], run[q], w)
      BY <2>1 DEF Claims, Served
    <2>3. q # p
      BY <1>2, <2>2 DEF Serves, Drains, Calls
    <2>4. lock[w.campaign] = q
      BY <2>2, ServedLock
    <2> QED BY <1>2, <1>7, <2>3, <2>4 DEF Keeps
  <1>9. Owns(lock', p, pc'[p], run'[p])
    BY <1>3, <1>5, <1>7, <1>8 DEF Owns, Carries, Early, Calls
  <1>10. ASSUME NEW w \in pending', w.kind = "due"
         PROVE  \/ Serves(pc'[p], run'[p], w)
                \/ w \in pending /\ ~Serves(pc[p], run[p], w)
    <2>1. ~Serves(pc[p], run[p], w)
      BY <1>2 DEF Serves, Drains, Calls
    <2>2. w = new => Serves("drain", r, w)
      BY <1>3, <1>4 DEF Serves, Drains
    <2> QED BY <1>2, <1>5, <2>1, <2>2
  <1> QED BY <1>6, <1>9, <1>10, ClaimsStep

LEMMA ClaimsSame ==
    ASSUME Claims, UNCHANGED <<pending, lock, pc, run>> PROVE Claims'
  BY DEF Claims, Served

LEMMA OrderlyStep == ASSUME TypeInv, Orderly, [Next]_vars PROVE Orderly'
  <1> SUFFICES ASSUME faults' = 0 PROVE Claims'
    BY DEF Orderly
  <1>1. CASE UNCHANGED vars \/ Tick \/ PublishEvent \/ \E c \in Campaign : Expire(c)
    <2>1. UNCHANGED <<pending, lock, pc, run, faults>>
      BY <1>1 DEF vars, tables, Tick, PublishEvent, Expire
    <2> QED BY <2>1, ClaimsSame DEF Orderly
  <1>2. CASE \E p \in Process : Fail(p) \/ Die(p)
    BY <1>2 DEF Fail, Die, TypeInv, TypeOK
  <1>3. CASE \E p \in Process : Step(p)
    <2> PICK p \in Process : Step(p)
      BY <1>3
    <2>1. UNCHANGED faults
      BY DEF Step, Begin, NextWake, AdvanceReturns, Ack, ReadPage, SkipPage, CursorConflict,
             PublishPage, Snapshot, Rebuild, ClaimDue, NotDue, RecordDue, SettleClaim
    <2> Claims
      BY <2>1 DEF Orderly
    <2>2. run[p] \in Local
      BY LocalOf
    <2>3. CASE ReadPage(p)
      <3>1. PICK page : Continue(p, "publish", [run[p] EXCEPT !.page = page])
        BY <2>3 DEF ReadPage
      <3>2. [run[p] EXCEPT !.page = page].queue = run[p].queue
        BY <2>2 DEF Local
      <3>3. /\ \A q \in Process \ {p} : pc'[q] = pc[q] /\ run'[q] = run[q]
            /\ pc'[p] = "publish" /\ run'[p].queue = run[p].queue
        BY <3>1, <3>2, ContinueOnly
      <3> QED BY <2>3, <3>3, QuietClaims DEF ReadPage, Drains, Calls, tables
    <2>4. CASE SkipPage(p)
      <3>1. [run[p] EXCEPT !.page = NoPage].queue = run[p].queue
        BY <2>2 DEF Local
      <3>2. /\ \A q \in Process \ {p} : pc'[q] = pc[q] /\ run'[q] = run[q]
            /\ pc'[p] = "snapshot" /\ run'[p].queue = run[p].queue
        BY <2>4, <3>1, ContinueOnly DEF SkipPage
      <3> QED BY <2>4, <3>2, QuietClaims DEF SkipPage, Drains, Calls, tables
    <2>5. CASE Snapshot(p)
      <3>1. [run[p] EXCEPT !.seen = check].queue = run[p].queue
        BY <2>2 DEF Local
      <3>2. /\ \A q \in Process \ {p} : pc'[q] = pc[q] /\ run'[q] = run[q]
            /\ pc'[p] \in {"rebuild", "finish"} /\ run'[p].queue = run[p].queue
        BY <2>5, <3>1, ContinueOnly DEF Snapshot
      <3> QED BY <2>5, <3>2, QuietClaims DEF Snapshot, Drains, Calls, tables
    <2>6. CASE Rebuild(p)
      <3>1. [run[p] EXCEPT !.seen = NothingSeen].queue = run[p].queue
        BY <2>2 DEF Local
      <3>2. CASE Finish(p)
        BY <2>6, <3>2, FinishClaims DEF Rebuild, Drains, Calls
      <3>3. CASE Continue(p, "claim", [run[p] EXCEPT !.seen = NothingSeen])
        <4>1. /\ \A q \in Process \ {p} : pc'[q] = pc[q] /\ run'[q] = run[q]
              /\ pc'[p] = "claim" /\ run'[p].queue = run[p].queue
          BY <3>1, <3>3, ContinueOnly
        <4> QED BY <2>6, <4>1, QuietClaims DEF Rebuild, Drains, Calls
      <3> QED BY <2>6, <3>2, <3>3 DEF Rebuild
    <2>7. CASE CursorConflict(p)
      BY <2>7, FinishClaims DEF CursorConflict, Drains, Calls, tables
    <2>8. CASE NotDue(p)
      <3>1. Tail(run[p].queue) \in Seq(Campaign)
        BY <2>8, HandTarget DEF NotDue
      <3>2. Proceed(p, Queued(p, Tail(run[p].queue)))
        BY <2>8 DEF NotDue, Queued
      <3>3. GiveUp(p, FALSE)
        BY <2>8 DEF NotDue
      <3> QED BY <2>8, <3>1, <3>2, <3>3, QueuedType, GiveUpClaims DEF NotDue
    <2>9. CASE SettleClaim(p)
      <3>1. Proceed(p, Settled(p)) /\ GiveUp(p, check[Target(p)] # run[p].before)
        BY <2>9 DEF SettleClaim, Settled
      <3>2. Settled(p).queue = Tail(run[p].queue)
        BY <2>9, SettledType DEF SettleClaim
      <3> QED BY <2>9, <3>1, <3>2, GiveUpClaims DEF SettleClaim
    <2> QED BY <2>3, <2>4, <2>5, <2>6, <2>7, <2>8, <2>9, BeginClaims, NextWakeClaims,
               AdvanceReturnsClaims, AckClaims, PublishPageClaims, ClaimDueClaims,
               RecordDueClaims DEF Step
  <1> QED BY <1>1, <1>2, <1>3 DEF Next

LEMMA InitOrderly == Init => Orderly
  <1> SUFFICES ASSUME Init PROVE Claims
    BY DEF Orderly
  <1>1. \A p \in Process : Owns(lock, p, pc[p], run[p])
    BY OwnsNothing DEF Init, Idle, Calls, Drains
  <1> QED BY <1>1 DEF Init, Claims, Served

LEMMA ClaimsExclude == ASSUME TypeInv, Orderly PROVE DueExclusive
  <1> SUFFICES ASSUME faults = 0, NEW p \in Process, NEW q \in Process, NEW c \in Campaign,
                      DueDispatch(p, c), DueDispatch(q, c)
               PROVE  p = q
    BY DEF DueExclusive
  <1>1. ASSUME NEW o \in Process, DueDispatch(o, c) PROVE lock[c] = o
    <2>1. Dispatching(o) /\ c = Head(run[o].queue)
      BY <1>1 DEF Orderly, Claims, Owns, Carries, DueDispatch, Dispatching, Calls, Drains
    <2>2. run[o].queue \in Seq(Campaign) /\ run[o].queue # << >>
      BY <2>1, HandTarget
    <2>3. c = run[o].queue[1] /\ 1 \in DOMAIN run[o].queue
      BY <2>1, <2>2
    <2> QED BY <2>3 DEF Orderly, Claims, Owns, Keeps
  <1> QED BY <1>1

\* As long as no run has failed and no process has died, the due locks exclude: two
\* processes never advance one Campaign on due wakes at a time.
THEOREM DueLockExcludes == Spec => []DueExclusive
  <1>1. Init => TypeInv /\ Orderly
    BY InitTypes, InitOrderly
  <1>2. TypeInv /\ Orderly /\ [Next]_vars => (TypeInv /\ Orderly)'
    BY TypeStep, OrderlyStep
  <1>3. TypeInv /\ Orderly => DueExclusive
    BY ClaimsExclude
  <1> QED BY <1>1, <1>2, <1>3, PTL DEF Spec
===============================================================================
