------------------------------- MODULE Watchdog -------------------------------
(***************************************************************************)
(* CampaignWatchdog of gwo_v8/campaign_watchdog.py: run_once turns events  *)
(* and due timers into calls of ExecutionKernel.advance.                   *)
(*                                                                         *)
(* A wake is durable before it is delivered and acknowledged after advance *)
(* has returned; what a run leaves behind, the next one delivers first.    *)
(* Event wakes come from a stream that is read past a saved cursor.  A due *)
(* wake is made from the Campaign's next_check_at: the run projects the    *)
(* snapshots on a queue, claims what is due under an OS lock per Campaign  *)
(* and a claim row with a lease, looks again and dispatches.               *)
(*                                                                         *)
(* Several processes run over one store, each with one CampaignWatchdog.   *)
(* One action is one transaction, one snapshot or one return of advance.   *)
(* The kernel is reduced to the next_check_at of each Campaign, with       *)
(* COMPLETE as one that is never due; there is one event stream.           *)
(***************************************************************************)
EXTENDS Integers, Sequences, SequencesExt, FiniteSets

CONSTANTS
    Process,
    Campaign,
    Events,     \* the Campaigns of the stream's events, in order
    Time,       \* the values of next_check_at
    MaxTime,    \* bound on time
    MaxFault    \* bound on calls that raise and processes that die

ASSUME CampaignAssumption == Campaign \subseteq Nat /\ IsFiniteSet(Campaign)
ASSUME EventsAssumption == Events \in Seq(Campaign)
ASSUME TimeAssumption == MaxTime \in Nat /\ Time \subseteq Nat \ {0}
ASSUME MaxFaultAssumption == MaxFault \in Nat

VARIABLES
    clock,
    check,      \* the kernel's next_check_at of each Campaign
    published,  \* how many events the stream holds
    wakes,      \* v8_watchdog_wakes: the event wakes; nothing reads the others
    pending,    \* v8_watchdog_pending_wakes
    source,     \* v8_watchdog_sources: the cursor and the page that led to it
    due,        \* v8_watchdog_due
    claims,     \* v8_watchdog_due_claims: the owner of a claim whose lease runs
    lock,       \* the process that holds the due lock of a Campaign
    pc, run,    \* where run_once stands, and its locals
    faults      \* spent bound

tables == <<wakes, pending, source, due, claims>>
world == <<clock, check, published>>
vars == <<world, tables, lock, pc, run, faults>>

\* No next_check_at, or COMPLETE.
Never == 0
Cursor == 0 .. Len(Events)

Nobody == "nobody"
ASSUME NobodyAssumption == Nobody \notin Process

DueWake(c, n) == [kind |-> "due", campaign |-> c, at |-> n]
EventWake(k) == [kind |-> "event", campaign |-> Events[k], at |-> k]
WakeValue ==
    [kind : {"due"}, campaign : Campaign, at : Time]
    \cup {EventWake(k) : k \in DOMAIN Events}

\* The order of a drain: the stream "due" is the first by name; due wakes stand in
\* the order of their digests, here of their Campaigns.
Before(w, v) ==
    \/ w.kind = "due" /\ v.kind = "event"
    \/ w.kind = v.kind /\ w.kind = "due" /\ w.campaign < v.campaign
    \/ w.kind = v.kind /\ (w.kind = "event" \/ w.campaign = v.campaign) /\ w.at < v.at

IsFirst(w, todo) == w \in todo /\ \A v \in todo : v = w \/ Before(w, v)

NoSource == [cursor |-> 0, from |-> -1]

NoWake == [kind |-> "none"]
NoPage == [from |-> 0, next |-> 0]

\* now: the argument; at: which drain; took: the drain took the lock itself.
Local ==
    [now : Nat, at : {"start", "page", "dispatch"}, todo : SUBSET WakeValue,
     wake : WakeValue \cup {NoWake}, took : BOOLEAN, replayed : SUBSET Campaign,
     page : [from : Cursor, next : Cursor], seen : [Campaign -> Time \cup {Never}],
     queue : Seq(Campaign), before : Time \cup {Never}, advanced : BOOLEAN]

NothingSeen == [c \in Campaign |-> Never]

Idle ==
    [now |-> 0, at |-> "start", todo |-> {}, wake |-> NoWake, took |-> FALSE,
     replayed |-> {}, page |-> NoPage, seen |-> NothingSeen, queue |-> <<>>,
     before |-> Never, advanced |-> FALSE]

Stages == {"idle", "drain", "advance", "ack", "read", "publish", "snapshot",
           "rebuild", "claim", "look", "after", "survey", "finish"}

Init ==
    /\ clock = 1 /\ published = 0
    /\ check \in [Campaign -> Time \cup {Never}]
    /\ wakes = {} /\ pending = {}
    /\ source = NoSource
    /\ due = NothingSeen
    /\ claims = [c \in Campaign |-> Nobody]
    /\ lock = [c \in Campaign |-> Nobody]
    /\ pc = [p \in Process |-> "idle"]
    /\ run = [p \in Process |-> Idle]
    /\ faults = 0

Goto(p, s) == pc' = [pc EXCEPT ![p] = s]
Continue(p, s, r) == Goto(p, s) /\ run' = [run EXCEPT ![p] = r]
Finish(p) == Continue(p, "idle", Idle)

Released(p, c) == [lock EXCEPT ![c] = IF @ = p THEN Nobody ELSE @]
Unclaimed(p, c) == [claims EXCEPT ![c] = IF @ = p THEN Nobody ELSE @]

--------------------------------------------------------------------------------
(* _drain_pending_wakes *)

\* Where a drain leads once its list is empty.
Drained(r) ==
    IF r.todo # {} THEN "drain"
    ELSE CASE r.at = "start" -> "read"
           [] r.at = "page" -> "snapshot"
           [] r.at = "dispatch" -> "after"

Drain(p, r) == Continue(p, Drained(r), r)

Begin(p) ==
    /\ pc[p] = "idle"
    /\ Drain(p, [Idle EXCEPT !.now = clock, !.todo = pending])
    /\ UNCHANGED <<world, tables, lock, faults>>

\* The wake of the claim in hand is delivered under the claim's lock; any other
\* due wake needs a lock of its own, and one that this process holds will do.
Dispatches(p, w) == run[p].at = "dispatch" /\ w.campaign = Head(run[p].queue)

\* Mutant: the drain at the start of a run takes no lock.
LocksReplays(p, w) == w.kind = "due" /\ run[p].at = "dispatch" /\ ~Dispatches(p, w)

Locks(p, w) == w.kind = "due" /\ ~Dispatches(p, w)

Carrying(p, w, took) == [run[p] EXCEPT !.wake = w, !.took = took]

Skipped(p, w) == [run[p] EXCEPT !.todo = @ \ {w}, !.wake = NoWake, !.took = FALSE]

GiveBack(p, w, took) == lock' = IF took THEN Released(p, w.campaign) ELSE lock

\* A due wake is looked up again under its lock (_pending_wake_is_current):
\* someone else may have delivered it since the list was read.
NextWake(p) ==
    /\ pc[p] = "drain"
    /\ \E w \in run[p].todo :
          LET took == Locks(p, w)
              lockedOut == took /\ lock[w.campaign] \notin {Nobody, p}
              current == w.kind = "due" => w \in pending
          IN  /\ IsFirst(w, run[p].todo)
              /\ \/ /\ lockedOut
                    /\ Drain(p, Skipped(p, w)) /\ UNCHANGED lock
                 \/ /\ ~lockedOut /\ ~current
                    /\ Drain(p, Skipped(p, w)) /\ GiveBack(p, w, took)
                 \/ /\ ~lockedOut /\ current
                    /\ Continue(p, "advance", Carrying(p, w, took))
                    /\ lock' = IF took THEN [lock EXCEPT ![w.campaign] = p] ELSE lock
    /\ UNCHANGED <<world, tables, faults>>

\* ExecutionKernel.advance: the Campaign has another time, or keeps the one it had.
AdvanceReturns(p) ==
    /\ pc[p] = "advance"
    /\ \E n \in Time \cup {Never} : check' = [check EXCEPT ![run[p].wake.campaign] = n]
    /\ Goto(p, "ack")
    /\ UNCHANGED <<clock, published, tables, lock, run, faults>>

Ack(p) ==
    /\ pc[p] = "ack"
    /\ LET w == run[p].wake
       IN  /\ pending' = pending \ {w}
           /\ GiveBack(p, w, run[p].took)
           /\ Drain(p, [Skipped(p, w) EXCEPT
                           !.replayed = IF w.kind = "due" THEN @ \cup {w.campaign} ELSE @])
    /\ UNCHANGED <<world, wakes, source, due, claims, faults>>

--------------------------------------------------------------------------------
(* The event stream *)

ReadPage(p) ==
    /\ pc[p] = "read"
    /\ \E n \in source.cursor .. published :
          /\ published > source.cursor => n > source.cursor
          /\ Continue(p, "publish", [run[p] EXCEPT !.page = [from |-> source.cursor, next |-> n]])
    /\ UNCHANGED <<world, tables, lock, faults>>

\* Mutant: the last event of the page is left out.
PageWakesBelow(page) == {EventWake(k) : k \in page.from + 1 .. page.next - 1}

PageWakes(page) == {EventWake(k) : k \in page.from + 1 .. page.next}

\* The saved cursor is already at the end of the page.
Repeated(page) ==
    /\ source # NoSource
    /\ page.next = source.cursor
    /\ page.from \in {source.from, page.next}

Overtaken(page) == source # NoSource /\ ~Repeated(page) /\ page.from # source.cursor

SkipPage(p) ==
    /\ pc[p] = "publish" /\ Repeated(run[p].page)
    /\ Continue(p, "snapshot", [run[p] EXCEPT !.page = NoPage])
    /\ UNCHANGED <<world, tables, lock, faults>>

\* WATCHDOG_CURSOR_CONFLICT: the run ends.
CursorConflict(p) ==
    /\ pc[p] = "publish" /\ Overtaken(run[p].page)
    /\ Finish(p)
    /\ UNCHANGED <<world, tables, lock, faults>>

\* Cursor and wakes move in one transaction, and only wakes that are new.
PublishPage(p) ==
    /\ pc[p] = "publish" /\ ~Repeated(run[p].page) /\ ~Overtaken(run[p].page)
    /\ LET new == PageWakes(run[p].page) \ wakes
       IN  wakes' = wakes \cup new /\ pending' = pending \cup new
    /\ source' = [cursor |-> run[p].page.next, from |-> run[p].page.from]
    /\ Drain(p, [run[p] EXCEPT !.at = "page", !.todo = pending', !.page = NoPage])
    /\ UNCHANGED <<world, due, claims, lock, faults>>

--------------------------------------------------------------------------------
(* The due queue *)

\* rebuild_due_queue: snapshots, then one transaction.
Snapshot(p) ==
    /\ pc[p] \in {"snapshot", "survey"}
    /\ Continue(p, IF pc[p] = "snapshot" THEN "rebuild" ELSE "finish",
                [run[p] EXCEPT !.seen = check])
    /\ UNCHANGED <<world, tables, lock, faults>>

Rebuild(p) ==
    /\ pc[p] \in {"rebuild", "finish"}
    /\ due' = run[p].seen
    /\ IF pc[p] = "finish" THEN Finish(p)
       ELSE Continue(p, "claim", [run[p] EXCEPT !.seen = NothingSeen])
    /\ UNCHANGED <<world, wakes, pending, source, claims, lock, faults>>

\* The due Campaigns this run has not served and whose lock it can have.
Available(p) ==
    {c \in Campaign \ run[p].replayed :
        due[c] # Never /\ due[c] <= run[p].now /\ lock[c] \in {Nobody, p}}

\* Mutant: a lock that is held is not looked at again.
LeasedForever(p, c) == lock[c] = p

\* A lock left from an earlier run of this process waits for its lease.
Leased(p, c) == lock[c] = p /\ claims[c] # Nobody

\* With no claim left the queue is projected once more, or the run is over.
Proceed(p, r) ==
    IF r.queue # <<>> THEN Continue(p, "look", r)
    ELSE IF r.advanced THEN Continue(p, "survey", r) ELSE Finish(p)

\* In the order of their due times.
InOrder(s) ==
    \A i, j \in DOMAIN s :
        i < j => due[s[i]] < due[s[j]] \/ (due[s[i]] = due[s[j]] /\ s[i] < s[j])

ClaimDue(p) ==
    /\ pc[p] = "claim"
    /\ LET taken == {c \in Available(p) : ~Leased(p, c)}
       IN  /\ claims' = [c \in Campaign |-> IF c \in taken THEN p ELSE claims[c]]
           /\ \E s \in SetToSeqs(taken) :
                 InOrder(s) /\ Proceed(p, [run[p] EXCEPT !.queue = s])
    /\ lock' = [c \in Campaign |-> IF c \in Available(p) THEN p ELSE lock[c]]
    /\ UNCHANGED <<world, wakes, pending, source, due, faults>>

Target(p) == Head(run[p].queue)

IsDue(p, c) == check[c] # Never /\ check[c] <= run[p].now

\* Release, or acknowledge by deleting the row of the queue as well: only under
\* the claim that this run has taken.
GiveUp(p, acknowledged) ==
    LET c == Target(p)
    IN  /\ due' = IF acknowledged /\ claims[c] = p THEN [due EXCEPT ![c] = Never]
                  ELSE due
        /\ claims' = Unclaimed(p, c)
        /\ lock' = Released(p, c)

\* The claimed Campaign is not due any more.
NotDue(p) ==
    /\ pc[p] = "look" /\ ~IsDue(p, Target(p))
    /\ GiveUp(p, FALSE)
    /\ Proceed(p, [run[p] EXCEPT !.queue = Tail(@)])
    /\ UNCHANGED <<world, wakes, pending, source, faults>>

RecordDue(p) ==
    /\ pc[p] = "look" /\ IsDue(p, Target(p))
    /\ pending' = pending \cup {DueWake(Target(p), check[Target(p)])}
    /\ Drain(p, [run[p] EXCEPT !.before = check[Target(p)], !.at = "dispatch",
                               !.todo = pending'])
    /\ UNCHANGED <<world, wakes, source, due, claims, lock, faults>>

\* The second look decides between acknowledging the claim and releasing it.
SettleClaim(p) ==
    /\ pc[p] = "after"
    /\ GiveUp(p, check[Target(p)] # run[p].before)
    /\ Proceed(p, [run[p] EXCEPT !.queue = Tail(@), !.before = Never, !.advanced = TRUE])
    /\ UNCHANGED <<world, wakes, pending, source, faults>>

--------------------------------------------------------------------------------
(* Failures, time and the rest of the system *)

\* A call of the kernel or of the source raises, and run_once with it.  The
\* claim in hand is given back; the others of this run keep their locks.
InHand(p) ==
    pc[p] \in {"look", "after"} \/ (pc[p] = "advance" /\ run[p].at = "dispatch")

Fail(p) ==
    /\ faults < MaxFault
    /\ pc[p] \in {"advance", "read", "snapshot", "look", "after", "survey"}
    /\ LET given == {c \in Campaign :
                        \/ InHand(p) /\ c = Target(p)
                        \/ run[p].took /\ c = run[p].wake.campaign}
       IN  lock' = [c \in Campaign |-> IF c \in given /\ lock[c] = p THEN Nobody ELSE lock[c]]
    /\ claims' = IF InHand(p) THEN Unclaimed(p, Target(p)) ELSE claims
    /\ faults' = faults + 1
    /\ Finish(p)
    /\ UNCHANGED <<world, wakes, pending, source, due>>

\* The operating system gives the locks of a dead process back.  Its claims stay in
\* the store, but a lease holds back only the process that also has the lock.
Die(p) ==
    /\ faults < MaxFault
    /\ pc[p] # "idle" \/ \E c \in Campaign : lock[c] = p
    /\ lock' = [c \in Campaign |-> IF lock[c] = p THEN Nobody ELSE lock[c]]
    /\ claims' = [c \in Campaign |-> IF claims[c] = p THEN Nobody ELSE claims[c]]
    /\ faults' = faults + 1
    /\ Finish(p)
    /\ UNCHANGED <<world, wakes, pending, source, due>>

Tick ==
    /\ clock < MaxTime
    /\ clock' = clock + 1
    /\ UNCHANGED <<check, published, tables, lock, pc, run, faults>>

\* The lease of a claim runs out.  It matters only for a lock that an earlier run
\* has left behind: a run does not look at the leases of its own claims.
Expire(c) ==
    /\ \E p \in Process : claims[c] = p /\ c \notin ToSet(run[p].queue)
    /\ claims' = [claims EXCEPT ![c] = Nobody]
    /\ UNCHANGED <<world, wakes, pending, source, due, lock, pc, run, faults>>

PublishEvent ==
    /\ published < Len(Events)
    /\ published' = published + 1
    /\ UNCHANGED <<clock, check, tables, lock, pc, run, faults>>

--------------------------------------------------------------------------------
Step(p) ==
    \/ Begin(p) \/ NextWake(p) \/ AdvanceReturns(p) \/ Ack(p)
    \/ ReadPage(p) \/ SkipPage(p) \/ CursorConflict(p) \/ PublishPage(p)
    \/ Snapshot(p) \/ Rebuild(p) \/ ClaimDue(p) \/ NotDue(p) \/ RecordDue(p)
    \/ SettleClaim(p)

Next ==
    \/ \E p \in Process : Step(p) \/ Fail(p) \/ Die(p)
    \/ \E c \in Campaign : Expire(c)
    \/ Tick \/ PublishEvent

Spec == Init /\ [][Next]_vars

\* The host runs the Watchdog again and again; leases run out.
FairSpec ==
    /\ Spec
    /\ \A p \in Process : WF_vars(Step(p))
    /\ \A c \in Campaign : WF_vars(Expire(c))

--------------------------------------------------------------------------------
(* Properties *)

TypeOK ==
    /\ clock \in Nat /\ published \in Cursor
    /\ check \in [Campaign -> Time \cup {Never}]
    /\ wakes \subseteq WakeValue /\ pending \subseteq WakeValue
    /\ source \in [cursor : Cursor, from : Cursor \cup {-1}]
    /\ due \in [Campaign -> Time \cup {Never}]
    /\ claims \in [Campaign -> Process \cup {Nobody}]
    /\ lock \in [Campaign -> Process \cup {Nobody}]
    /\ pc \in [Process -> Stages] /\ run \in [Process -> Local]
    /\ faults \in 0 .. MaxFault

Answered(w) == \E p \in Process : pc[p] = "ack" /\ run[p].wake = w

\* No wake is forgotten, whoever dies: the cursor passes an event together with its
\* wake, and a wake is pending until an advance has returned with it.
WakesKept ==
    [][ /\ \A k \in source.cursor + 1 .. source'.cursor : EventWake(k) \in pending'
        /\ \A w \in pending \ pending' : Answered(w) ]_vars

DueDispatch(p, c) ==
    pc[p] = "advance" /\ run[p].wake.kind = "due" /\ run[p].wake.campaign = c

\* The due lock: as long as no run has failed, two processes never advance one
\* Campaign on due wakes at a time, though both see it due.
DueExclusive ==
    faults = 0 =>
        \A p, q \in Process, c \in Campaign :
            DueDispatch(p, c) /\ DueDispatch(q, c) => p = q

\* A Campaign whose time has come is advanced, whatever earlier runs have left
\* behind in locks, claims and leases.
DueServed ==
    \A c \in Campaign :
        check[c] # Never /\ check[c] <= clock
            ~> \/ check[c] = Never \/ check[c] > clock
               \/ \E p \in Process : pc[p] = "ack" /\ run[p].wake.campaign = c
===============================================================================
