------------------------------- MODULE RplLoop -------------------------------
(***************************************************************************)
(* The owner loop of an RPL leaf: RplRuntime (runtime.rs) decides what to   *)
(* do next, over the deadlines of maintenance, of the Trickle timer         *)
(* (lichen-rpl trickle.rs) and of the DAO scheduler (dao_tx_sched.rs), as   *)
(* RplStack::runtime_poll and its completions combine them.  One action is  *)
(* pending at a time; the clock is sampled at each poll and again after     *)
(* each await, so time passes inside a radio operation and every deadline   *)
(* may be overtaken in it.                                                  *)
(*                                                                          *)
(* What a received frame or a pruned neighbour does to the DODAG is left    *)
(* open: the node joins, leaves or changes parent, and Trickle is reset.    *)
(* A multicast DIS restarts Trickle through the low-level trickle_start and *)
(* trickle_reset, which move the generation of the stack while the receive  *)
(* is pending: the runtime bound to the old generation refuses to complete  *)
(* it and every later poll.  What the owner does then is not in src/ but for *)
(* a test, which makes a new RplRuntime, and an example, which gives up:    *)
(* Rebinds says whether the owner makes a new one.                          *)
(*                                                                          *)
(* Times are u64 milliseconds: MaxTime stands for u64::MAX, and checked     *)
(* additions beyond it fail.                                                *)
(***************************************************************************)
EXTENDS Integers, Sequences

CONSTANTS
    Imin, MaxInterval, K,    \* Trickle: Imin, Imax and the redundancy constant
    MaintEvery,              \* maintenance_interval_ms
    InitialMax,              \* DAO_INITIAL_DELAY_MAX_MS
    RetryDelays,             \* DAO_RETRY_DELAYS_MS
    Refresh,                 \* DAO_REFRESH_INTERVAL_MS
    MaxTimeout,              \* u32::MAX: the longest receive
    MaxTime,                 \* u64::MAX
    Late,                    \* how late the owner takes a clock sample
    MaxSend,                 \* how long a transmission takes
    Rebinds                  \* the owner replaces a runtime that refuses its calls

None == -1

ASSUME LoopAssumption ==
    /\ {Imin, MaxInterval, K, MaintEvery, Refresh, MaxTimeout} \subseteq Nat \ {0}
    /\ {InitialMax, MaxTime, Late, MaxSend} \subseteq Nat
    /\ RetryDelays \in Seq(Nat \ {0}) /\ RetryDelays # <<>>
    /\ Rebinds \in BOOLEAN

\* The refresh interval (15 minutes) is longer than the initial delay, than any
\* rung of the ladder (16 s) and than the radio operations between two polls.
ASSUME RefreshAssumption ==
    /\ \A k \in 1 .. Len(RetryDelays) : RetryDelays[k] <= Refresh
    /\ InitialMax + MaxSend <= Refresh
    /\ 2 * MaxSend + Late < Refresh

VARIABLES
    last,        \* the owner's last clock sample; last_now_ms while bound
    maint,       \* next_maintenance_ms, or None
    pending,     \* pending_action
    bound,       \* bound_generation is the stack's generation (or is unset)
    born,        \* the now_ms this RplRuntime was made with
    node,        \* joined, the Trickle timer and when the parent changed
    dao          \* the DaoTxScheduler

runtimeVars == <<bound, born>>
loopVars == <<last, maint, pending, bound, born, node, dao>>

Smaller(a, b) == IF a < b THEN a ELSE b

-----------------------------------------------------------------------------
(* The Trickle timer.                                                       *)

Stopped == [state |-> "stopped", interval |-> Imin, end |-> 0, at |-> 0, heard |-> 0]

Half(iv) == (iv + 1) \div 2

\* begin_interval: t in the second half, or Stopped at the end of time.
BeginInterval(now, iv, rand) ==
    IF now + iv > MaxTime THEN Stopped
    ELSE [state |-> "transmit", interval |-> iv, end |-> now + iv,
          at |-> now + Half(iv) + (IF iv > Half(iv) THEN rand % (iv - Half(iv)) ELSE 0),
          heard |-> 0]

\* try_reset, and start: the shortest interval.  The router's own resets pass
\* the random offset 0, a multicast DIS passes its jitter.
ResetTrickle(now, rand) == BeginInterval(now, Imin, rand)

\* try_fire_transmit.
FireTransmit(tr) == [tr EXCEPT !.state = "expire", !.at = tr.end]

\* try_expire: the interval doubles up to Imax.
ExpireInterval(tr, now, rand) ==
    BeginInterval(now, Smaller(2 * tr.interval, MaxInterval), rand)

\* heard_consistent; only whether the counter has reached k matters.
HeardConsistent(tr) ==
    IF tr.state = "stopped" THEN tr ELSE [tr EXCEPT !.heard = Smaller(@ + 1, K)]

\* next_event is due: Transmit at its time, or Expire at the interval's end.
TrickleDue(tr, now) == tr.state # "stopped" /\ tr.at <= now

-----------------------------------------------------------------------------
(* What happens to the node: sets of its possible next states.              *)

Node(j, tr, ch) == [joined |-> j, trickle |-> tr, changed |-> ch]

\* The topology changes: Trickle restarts.  changed is when a node that stays
\* joined was given another parent, until a DAO is attempted.
Changed(n, now, joinable) ==
    {Node(j, ResetTrickle(now, 0),
          IF j /\ n.joined THEN (IF n.changed = None THEN now ELSE n.changed) ELSE None) :
        j \in IF joinable \/ n.joined THEN BOOLEAN ELSE {FALSE}}

\* process_received, but for a multicast DIS: nothing for the loop, a consistent
\* DIO, or a change.
Processed(n, now) ==
    {n, Node(n.joined, HeardConsistent(n.trickle), n.changed)} \cup Changed(n, now, TRUE)

\* maintain, when due: neighbours are pruned, which may cost a parent.
Maintained(n, now) ==
    IF maint # None /\ now >= maint THEN {n} \cup Changed(n, now, FALSE) ELSE {n}

\* Mutant of NextMaintenance: an interval from now, off the grid.
NextMaintenanceDrifts(now) == IF now + MaintEvery > MaxTime THEN None ELSE now + MaintEvery

\* next_maintenance_after: the first deadline of the grid after now.
NextMaintenance(now) ==
    LET next == maint + MaintEvery * ((now - maint) \div MaintEvery + 1)
    IN  IF next > MaxTime THEN None ELSE next

\* observe: the sample is kept and maintenance runs when it is due.
Observe(now, n) ==
    /\ last' = now
    /\ n \in Maintained(node, now)
    /\ maint' = IF maint # None /\ now >= maint THEN NextMaintenance(now) ELSE maint

\* RplRuntime::new: the first maintenance is an interval away.
FirstMaintenance(now) == IF now + MaintEvery > MaxTime THEN None ELSE now + MaintEvery

Samples(most) == last .. Smaller(last + most, MaxTime)

-----------------------------------------------------------------------------
(* The DAO scheduler.                                                       *)

DaoPhase(p, k, d) == [phase |-> p, attempt |-> k, deadline |-> d]
DaoIdle      == DaoPhase("idle", 0, 0)
DaoExhausted == DaoPhase("exhausted", 0, 0)
Timed        == {"initial", "retry", "refresh"}

NextRefresh(now) ==
    IF now + Refresh > MaxTime THEN DaoExhausted ELSE DaoPhase("refresh", 0, now + Refresh)

\* dao_tx_advance: Idle unless joined, Initial on the join transition.
Advanced(n, now, offset) ==
    IF ~n.joined THEN DaoIdle
    ELSE IF dao.phase = "idle"
         THEN DaoPhase("initial", 0, Smaller(now + offset, MaxTime))
         ELSE dao

\* on_dao_sent.
DaoSent(now) == NextRefresh(now)

\* The zero-based rung after this failure.
Rung == IF dao.phase = "retry" THEN dao.attempt + 1 ELSE 0

\* Mutant of DaoFailed: the scheduler gives up after the last rung.
DaoFailedGivesUp(now) ==
    IF Rung >= Len(RetryDelays) THEN DaoExhausted
    ELSE IF now + RetryDelays[Rung + 1] > MaxTime THEN DaoExhausted
         ELSE DaoPhase("retry", Rung, now + RetryDelays[Rung + 1])

\* Mutant of DaoFailed: nothing is scheduled after the last rung.
DaoFailedStuck(now) ==
    IF Rung >= Len(RetryDelays) THEN dao
    ELSE IF now + RetryDelays[Rung + 1] > MaxTime THEN DaoExhausted
         ELSE DaoPhase("retry", Rung, now + RetryDelays[Rung + 1])

\* on_dao_failed: the ladder, and after its last rung the next refresh.
DaoFailed(now) ==
    IF Rung >= Len(RetryDelays) THEN NextRefresh(now)
    ELSE IF now + RetryDelays[Rung + 1] > MaxTime THEN DaoExhausted
         ELSE DaoPhase("retry", Rung, now + RetryDelays[Rung + 1])

-----------------------------------------------------------------------------
(* The loop.                                                                *)

NoAction   == [kind |-> "none", timeout |-> 0]
Act(kind)  == [kind |-> kind, timeout |-> 0]
Listen(ms) == [kind |-> "receive", timeout |-> ms]

\* next_action: the Trickle event if it is due, else receive until the next
\* of maintenance and Trickle.
NextAction(tr, m, now) ==
    IF TrickleDue(tr, now) THEN Act(tr.state)
    ELSE LET t == IF tr.state = "stopped" THEN MaxTime ELSE tr.at
             d == IF m = None THEN t ELSE Smaller(m, t)
         IN  IF tr.state = "stopped" /\ m = None THEN Listen(MaxTimeout)
             ELSE Listen(Smaller(d - now, MaxTimeout))

\* Mutant of ConstrainToDao: a receive is not cut short for a DAO.
ConstrainToDaoLoose(act, d, now) ==
    IF d.phase \in Timed /\ d.deadline <= now THEN Act("dao") ELSE act

\* constrain_to_dao: a due DAO comes first, a later one bounds the receive.
ConstrainToDao(act, d, now) ==
    IF d.phase \notin Timed THEN act
    ELSE IF d.deadline <= now THEN Act("dao")
    ELSE IF act.kind = "receive" THEN Listen(Smaller(act.timeout, d.deadline - now))
    ELSE act

LoopInit ==
    /\ last = 0
    /\ maint = FirstMaintenance(0)
    /\ pending = NoAction
    /\ bound = TRUE /\ born = 0
    /\ \E r \in 0 .. Imin : node = Node(FALSE, BeginInterval(0, Imin, r), None)
    /\ dao = DaoIdle

\* runtime_poll; the DIO of a completed Trickle transmit goes out before it.
Poll ==
    /\ pending = NoAction
    /\ \E now \in Samples(MaxSend) : \E n \in Maintained(node, now) :
        /\ Observe(now, n)
        /\ node' = n
        /\ \E offset \in 0 .. InitialMax : dao' = Advanced(n, now, offset)
        /\ pending' = ConstrainToDao(NextAction(n.trickle, maint', now), dao', now)
    /\ UNCHANGED runtimeVars

\* runtime_receive: the radio returns a frame or times out.
Receive ==
    /\ pending.kind = "receive" /\ bound
    /\ \E now \in Samples(pending.timeout + Late) : \E m \in Processed(node, now) :
        /\ last' = now
        /\ node' \in Maintained(m, now)
        /\ maint' = IF maint # None /\ now >= maint THEN NextMaintenance(now) ELSE maint
    /\ pending' = NoAction
    /\ UNCHANGED <<runtimeVars, dao>>

\* runtime_receive of a multicast DIS: Trickle restarts under a new generation
\* of the stack, so complete_receive returns StaleGeneration before it takes the
\* pending action or looks at maintenance.  (last_now_ms stays behind; nothing
\* reads it again.)
ReceiveDis ==
    /\ pending.kind = "receive" /\ bound
    /\ \E now \in Samples(pending.timeout + Late), jitter \in 0 .. Imin :
        /\ last' = now
        /\ node' = Node(node.joined, ResetTrickle(now, jitter), node.changed)
    /\ bound' = FALSE
    /\ UNCHANGED <<maint, pending, born, dao>>

\* RplRuntime::new in place of the runtime that refuses: nothing is pending, and
\* maintenance starts a new grid.
NewRuntime ==
    /\ born' = last
    /\ maint' = FirstMaintenance(last)
    /\ pending' = NoAction
    /\ bound' = TRUE
    /\ UNCHANGED <<last, node, dao>>

\* The runtime is kept: each poll returns PollWithPending, each receive
\* StaleGeneration, and time passes.
Refused ==
    /\ last' \in Samples(MaxSend)
    /\ UNCHANGED <<maint, pending, bound, born, node, dao>>

\* The owner after a StaleGeneration.
Stale == ~bound /\ IF Rebinds THEN NewRuntime ELSE Refused

\* runtime_complete_trickle_transmit: the event is looked at again after the
\* clock sample; maintenance may have moved it (TrickleEventChanged).
TrickleTransmit ==
    /\ pending.kind = "transmit"
    /\ \E now \in Samples(Late) : \E n \in Maintained(node, now) :
        /\ Observe(now, n)
        /\ node' = IF n.trickle.state = "transmit" /\ n.trickle.at <= now
                   THEN Node(n.joined, FireTransmit(n.trickle), n.changed) ELSE n
    /\ pending' = NoAction
    /\ UNCHANGED <<runtimeVars, dao>>

\* runtime_complete_trickle_expire.
TrickleExpire ==
    /\ pending.kind = "expire"
    /\ \E now \in Samples(Late), rand \in 0 .. MaxInterval : \E n \in Maintained(node, now) :
        /\ Observe(now, n)
        /\ node' = IF n.trickle.state = "expire" /\ n.trickle.at <= now
                   THEN Node(n.joined, ExpireInterval(n.trickle, now, rand), n.changed) ELSE n
    /\ pending' = NoAction
    /\ UNCHANGED <<runtimeVars, dao>>

\* send_dao, then runtime_complete_dao_transmit or runtime_fail_dao_transmit.
DaoTransmit ==
    /\ pending.kind = "dao"
    /\ \E now \in Samples(MaxSend) :
        /\ last' = now
        /\ node' \in Maintained([node EXCEPT !.changed = None], now)
        /\ maint' = IF maint # None /\ now >= maint THEN NextMaintenance(now) ELSE maint
        /\ dao' \in {DaoSent(now), DaoFailed(now)}
    /\ pending' = NoAction
    /\ UNCHANGED runtimeVars

LoopNext ==
    Poll \/ Receive \/ ReceiveDis \/ Stale \/ TrickleTransmit \/ TrickleExpire \/ DaoTransmit

LoopSpec == LoopInit /\ [][LoopNext]_loopVars

-----------------------------------------------------------------------------
(* Properties.                                                              *)

\* A scheduled DAO is overdue by at most one late wake-up and one transmission
\* that was under way: no receive sleeps past its deadline, whichever other
\* deadline it was computed from, Trickle never goes before a due DAO, and a
\* runtime that was replaced took no deadline with it.
DaoOnTime ==
    (node.joined /\ dao.phase \in Timed) => last <= dao.deadline + Late + MaxSend

\* The next maintenance stays on the grid the runtime was made with, ahead, by at
\* most an interval, however long the last radio operation took; it is given up
\* only at the end of time.
MaintenanceOnGrid ==
    bound => IF maint = None THEN last + MaintEvery > MaxTime
             ELSE /\ last < maint /\ maint <= last + MaintEvery
                  /\ \E k \in 1 .. MaxTime : maint = born + MaintEvery * k

\* No deadline of the owner loop is slept past, the one of the DAO scheduler
\* (constrain_to_dao) nor the one of maintenance (next_maintenance_after).
DeadlinesKept == DaoOnTime /\ MaintenanceOnGrid

\* A due Trickle event waits for at most one full retry ladder of DAOs that
\* fail and fall due again while they are sent: the DAO's priority does not
\* starve DIOs.  The end of an interval may wait for its transmission as well.
\* A multicast DIS, which asks for the next DIO soon, does not put it off either.
TrickleOnTime ==
    node.trickle.state # "stopped" =>
        last <= node.trickle.at + Late + MaxSend * (1 + 2 * (Len(RetryDelays) + 1))
                + (IF node.trickle.state = "expire" THEN Late + MaxSend ELSE 0)

\* A node that changes its parent and stays joined attempts a DAO, which may be
\* sent or fail, no later than a refresh interval after the change, however many
\* attempts fail and wherever in the retry ladder the change falls: the scheduler
\* never gives up.  (Nothing brings the DAO forward: dao_tx_advance leaves a
\* scheduler that is not Idle as it is.)
ParentChangeAnnounced ==
    node.changed # None => last <= node.changed + Refresh + Late + MaxSend
=============================================================================
