---------------------------- MODULE CreditMeter ----------------------------
(***************************************************************************)
(* The credit of active time (utils/credit-active.ts): a heartbeat bills   *)
(* the time since the previous one, a user pauses and resumes the meter,   *)
(* an administrator blocks it, fines or gives time back.                   *)
(*                                                                         *)
(* One user under one plan.  Each call takes the time on arrival and runs  *)
(* its statements one by one; several run at once (two tabs, a pause next  *)
(* to a heartbeat, an administrator).  Time is counted in half seconds,    *)
(* credit in seconds, as far as rounding goes.                             *)
(***************************************************************************)
EXTENDS Integers

CONSTANTS
    Calls,       \* calls that may be under way at once
    Budget,      \* seconds of credit in the plan
    Cap,         \* GAP_CAP_S, in half seconds: a longer silence is absence
    Slots,       \* times at which a fixed slot is open and time is free
    Deltas,      \* seconds an administrator adds to what is consumed
    MaxTime,     \* bound: half seconds that pass
    MaxAdjusts   \* bound: adjustments

ASSUME CreditMeterAssumption ==
    /\ Budget \in Nat \ {0} /\ Cap \in Nat
    /\ Slots \subseteq Nat /\ Deltas \subseteq Int
    /\ MaxTime \in Nat /\ MaxAdjusts \in Nat

VARIABLES
    clock,       \* the time
    exists,      \* is there a row of credit_consumption?
    consumed, lastPing, paused, started,   \* its columns
    blocked,     \* profiles.credit_blocked
    pc, call,    \* where each call is, and what it knows
    charged,     \* history: half seconds that were billed
    frozen,      \* history: half seconds during which the meter was paused
    billings,    \* history: heartbeats that billed
    rewound,     \* history: by how much last_ping_at went back, in all
    fined,       \* history: seconds added by administrators
    adjusts      \* history: adjustments so far

row  == <<exists, consumed, lastPing, paused, started>>
hist == <<charged, frozen, billings, rewound, fined, adjusts>>
vars == <<clock, row, blocked, pc, call, hist>>

PcValues == {"idle", "create", "read", "write", "upsert"}
Kinds    == {"none", "ping", "pause", "resume", "adjust"}
\* now: Date.now() on arrival; free: slotOpen; consumed, last: what was read;
\* on: the meter is running.
CallRecord == [kind : Kinds, now : Nat, free : BOOLEAN, delta : Int,
               consumed : Int, last : Nat, on : BOOLEAN]
NoCall == [kind |-> "none", now |-> 0, free |-> FALSE, delta |-> 0,
           consumed |-> 0, last |-> 0, on |-> FALSE]

Init ==
    /\ clock = 0
    /\ exists = FALSE /\ consumed = 0 /\ lastPing = 0 /\ started = 0
    /\ paused = TRUE /\ blocked = FALSE
    /\ pc = [k \in Calls |-> "idle"] /\ call = [k \in Calls |-> NoCall]
    /\ charged = {} /\ frozen = {} /\ billings = 0 /\ rewound = 0
    /\ fined = 0 /\ adjusts = 0

Go(k, to)  == pc' = [pc EXCEPT ![k] = to]
Set(k, r)  == call' = [call EXCEPT ![k] = r]
Finish(k)  == Go(k, "idle") /\ Set(k, NoCall)

Least(m, n)    == IF m < n THEN m ELSE n
AtLeastZero(n) == IF n < 0 THEN 0 ELSE n

\* last_ping_at becomes n.
PingAt(n) ==
    /\ lastPing' = n
    /\ rewound' = rewound + AtLeastZero(lastPing - n)

----------------------------------------------------------------------------
\* The meter stands still, and no resume that arrived is about to start it.
Frozen == exists /\ paused /\ \A k \in Calls : call[k].kind # "resume"

Tick ==
    /\ clock < MaxTime
    /\ clock' = clock + 1
    /\ frozen' = IF Frozen THEN frozen \cup {clock + 1} ELSE frozen
    /\ UNCHANGED <<row, blocked, pc, call,
                   charged, billings, rewound, fined, adjusts>>

\* A call arrives and finds the plan.
Arrive(k, kind, delta) ==
    /\ pc[k] = "idle"
    /\ Set(k, [NoCall EXCEPT !.kind = kind, !.now = clock,
                             !.free = clock \in Slots, !.delta = delta])
    /\ Go(k, IF kind \in {"pause", "resume"} THEN "upsert" ELSE "create")
    /\ UNCHANGED <<clock, row, blocked,
                   charged, frozen, billings, rewound, fined>>

Ping(k)      == Arrive(k, "ping", 0) /\ UNCHANGED adjusts
Pause(k)     == Arrive(k, "pause", 0) /\ UNCHANGED adjusts
Resume(k)    == Arrive(k, "resume", 0) /\ UNCHANGED adjusts
Adjust(k, d) == /\ adjusts < MaxAdjusts /\ adjusts' = adjusts + 1
                /\ Arrive(k, "adjust", d)

\* INSERT ... ON CONFLICT DO NOTHING: the meter is created paused.
Create(k) ==
    /\ pc[k] = "create"
    /\ IF exists THEN UNCHANGED row
       ELSE /\ exists' = TRUE /\ consumed' = 0 /\ paused' = TRUE
            /\ lastPing' = call[k].now /\ started' = call[k].now
    /\ Go(k, "read")
    /\ UNCHANGED <<clock, blocked, call, hist>>

\* The row and credit_blocked are read.
Read(k) ==
    /\ pc[k] = "read"
    /\ Set(k, [call[k] EXCEPT !.consumed = consumed, !.last = lastPing,
                              !.on = ~call[k].free /\ ~paused /\ ~blocked])
    /\ Go(k, "write")
    /\ UNCHANGED <<clock, row, blocked, hist>>

\* Math.round of so many half seconds.
Seconds(h) == (h + 1) \div 2

Billed_FromStart(c) == IF c.on /\ c.now > started THEN Seconds(c.now - started) ELSE 0

\* What a heartbeat bills: the time since the last one it knows of, nothing
\* when there is none or too much of it.
Bills(c)  == c.on /\ c.now > c.last /\ c.now - c.last <= Cap
Billed(c) == IF Bills(c) THEN Seconds(c.now - c.last) ELSE 0

\* pingActiveCredit writes the sum it computed, and advances last_ping_at.
WritePing(k) ==
    LET c     == call[k]
        after == IF c.on THEN Least(Budget, c.consumed + Billed(c)) ELSE c.consumed
    IN
    /\ pc[k] = "write" /\ c.kind = "ping"
    /\ consumed' = after
    /\ PingAt(c.now)
    /\ charged' = IF Bills(c) THEN charged \cup (c.last + 1)..c.now ELSE charged
    /\ billings' = billings + (IF Bills(c) THEN 1 ELSE 0)
    /\ Finish(k)
    /\ UNCHANGED <<clock, exists, paused, started, blocked,
                   frozen, fined, adjusts>>

WriteAdjust_Unclamped(k) ==
    LET c == call[k] IN
    /\ pc[k] = "write" /\ c.kind = "adjust"
    /\ consumed' = c.consumed + c.delta
    /\ fined' = fined + AtLeastZero(c.delta)
    /\ Finish(k)
    /\ UNCHANGED <<clock, exists, lastPing, paused, started, blocked,
                   charged, frozen, billings, rewound, adjusts>>

\* adjustCredit writes the clamped sum; last_ping_at stays.
WriteAdjust(k) ==
    LET c == call[k] IN
    /\ pc[k] = "write" /\ c.kind = "adjust"
    /\ consumed' = AtLeastZero(Least(Budget, c.consumed + c.delta))
    /\ fined' = fined + AtLeastZero(c.delta)
    /\ Finish(k)
    /\ UNCHANGED <<clock, exists, lastPing, paused, started, blocked,
                   charged, frozen, billings, rewound, adjusts>>

Upsert_KeepsPing(k) ==
    LET c == call[k] IN
    /\ pc[k] = "upsert"
    /\ paused' = (c.kind = "pause")
    /\ IF exists THEN UNCHANGED <<exists, consumed, started, lastPing, rewound>>
       ELSE /\ exists' = TRUE /\ consumed' = 0 /\ started' = c.now
            /\ lastPing' = c.now /\ UNCHANGED rewound
    /\ Finish(k)
    /\ UNCHANGED <<clock, blocked,
                   charged, frozen, billings, fined, adjusts>>

\* setCreditPause: pausing and resuming both start to count afresh.
Upsert(k) ==
    LET c == call[k] IN
    /\ pc[k] = "upsert"
    /\ paused' = (c.kind = "pause")
    /\ IF exists THEN PingAt(c.now) /\ UNCHANGED <<exists, consumed, started>>
       ELSE /\ exists' = TRUE /\ consumed' = 0 /\ started' = c.now
            /\ lastPing' = c.now /\ UNCHANGED rewound
    /\ Finish(k)
    /\ UNCHANGED <<clock, blocked,
                   charged, frozen, billings, fined, adjusts>>

\* setCreditBlocked
Block ==
    /\ blocked' = ~blocked
    /\ UNCHANGED <<clock, row, pc, call, hist>>

\* A statement fails and the rest of the call is not run.
Fail(k) ==
    /\ pc[k] # "idle"
    /\ Finish(k)
    /\ UNCHANGED <<clock, row, blocked, hist>>

Step(k) ==
    \/ Ping(k) \/ Pause(k) \/ Resume(k) \/ \E d \in Deltas : Adjust(k, d)
    \/ Create(k) \/ Read(k) \/ WritePing(k) \/ WriteAdjust(k) \/ Upsert(k) \/ Fail(k)

Next == Tick \/ Block \/ \E k \in Calls : Step(k)

Spec == Init /\ [][Next]_vars

----------------------------------------------------------------------------
(* Properties                                                              *)

\* Every variable keeps its type; consumed stays within the budget.
TypeOK ==
    /\ clock \in Nat
    /\ exists \in BOOLEAN /\ paused \in BOOLEAN /\ blocked \in BOOLEAN
    /\ consumed \in 0..Budget /\ lastPing \in Nat /\ started \in Nat
    /\ pc \in [Calls -> PcValues] /\ call \in [Calls -> CallRecord]
    /\ billings \in Nat /\ rewound \in Nat
    /\ fined \in Nat /\ adjusts \in Nat
    /\ charged \subseteq Nat /\ frozen \subseteq Nat

\* However calls overlap, and whatever they overwrite, nobody is charged more
\* than the time since the meter was created, what administrators added, half
\* a second of rounding per heartbeat, and the time by which calls that were
\* overtaken have set last_ping_at back (credit-active.ts:125-140).
ChargeIsBounded ==
    2 * consumed <= (lastPing - started) + 2 * fined + billings + rewound

\* Time during which the meter was paused is not billed, also not on resume
\* (credit-active.ts:88-89), unless a call that was overtaken has set
\* last_ping_at back.
PausedTimeIsFree == rewound = 0 => charged \cap frozen = {}
=============================================================================
