-------------------------- MODULE CreditMeterProofs -------------------------
(***************************************************************************)
(* Theorems about CreditMeter, for any budget, cap, slots, adjustments and *)
(* number of calls.                                                        *)
(***************************************************************************)
EXTENDS CreditMeter, TLAPS

\* What a call read is in the past and within the budget; it was read from a
\* row, which is there to stay.
CallsKnow ==
    \A k \in Calls :
        /\ call[k].consumed \in 0..Budget
        /\ call[k].now <= clock
        /\ pc[k] \in {"read", "write"} => exists

TypeInv == TypeOK /\ CallsKnow

LEMMA RoundingTypes ==
    ASSUME NEW h \in Nat PROVE Seconds(h) \in Nat /\ 2 * Seconds(h) <= h + 1
BY DEF Seconds

LEMMA BilledTypes ==
    ASSUME NEW c \in CallRecord
    PROVE  /\ Billed(c) \in Nat
           /\ Bills(c) => 2 * Billed(c) <= c.now - c.last + 1
           /\ ~Bills(c) => Billed(c) = 0
<1>1. CASE Bills(c)
    <2>1. c.now - c.last \in Nat
        BY <1>1 DEF Bills, CallRecord
    <2> QED
        BY <1>1, <2>1, RoundingTypes DEF Billed
<1>2. CASE ~Bills(c)
    BY <1>2 DEF Billed
<1> QED
    BY <1>1, <1>2

LEMMA NoCallTypes ==
    NoCall \in CallRecord /\ NoCall.consumed = 0 /\ NoCall.now = 0
BY DEF NoCall, CallRecord, Kinds

LEMMA InitTypeInv == Init => TypeInv
<1> SUFFICES ASSUME Init PROVE TypeInv
    OBVIOUS
<1>1. /\ clock = 0 /\ consumed = 0 /\ ~exists /\ pc = [k \in Calls |-> "idle"]
      /\ call = [k \in Calls |-> NoCall]
    BY DEF Init
<1>2. CallsKnow
    <2>1. \A k \in Calls : call[k] = NoCall /\ pc[k] = "idle"
        BY <1>1
    <2>2. \A k \in Calls : /\ call[k].consumed \in 0..Budget
                          /\ call[k].now <= clock
                          /\ pc[k] \notin {"read", "write"}
        <3> TAKE k \in Calls
        <3>1. call[k].consumed = 0 /\ call[k].now = 0 /\ pc[k] = "idle"
            BY <2>1, NoCallTypes
        <3> QED
            BY <1>1, <3>1, CreditMeterAssumption
    <2> QED
        BY <2>2, Zenon DEF CallsKnow
<1>3. pc \in [Calls -> PcValues] /\ call \in [Calls -> CallRecord]
    BY <1>1, NoCallTypes DEF PcValues
<1> QED
    <2>1. exists \in BOOLEAN /\ paused \in BOOLEAN /\ blocked \in BOOLEAN
        BY DEF Init
    <2>2. /\ clock \in Nat /\ consumed \in 0..Budget /\ lastPing \in Nat
          /\ started \in Nat /\ billings \in Nat /\ rewound \in Nat
          /\ fined \in Nat /\ adjusts \in Nat
          /\ charged \subseteq Nat /\ frozen \subseteq Nat
        BY CreditMeterAssumption DEF Init
    <2> QED
        BY <1>1, <1>2, <1>3, <2>1, <2>2, Zenon DEF TypeInv, TypeOK

LEMMA FinishTypes ==
    ASSUME TypeInv, NEW k \in Calls, Finish(k), clock' = clock, exists => exists'
    PROVE  /\ pc' \in [Calls -> PcValues] /\ call' \in [Calls -> CallRecord]
           /\ CallsKnow'
BY CreditMeterAssumption
DEF TypeInv, TypeOK, CallsKnow, Finish, Go, Set, PcValues, Kinds, CallRecord, NoCall

\* The call that has arrived.
Arrived(kind, now, free, d) ==
    [NoCall EXCEPT !.kind = kind, !.now = now, !.free = free, !.delta = d]

LEMMA ArrivedCall ==
    ASSUME NEW kind \in Kinds, NEW now \in Nat, NEW free \in BOOLEAN, NEW d \in Int
    PROVE  /\ Arrived(kind, now, free, d) \in CallRecord
           /\ Arrived(kind, now, free, d).kind = kind
           /\ Arrived(kind, now, free, d).now = now
           /\ Arrived(kind, now, free, d).consumed = 0
BY NoCallTypes DEF Arrived, CallRecord

\* The call that has read the row.
HasRead(c, n, last, on) == [c EXCEPT !.consumed = n, !.last = last, !.on = on]

LEMMA ReadCall ==
    ASSUME NEW c \in CallRecord, NEW n \in Int, NEW last \in Nat, NEW on \in BOOLEAN
    PROVE  /\ HasRead(c, n, last, on) \in CallRecord
           /\ HasRead(c, n, last, on).kind = c.kind
           /\ HasRead(c, n, last, on).now = c.now
           /\ HasRead(c, n, last, on).delta = c.delta
           /\ HasRead(c, n, last, on).consumed = n
           /\ HasRead(c, n, last, on).last = last
           /\ HasRead(c, n, last, on).on = on
BY DEF HasRead, CallRecord

LEMMA ArriveTypeInv ==
    ASSUME TypeInv, NEW k \in Calls, NEW kind \in Kinds, NEW d \in Int,
           Arrive(k, kind, d), adjusts' \in Nat
    PROVE  TypeInv'
<1> DEFINE free == clock \in Slots
           r == Arrived(kind, clock, free, d)
<1>1. free \in BOOLEAN
    OBVIOUS
<1> HIDE DEF free
<1>2. r \in CallRecord /\ r.consumed = 0 /\ r.now = clock
    BY <1>1, ArrivedCall DEF TypeInv, TypeOK
<1>3. call' = [call EXCEPT ![k] = r]
    BY DEF Arrive, Set, Arrived, free
<1> HIDE DEF r
<1>4. /\ pc' = [pc EXCEPT ![k] = pc'[k]] /\ pc'[k] \in {"upsert", "create"}
      /\ UNCHANGED <<clock, row, blocked, charged, frozen, billings, rewound, fined>>
    BY DEF Arrive, Go, TypeInv, TypeOK
<1> QED
    BY <1>2, <1>3, <1>4, CreditMeterAssumption
    DEF TypeInv, TypeOK, CallsKnow, row, PcValues

LEMMA CreateTypeInv ==
    ASSUME TypeInv, NEW k \in Calls, Create(k) PROVE TypeInv'
<1>1. call[k].now \in Nat
    BY DEF TypeInv, TypeOK, CallRecord
<1>2. /\ exists' /\ consumed' \in 0..Budget /\ paused' \in BOOLEAN
      /\ lastPing' \in Nat /\ started' \in Nat
    <2>1. CASE exists
        BY <2>1 DEF TypeInv, TypeOK, Create, row
    <2>2. CASE ~exists
        BY <1>1, <2>2, CreditMeterAssumption DEF Create
    <2> QED
        BY <2>1, <2>2
<1> QED
    BY <1>2 DEF TypeInv, TypeOK, CallsKnow, Create, Go, hist, PcValues

LEMMA ReadTypeInv ==
    ASSUME TypeInv, NEW k \in Calls, Read(k) PROVE TypeInv'
<1> DEFINE isOn == ~call[k].free /\ ~paused /\ ~blocked
           r == HasRead(call[k], consumed, lastPing, isOn)
<1>1. isOn \in BOOLEAN /\ exists
    BY DEF TypeInv, CallsKnow, Read
<1> HIDE DEF isOn
<1>2. r \in CallRecord /\ r.consumed = consumed /\ r.now = call[k].now
    BY <1>1, ReadCall DEF TypeInv, TypeOK
<1>3. /\ call' = [call EXCEPT ![k] = r] /\ pc' = [pc EXCEPT ![k] = "write"]
      /\ UNCHANGED <<clock, row, blocked, hist>>
    BY DEF Read, Set, Go, isOn, HasRead
<1> HIDE DEF r
<1> QED
    BY <1>1, <1>2, <1>3 DEF TypeInv, TypeOK, CallsKnow, row, hist, PcValues

LEMMA WritePingTypeInv ==
    ASSUME TypeInv, NEW k \in Calls, WritePing(k) PROVE TypeInv'
<1> DEFINE c == call[k]
<1>1. c \in CallRecord /\ c.consumed \in 0..Budget /\ Billed(c) \in Nat /\ exists
    BY BilledTypes DEF TypeInv, TypeOK, CallsKnow, WritePing
<1>2. consumed' \in 0..Budget
    BY <1>1, CreditMeterAssumption DEF WritePing, Least
<1>3. lastPing' \in Nat /\ rewound' \in Nat /\ billings' \in Nat
    BY <1>1 DEF WritePing, PingAt, AtLeastZero, TypeInv, TypeOK, CallRecord
<1>4. charged' \subseteq Nat
    <2>1. (c.last + 1)..c.now \subseteq Nat
        BY <1>1 DEF CallRecord
    <2> QED
        BY <2>1 DEF WritePing, TypeInv, TypeOK
<1>5. /\ pc' \in [Calls -> PcValues] /\ call' \in [Calls -> CallRecord] /\ CallsKnow'
    BY FinishTypes DEF WritePing
<1> QED
    BY <1>1, <1>2, <1>3, <1>4, <1>5 DEF WritePing, TypeInv, TypeOK

LEMMA WriteAdjustTypeInv ==
    ASSUME TypeInv, NEW k \in Calls, WriteAdjust(k) PROVE TypeInv'
<1>1. call[k] \in CallRecord /\ call[k].consumed \in 0..Budget /\ exists
    BY DEF TypeInv, TypeOK, CallsKnow, WriteAdjust
<1>2. consumed' \in 0..Budget /\ fined' \in Nat
    BY <1>1, CreditMeterAssumption
    DEF WriteAdjust, Least, AtLeastZero, TypeInv, TypeOK, CallRecord
<1>3. /\ pc' \in [Calls -> PcValues] /\ call' \in [Calls -> CallRecord] /\ CallsKnow'
    BY FinishTypes DEF WriteAdjust
<1> QED
    BY <1>1, <1>2, <1>3 DEF WriteAdjust, TypeInv, TypeOK

LEMMA UpsertTypeInv ==
    ASSUME TypeInv, NEW k \in Calls, Upsert(k) PROVE TypeInv'
<1>1. call[k].now \in Nat
    BY DEF TypeInv, TypeOK, CallRecord
<1>2. /\ exists' /\ consumed' \in 0..Budget /\ paused' \in BOOLEAN
      /\ lastPing' \in Nat /\ started' \in Nat /\ rewound' \in Nat
    BY <1>1, CreditMeterAssumption
    DEF TypeInv, TypeOK, Upsert, PingAt, AtLeastZero
<1>3. /\ pc' \in [Calls -> PcValues] /\ call' \in [Calls -> CallRecord] /\ CallsKnow'
    BY <1>2, FinishTypes DEF Upsert
<1> QED
    BY <1>2, <1>3 DEF Upsert, TypeInv, TypeOK

LEMMA QuietTypeInv ==
    ASSUME TypeInv, Tick \/ Block \/ (\E k \in Calls : Fail(k)) PROVE TypeInv'
<1>1. CASE Tick
    BY <1>1 DEF Tick, TypeInv, TypeOK, CallsKnow, row, CallRecord
<1>2. CASE Block
    BY <1>2 DEF Block, TypeInv, TypeOK, CallsKnow, row, hist
<1>3. CASE \E k \in Calls : Fail(k)
    <2>1. PICK k \in Calls : Fail(k)
        BY <1>3
    <2>2. /\ pc' \in [Calls -> PcValues] /\ call' \in [Calls -> CallRecord] /\ CallsKnow'
        BY <2>1, FinishTypes DEF Fail, row
    <2> QED
        BY <2>1, <2>2 DEF Fail, TypeInv, TypeOK, row, hist
<1> QED
    BY <1>1, <1>2, <1>3

\* The calls that arrive.
Arrives(k) == Ping(k) \/ Pause(k) \/ Resume(k) \/ \E d \in Deltas : Adjust(k, d)

LEMMA ArrivesAsCall ==
    ASSUME TypeInv, NEW k \in Calls, Arrives(k)
    PROVE  \E kind \in Kinds, d \in Int : Arrive(k, kind, d) /\ adjusts' \in Nat
<1>1. CASE \E d \in Deltas : Adjust(k, d)
    BY <1>1, CreditMeterAssumption DEF Adjust, Kinds, TypeInv, TypeOK
<1>2. CASE Ping(k) \/ Pause(k) \/ Resume(k)
    BY <1>2 DEF Ping, Pause, Resume, Kinds, TypeInv, TypeOK
<1> QED
    BY <1>1, <1>2 DEF Arrives

LEMMA NextTypeInv == TypeInv /\ [Next]_vars => TypeInv'
<1> SUFFICES ASSUME TypeInv, [Next]_vars PROVE TypeInv'
    OBVIOUS
<1>1. CASE UNCHANGED vars
    BY <1>1 DEF TypeInv, TypeOK, CallsKnow, vars, row, hist
<1>2. ASSUME NEW k \in Calls, Step(k) PROVE TypeInv'
    <2>1. CASE Arrives(k)
        BY <2>1, ArrivesAsCall, ArriveTypeInv
    <2> QED
        BY <1>2, <2>1, CreateTypeInv, ReadTypeInv, WritePingTypeInv,
           WriteAdjustTypeInv, UpsertTypeInv, QuietTypeInv
        DEF Step, Arrives
<1> QED
    BY <1>1, <1>2, QuietTypeInv DEF Next

LEMMA TypeInvHolds == Spec => []TypeInv
BY InitTypeInv, NextTypeInv, PTL DEF Spec

\* The row of the meter and the calls keep their types; consumed stays within
\* the budget, however heartbeats and adjustments overlap (credit-active.ts:127,
\* :162).
THEOREM TypeCorrect == Spec => []TypeOK
<1>1. TypeInv => TypeOK
    BY DEF TypeInv
<1> QED
    BY <1>1, TypeInvHolds, PTL

----------------------------------------------------------------------------
\* What may be charged until t.
Allowed(t) == (t - started) + 2 * fined + billings + rewound

\* What a call is about to write from was allowed when it was read, also if
\* last_ping_at was set back since.
ReadAllowed ==
    \A k \in Calls : pc[k] = "write" =>
        /\ 2 * call[k].consumed <= Allowed(call[k].last)
        /\ 2 * call[k].consumed <= Allowed(lastPing)

\* last_ping_at is behind the creation of the meter by no more than it was set
\* back.
ChargeInv ==
    /\ 2 * consumed <= Allowed(lastPing)
    /\ started <= lastPing + rewound
    /\ ReadAllowed

\* Time paused is over for a resume that has arrived, for the meter when it
\* runs, and for a heartbeat that found it running.
RunningInv ==
    /\ \A f \in frozen \cup charged : f <= clock
    /\ ~exists => frozen = {}
    /\ \A k \in Calls :
          /\ pc[k] = "upsert" => call[k].kind \in {"pause", "resume"}
          /\ call[k].kind = "resume" => \A f \in frozen : f <= call[k].now

BilledInv ==
    rewound = 0 =>
        /\ charged \cap frozen = {}
        /\ exists /\ ~paused => \A f \in frozen : f <= lastPing
        /\ \A k \in Calls : pc[k] = "write" /\ call[k].on =>
              \A f \in frozen : f <= call[k].last \/ f > call[k].now

LEMMA BackTypes ==
    ASSUME TypeInv, NEW n \in Nat, PingAt(n)
    PROVE  /\ lastPing' = n /\ rewound' \in Nat /\ rewound <= rewound'
           /\ lastPing + rewound <= n + rewound'
           /\ rewound' = rewound => lastPing <= n
BY DEF TypeInv, TypeOK, PingAt, AtLeastZero

\* A step that creates no meter and charges no more than the history allows,
\* and after which only calls that were about to write still are.
LEMMA ChargeStep ==
    ASSUME TypeInv, TypeInv', ChargeInv, started' = started,
           fined <= fined', billings <= billings', rewound <= rewound',
           lastPing + rewound <= lastPing' + rewound',
           2 * consumed' <= Allowed(lastPing)',
           \A k \in Calls : pc'[k] = "write" =>
               pc[k] = "write" /\ call'[k] = call[k]
    PROVE  ChargeInv'
<1>1. /\ consumed \in Int /\ lastPing \in Int /\ started \in Int /\ fined \in Int
      /\ billings \in Int /\ rewound \in Int
    BY DEF TypeInv, TypeOK
<1>2. PICK c \in Int, l \in Int, f \in Int, b \in Int, r \in Int :
          /\ consumed' = c /\ lastPing' = l /\ fined' = f
          /\ billings' = b /\ rewound' = r
    BY DEF TypeInv, TypeOK
<1>3. started' <= lastPing' + rewound'
    <2>1. started <= lastPing + rewound
        BY DEF ChargeInv
    <2> QED
        BY <1>1, <1>2, <2>1
<1>4. ASSUME NEW k \in Calls, pc'[k] = "write"
      PROVE  (/\ 2 * call[k].consumed <= Allowed(call[k].last)
              /\ 2 * call[k].consumed <= Allowed(lastPing))'
    <2>1. call[k].consumed \in Int /\ call[k].last \in Int
        BY DEF CallRecord, TypeInv, TypeOK
    <2>2. /\ 2 * call[k].consumed <= Allowed(call[k].last)
          /\ 2 * call[k].consumed <= Allowed(lastPing)
          /\ call'[k] = call[k]
        BY <1>4 DEF ChargeInv, ReadAllowed
    <2> QED
        BY <1>1, <1>2, <2>1, <2>2 DEF Allowed
<1>5. ReadAllowed'
    BY <1>4 DEF ReadAllowed
<1> QED
    BY <1>3, <1>5 DEF ChargeInv

\* A row that is created has charged nothing, and no call has read it.
LEMMA NewRowCharge ==
    ASSUME TypeInv, TypeInv', ~exists, NEW n \in Nat,
           consumed' = 0, started' = n, lastPing' = n,
           UNCHANGED <<fined, billings, rewound>>,
           \A k \in Calls : pc'[k] = "write" => pc[k] = "write"
    PROVE  ChargeInv'
<1>1. \A k \in Calls : pc'[k] # "write"
    BY DEF TypeInv, CallsKnow
<1> QED
    BY <1>1 DEF ChargeInv, ReadAllowed, Allowed, TypeInv, TypeOK

LEMMA OthersWrite ==
    ASSUME TypeInv, NEW k \in Calls, NEW to \in PcValues \ {"write"}, Go(k, to),
           \A l \in Calls \ {k} : call'[l] = call[l]
    PROVE  \A l \in Calls : pc'[l] = "write" => pc[l] = "write" /\ call'[l] = call[l]
BY DEF Go, TypeInv, TypeOK

LEMMA FinishOthers ==
    ASSUME TypeInv, NEW k \in Calls, Finish(k)
    PROVE  \A l \in Calls : pc'[l] = "write" => pc[l] = "write" /\ call'[l] = call[l]
BY OthersWrite DEF Finish, Set, PcValues, TypeInv, TypeOK

LEMMA ReadCharge ==
    ASSUME TypeInv, TypeInv', ChargeInv, NEW k \in Calls, Read(k) PROVE ChargeInv'
<1> DEFINE on == ~call[k].free /\ ~paused /\ ~blocked
<1>1. /\ on \in BOOLEAN
      /\ call' = [call EXCEPT ![k] = HasRead(call[k], consumed, lastPing, on)]
    BY DEF Read, Set, HasRead
<1> HIDE DEF on
<1>2. call'[k].consumed = consumed /\ call'[k].last = lastPing
    <2>1. call'[k] = HasRead(call[k], consumed, lastPing, on)
        BY <1>1 DEF TypeInv, TypeOK
    <2>2. call[k] \in CallRecord /\ consumed \in Int /\ lastPing \in Nat
        BY DEF TypeInv, TypeOK
    <2> QED
        BY <1>1, <2>1, <2>2, ReadCall
<1>3. \A l \in Calls \ {k} : call'[l] = call[l] /\ pc'[l] = pc[l]
    BY <1>1 DEF Read, Go, TypeInv, TypeOK
<1>4. UNCHANGED <<consumed, lastPing, started, fined, billings, rewound>>
    BY DEF Read, row, hist
<1> QED
    BY <1>2, <1>3, <1>4 DEF ChargeInv, ReadAllowed, Allowed

LEMMA WritePingCharge ==
    ASSUME TypeInv, TypeInv', ChargeInv, NEW k \in Calls, WritePing(k) PROVE ChargeInv'
<1> DEFINE c == call[k]
<1>1. /\ c \in CallRecord /\ c.now \in Nat /\ c.last \in Nat
      /\ c.consumed \in 0..Budget
    BY DEF TypeInv, TypeOK, CallsKnow, CallRecord
<1>2. /\ 2 * c.consumed <= Allowed(c.last)
      /\ 2 * c.consumed <= Allowed(lastPing)
    BY DEF WritePing, ChargeInv, ReadAllowed
<1>3. /\ lastPing' = c.now /\ rewound' \in Nat /\ rewound <= rewound'
      /\ lastPing + rewound <= c.now + rewound'
    BY <1>1, BackTypes DEF WritePing
<1>4. 2 * consumed' <= Allowed(lastPing)'
    <2>1. CASE Bills(c)
        <3>1. Billed(c) \in Nat /\ 2 * Billed(c) <= c.now - c.last + 1
            BY <1>1, <2>1, BilledTypes
        <3>2. 2 * consumed' <= 2 * c.consumed + 2 * Billed(c)
            BY <1>1, <3>1, CreditMeterAssumption DEF WritePing, Least
        <3>3. billings' = billings + 1 /\ started' = started /\ fined' = fined
            BY <2>1 DEF WritePing
        <3> QED
            BY <1>1, <1>2, <1>3, <3>1, <3>2, <3>3 DEF Allowed, TypeInv, TypeOK
    <2>2. CASE ~Bills(c)
        <3>1. 2 * consumed' <= 2 * c.consumed
            BY <1>1, <2>2, BilledTypes, CreditMeterAssumption DEF WritePing, Least
        <3>2. billings' = billings /\ started' = started /\ fined' = fined
            BY <2>2 DEF WritePing, TypeInv, TypeOK
        <3> QED
            BY <1>1, <1>2, <1>3, <3>1, <3>2 DEF Allowed, TypeInv, TypeOK
    <2> QED
        BY <2>1, <2>2
<1>5. started' = started /\ fined' = fined /\ billings <= billings'
    BY DEF WritePing, TypeInv, TypeOK
<1>6. \A l \in Calls : pc'[l] = "write" => pc[l] = "write" /\ call'[l] = call[l]
    BY FinishOthers DEF WritePing
<1> QED
    BY <1>3, <1>4, <1>5, <1>6, ChargeStep DEF TypeInv, TypeOK

LEMMA WriteAdjustCharge ==
    ASSUME TypeInv, TypeInv', ChargeInv, NEW k \in Calls, WriteAdjust(k) PROVE ChargeInv'
<1> DEFINE c == call[k]
<1>1. c.consumed \in 0..Budget /\ c.delta \in Int
    BY DEF TypeInv, TypeOK, CallsKnow, CallRecord
<1>2. 2 * c.consumed <= Allowed(lastPing) /\ started <= lastPing + rewound
    BY DEF WriteAdjust, ChargeInv, ReadAllowed
<1>3. /\ consumed' = AtLeastZero(Least(Budget, c.consumed + c.delta))
      /\ fined' = fined + AtLeastZero(c.delta)
      /\ UNCHANGED <<lastPing, started, billings, rewound>>
    BY DEF WriteAdjust
<1>4. 2 * consumed' <= Allowed(lastPing)'
    BY <1>1, <1>2, <1>3, CreditMeterAssumption
    DEF Allowed, Least, AtLeastZero, TypeInv, TypeOK
<1>5. \A l \in Calls : pc'[l] = "write" => pc[l] = "write" /\ call'[l] = call[l]
    BY FinishOthers DEF WriteAdjust
<1> QED
    BY <1>1, <1>3, <1>4, <1>5, ChargeStep DEF TypeInv, TypeOK, AtLeastZero

LEMMA CreateCharge ==
    ASSUME TypeInv, TypeInv', ChargeInv, NEW k \in Calls, Create(k) PROVE ChargeInv'
<1>1. \A l \in Calls : pc'[l] = "write" => pc[l] = "write" /\ call'[l] = call[l]
    BY OthersWrite DEF Create, PcValues
<1>2. UNCHANGED <<fined, billings, rewound>>
    BY DEF Create, hist
<1>3. CASE exists
    <2>1. UNCHANGED row
        BY <1>3 DEF Create
    <2> QED
        BY <1>1, <1>2, <2>1, ChargeStep DEF row, ChargeInv, Allowed, TypeInv, TypeOK
<1>4. CASE ~exists
    <2>1. consumed' = 0 /\ started' = call[k].now /\ lastPing' = call[k].now
        BY <1>4 DEF Create
    <2>2. call[k].now \in Nat
        BY DEF TypeInv, TypeOK, CallRecord
    <2> QED
        BY <1>1, <1>2, <1>4, <2>1, <2>2, NewRowCharge
<1> QED
    BY <1>3, <1>4

LEMMA UpsertCharge ==
    ASSUME TypeInv, TypeInv', ChargeInv, NEW k \in Calls, Upsert(k) PROVE ChargeInv'
<1>1. \A l \in Calls : pc'[l] = "write" => pc[l] = "write" /\ call'[l] = call[l]
    BY FinishOthers DEF Upsert
<1>2. fined' = fined /\ billings' = billings /\ call[k].now \in Nat
    BY DEF Upsert, TypeInv, TypeOK, CallRecord
<1>3. CASE exists
    <2>1. PingAt(call[k].now) /\ consumed' = consumed /\ started' = started
        BY <1>3 DEF Upsert
    <2>2. /\ lastPing' = call[k].now /\ rewound <= rewound'
          /\ lastPing + rewound <= call[k].now + rewound'
        BY <1>2, <2>1, BackTypes
    <2>3. 2 * consumed' <= Allowed(lastPing)'
        BY <1>2, <2>1, <2>2 DEF ChargeInv, Allowed, TypeInv, TypeOK
    <2> QED
        BY <1>1, <1>2, <2>1, <2>2, <2>3, ChargeStep DEF TypeInv, TypeOK
<1>4. CASE ~exists
    <2>1. /\ consumed' = 0 /\ started' = call[k].now /\ lastPing' = call[k].now
          /\ rewound' = rewound
        BY <1>4 DEF Upsert
    <2> QED
        BY <1>1, <1>2, <1>4, <2>1, NewRowCharge
<1> QED
    BY <1>3, <1>4

LEMMA QuietCharge ==
    ASSUME TypeInv, TypeInv', ChargeInv,
           \/ Tick \/ Block \/ UNCHANGED vars
           \/ \E k \in Calls : Fail(k) \/ Arrives(k)
    PROVE  ChargeInv'
<1>1. UNCHANGED <<consumed, lastPing, started, fined, billings, rewound>>
    <2>1. CASE Tick \/ Block \/ UNCHANGED vars
        BY <2>1 DEF Tick, Block, vars, row, hist
    <2>2. ASSUME NEW k \in Calls, Fail(k) \/ Arrives(k)
          PROVE  UNCHANGED <<consumed, lastPing, started, fined, billings, rewound>>
        BY <2>2 DEF Fail, Arrives, Ping, Pause, Resume, Adjust, Arrive, row, hist
    <2> QED
        BY <2>1, <2>2
<1>2. \A l \in Calls : pc'[l] = "write" => pc[l] = "write" /\ call'[l] = call[l]
    <2>1. CASE Tick \/ Block \/ UNCHANGED vars
        BY <2>1 DEF Tick, Block, vars
    <2>2. ASSUME NEW k \in Calls, Fail(k)
          PROVE  \A l \in Calls : pc'[l] = "write" => pc[l] = "write" /\ call'[l] = call[l]
        BY <2>2, FinishOthers DEF Fail
    <2>3. ASSUME NEW k \in Calls, NEW kind, NEW d, Arrive(k, kind, d)
          PROVE  \A l \in Calls : pc'[l] = "write" => pc[l] = "write" /\ call'[l] = call[l]
        BY <2>3 DEF Arrive, Set, Go, TypeInv, TypeOK
    <2>4. ASSUME NEW k \in Calls, Arrives(k)
          PROVE  \A l \in Calls : pc'[l] = "write" => pc[l] = "write" /\ call'[l] = call[l]
        <3>1. PICK kind \in Kinds, d \in Int : Arrive(k, kind, d)
            BY <2>4, ArrivesAsCall
        <3> QED
            BY <2>3, <3>1
    <2> QED
        BY <2>1, <2>2, <2>4
<1> QED
    BY <1>1, <1>2, ChargeStep DEF ChargeInv, Allowed, TypeInv, TypeOK

\* However heartbeats, pauses and adjustments overlap, what is charged stays
\* within the time that has passed and what administrators added, with half a
\* second of rounding per heartbeat and the time by which last_ping_at was set
\* back (credit-active.ts:101-140).
THEOREM ChargeBounded == Spec => []ChargeIsBounded
<1>1. Init => ChargeInv
    <2> SUFFICES ASSUME Init PROVE ChargeInv
        OBVIOUS
    <2>1. \A k \in Calls : pc[k] = "idle"
        BY DEF Init
    <2> QED
        BY <2>1 DEF Init, ChargeInv, ReadAllowed, Allowed
<1>2. TypeInv /\ TypeInv' /\ ChargeInv /\ [Next]_vars => ChargeInv'
    <2> SUFFICES ASSUME TypeInv, TypeInv', ChargeInv, [Next]_vars PROVE ChargeInv'
        OBVIOUS
    <2>1. ASSUME NEW k \in Calls, Step(k) PROVE ChargeInv'
        BY <2>1, QuietCharge, CreateCharge, ReadCharge, WritePingCharge,
           WriteAdjustCharge, UpsertCharge
        DEF Step, Arrives
    <2> QED
        BY <2>1, QuietCharge DEF Next
<1>3. ChargeInv => ChargeIsBounded
    BY DEF ChargeInv, Allowed, ChargeIsBounded
<1> QED
    BY <1>1, <1>2, <1>3, TypeInvHolds, PTL DEF Spec

----------------------------------------------------------------------------
\* Calls that are about to set the pause, and those that resume, were so before.
SettersKept(k) ==
    /\ pc'[k] = "upsert" => pc[k] = "upsert" /\ call'[k] = call[k]
    /\ call'[k].kind = "resume" => call[k].kind = "resume" /\ call'[k].now = call[k].now

LEMMA FinishedCalls ==
    ASSUME TypeInv, NEW k \in Calls, Finish(k)
    PROVE  \A l \in Calls : SettersKept(l)
BY DEF SettersKept, Finish, Go, Set, NoCall, TypeInv, TypeOK

LEMMA RunningStep ==
    ASSUME TypeInv, RunningInv, UNCHANGED <<clock, frozen>>,
           \A f \in charged' : f <= clock,
           exists => exists',
           \A l \in Calls : SettersKept(l)
    PROVE  RunningInv'
BY DEF RunningInv, SettersKept

LEMMA TickRunning ==
    ASSUME TypeInv, RunningInv, Tick PROVE RunningInv'
<1>1. clock' = clock + 1 /\ clock \in Nat /\ UNCHANGED <<exists, pc, call, charged>>
    BY DEF Tick, row, TypeInv, TypeOK
<1>2. charged \subseteq Nat /\ frozen \subseteq Nat
    BY DEF TypeInv, TypeOK
<1>3. CASE Frozen
    <2>1. frozen' = frozen \cup {clock + 1} /\ exists /\ \A k \in Calls : call[k].kind # "resume"
        BY <1>3 DEF Tick, Frozen
    <2> QED
        BY <1>1, <1>2, <2>1 DEF RunningInv
<1>4. CASE ~Frozen
    <2>1. frozen' = frozen
        BY <1>4 DEF Tick
    <2> QED
        BY <1>1, <1>2, <2>1 DEF RunningInv
<1> QED
    BY <1>3, <1>4

LEMMA ArriveRunning ==
    ASSUME TypeInv, RunningInv, NEW k \in Calls, NEW kind \in Kinds, NEW d \in Int,
           Arrive(k, kind, d)
    PROVE  RunningInv'
<1> DEFINE free == clock \in Slots
           r == Arrived(kind, clock, free, d)
<1>1. free \in BOOLEAN
    OBVIOUS
<1>2. call' = [call EXCEPT ![k] = r]
    BY DEF Arrive, Set, Arrived
<1> HIDE DEF free
<1>3. r.kind = kind /\ r.now = clock
    BY <1>1, ArrivedCall DEF TypeInv, TypeOK
<1> HIDE DEF r
<1>4. /\ UNCHANGED <<clock, exists, frozen, charged>>
      /\ pc'[k] = IF kind \in {"pause", "resume"} THEN "upsert" ELSE "create"
      /\ \A l \in Calls \ {k} : pc'[l] = pc[l] /\ call'[l] = call[l]
      /\ call'[k] = r
    BY <1>2 DEF Arrive, Go, row, TypeInv, TypeOK
<1> QED
    BY <1>3, <1>4 DEF RunningInv

LEMMA CallRunning ==
    ASSUME TypeInv, RunningInv, NEW k \in Calls,
           \/ Create(k) \/ Read(k) \/ WritePing(k) \/ WriteAdjust(k)
           \/ Upsert(k) \/ Fail(k)
    PROVE  RunningInv'
<1>1. exists => exists'
    BY DEF Create, Read, WritePing, WriteAdjust, Upsert, Fail, row
<1>2. UNCHANGED <<clock, frozen>>
    BY DEF Create, Read, WritePing, WriteAdjust, Upsert, Fail, hist
<1>3. \A f \in charged' : f <= clock
    <2>1. CASE WritePing(k)
        <3>1. call[k].now <= clock /\ clock \in Nat /\ call[k] \in CallRecord
            BY DEF TypeInv, TypeOK, CallsKnow
        <3>2. \A f \in (call[k].last + 1)..call[k].now : f <= clock
            BY <3>1 DEF CallRecord
        <3> QED
            BY <2>1, <3>2 DEF WritePing, RunningInv
    <2>2. CASE ~WritePing(k)
        BY <2>2 DEF Create, Read, WriteAdjust, Upsert, Fail, hist, RunningInv
    <2> QED
        BY <2>1, <2>2
<1>4. \A l \in Calls : SettersKept(l)
    <2>1. CASE Create(k)
        BY <2>1 DEF Create, Go, SettersKept, TypeInv, TypeOK
    <2>2. CASE Read(k)
        <3> DEFINE on == ~call[k].free /\ ~paused /\ ~blocked
                   r == HasRead(call[k], consumed, lastPing, on)
        <3>1. on \in BOOLEAN
            OBVIOUS
        <3>2. call' = [call EXCEPT ![k] = r]
            BY <2>2 DEF Read, Set, HasRead
        <3> HIDE DEF on
        <3>3. r.kind = call[k].kind /\ r.now = call[k].now
            BY <3>1, ReadCall DEF TypeInv, TypeOK
        <3> HIDE DEF r
        <3> QED
            BY <2>2, <3>2, <3>3 DEF Read, Go, SettersKept, TypeInv, TypeOK
    <2>3. CASE WritePing(k) \/ WriteAdjust(k) \/ Upsert(k) \/ Fail(k)
        BY <2>3, FinishedCalls DEF WritePing, WriteAdjust, Upsert, Fail
    <2> QED
        BY <2>1, <2>2, <2>3
<1> QED
    BY <1>1, <1>2, <1>3, <1>4, RunningStep

LEMMA NextRunning ==
    ASSUME TypeInv, RunningInv, [Next]_vars PROVE RunningInv'
<1>1. CASE Tick
    BY <1>1, TickRunning
<1>2. CASE Block \/ UNCHANGED vars
    BY <1>2 DEF Block, RunningInv, vars, row, hist
<1>3. ASSUME NEW k \in Calls, Step(k) PROVE RunningInv'
    BY <1>3, ArrivesAsCall, ArriveRunning, CallRunning DEF Step, Arrives
<1> QED
    BY <1>1, <1>2, <1>3 DEF Next

----------------------------------------------------------------------------
\* As long as last_ping_at is not set back, a step that neither starts the meter
\* nor charges nor lets time pass keeps what is charged apart from what is paused.
LEMMA BilledStep ==
    ASSUME TypeInv, BilledInv, UNCHANGED <<charged, frozen>>, rewound <= rewound',
           rewound' = 0 /\ exists' /\ ~paused' => \A f \in frozen : f <= lastPing',
           \A l \in Calls : pc'[l] = "write" => pc[l] = "write" /\ call'[l] = call[l]
    PROVE  BilledInv'
<1> SUFFICES ASSUME rewound' = 0 PROVE BilledInv'
    BY DEF BilledInv
<1>1. rewound = 0
    BY DEF TypeInv, TypeOK
<1> QED
    BY <1>1 DEF BilledInv

LEMMA TickBilled ==
    ASSUME TypeInv, RunningInv, BilledInv, Tick PROVE BilledInv'
<1>1. /\ clock \in Nat /\ charged \subseteq Nat /\ frozen \subseteq Nat
      /\ \A k \in Calls : call[k].now \in Nat /\ call[k].now <= clock
    BY DEF TypeInv, TypeOK, CallsKnow, CallRecord
<1>2. UNCHANGED <<exists, paused, lastPing, pc, call, charged, rewound>>
    BY DEF Tick, row
<1>3. CASE Frozen
    <2>1. frozen' = frozen \cup {clock + 1} /\ paused
        BY <1>3 DEF Tick, Frozen
    <2>2. \A f \in charged : f # clock + 1
        BY <1>1 DEF RunningInv
    <2> QED
        BY <1>1, <1>2, <2>1, <2>2 DEF BilledInv
<1>4. CASE ~Frozen
    BY <1>2, <1>4 DEF Tick, BilledInv
<1> QED
    BY <1>3, <1>4

LEMMA ReadBilled ==
    ASSUME TypeInv, BilledInv, NEW k \in Calls, Read(k) PROVE BilledInv'
<1> DEFINE on == ~call[k].free /\ ~paused /\ ~blocked
           r == HasRead(call[k], consumed, lastPing, on)
<1>1. on \in BOOLEAN
    OBVIOUS
<1>2. call' = [call EXCEPT ![k] = r] /\ (on => ~paused)
    BY DEF Read, Set, HasRead
<1> HIDE DEF on
<1>3. r.on = on /\ r.last = lastPing
    BY <1>1, ReadCall DEF TypeInv, TypeOK
<1> HIDE DEF r
<1>4. /\ exists /\ call'[k] = r
      /\ \A l \in Calls \ {k} : pc'[l] = pc[l] /\ call'[l] = call[l]
    BY <1>2 DEF Read, Go, TypeInv, TypeOK, CallsKnow
<1>5. UNCHANGED <<exists, paused, lastPing, charged, frozen, rewound>>
    BY DEF Read, row, hist
<1> QED
    BY <1>2, <1>3, <1>4, <1>5 DEF BilledInv

LEMMA WritePingBilled ==
    ASSUME TypeInv, BilledInv, NEW k \in Calls, WritePing(k) PROVE BilledInv'
<1> DEFINE c == call[k]
<1>1. c \in CallRecord /\ frozen \subseteq Nat /\ rewound \in Nat /\ lastPing \in Nat
    BY DEF TypeInv, TypeOK
<1>2. /\ lastPing' = c.now /\ rewound <= rewound' /\ rewound' \in Nat
      /\ rewound' = rewound => lastPing <= c.now
    BY <1>1, BackTypes DEF WritePing, CallRecord
<1>3. UNCHANGED <<exists, paused, frozen>>
    BY DEF WritePing
<1>4. \A l \in Calls : pc'[l] = "write" => pc[l] = "write" /\ call'[l] = call[l]
    BY FinishOthers DEF WritePing
<1> SUFFICES ASSUME rewound' = 0 PROVE BilledInv'
    BY DEF BilledInv
<1>5. rewound = 0 /\ lastPing <= c.now
    BY <1>1, <1>2
<1>6. charged' \cap frozen = {}
    <2>1. CASE Bills(c)
        <3>1. \A f \in frozen : f <= c.last \/ f > c.now
            BY <1>5, <2>1 DEF BilledInv, Bills, WritePing
        <3>2. charged' = charged \cup (c.last + 1)..c.now
            BY <2>1 DEF WritePing
        <3>3. ((c.last + 1)..c.now) \cap frozen = {}
            BY <1>1, <3>1 DEF CallRecord
        <3> QED
            BY <1>5, <3>2, <3>3 DEF BilledInv
    <2>2. CASE ~Bills(c)
        BY <1>5, <2>2 DEF WritePing, BilledInv
    <2> QED
        BY <2>1, <2>2
<1>7. exists /\ ~paused => \A f \in frozen : f <= c.now
    <2>1. c.now \in Nat
        BY <1>1 DEF CallRecord
    <2> QED
        BY <1>1, <1>5, <2>1 DEF BilledInv
<1> QED
    BY <1>2, <1>3, <1>4, <1>5, <1>6, <1>7 DEF BilledInv

LEMMA UpsertBilled ==
    ASSUME TypeInv, RunningInv, BilledInv, NEW k \in Calls, Upsert(k) PROVE BilledInv'
<1> DEFINE c == call[k]
<1>1. c.now \in Nat /\ rewound \in Nat
    BY DEF TypeInv, TypeOK, CallRecord
<1>2. lastPing' = c.now /\ rewound <= rewound'
    <2>1. CASE exists
        <3>1. PingAt(c.now)
            BY <2>1 DEF Upsert
        <3> QED
            BY <1>1, <3>1, BackTypes
    <2>2. CASE ~exists
        BY <1>1, <2>2 DEF Upsert
    <2> QED
        BY <2>1, <2>2
<1>3. UNCHANGED <<charged, frozen>> /\ paused' = (c.kind = "pause")
    BY DEF Upsert
<1>4. ~paused' => \A f \in frozen : f <= c.now
    BY <1>3 DEF RunningInv, Upsert
<1>5. \A l \in Calls : pc'[l] = "write" => pc[l] = "write" /\ call'[l] = call[l]
    BY FinishOthers DEF Upsert
<1> QED
    BY <1>2, <1>3, <1>4, <1>5, BilledStep

LEMMA CreateBilled ==
    ASSUME TypeInv, RunningInv, BilledInv, NEW k \in Calls, Create(k) PROVE BilledInv'
<1>1. \A l \in Calls : pc'[l] = "write" => pc[l] = "write" /\ call'[l] = call[l]
    BY OthersWrite DEF Create, PcValues
<1>2. UNCHANGED <<charged, frozen, rewound>>
    BY DEF Create, hist
<1>3. rewound <= rewound'
    BY <1>2 DEF TypeInv, TypeOK
<1>4. rewound' = 0 /\ exists' /\ ~paused' => \A f \in frozen : f <= lastPing'
    BY <1>2 DEF Create, row, BilledInv
<1> QED
    BY <1>1, <1>2, <1>3, <1>4, BilledStep

LEMMA QuietBilled ==
    ASSUME TypeInv, BilledInv,
           \/ Block \/ UNCHANGED vars
           \/ \E k \in Calls : Fail(k) \/ Arrives(k) \/ WriteAdjust(k)
    PROVE  BilledInv'
<1>1. UNCHANGED <<exists, paused, lastPing, charged, frozen, rewound>>
    <2>1. CASE Block \/ UNCHANGED vars
        BY <2>1 DEF Block, vars, row, hist
    <2>2. ASSUME NEW k \in Calls, Fail(k) \/ Arrives(k) \/ WriteAdjust(k)
          PROVE  UNCHANGED <<exists, paused, lastPing, charged, frozen, rewound>>
        BY <2>2 DEF Fail, Arrives, Ping, Pause, Resume, Adjust, Arrive, WriteAdjust, row, hist
    <2> QED
        BY <2>1, <2>2
<1>2. \A l \in Calls : pc'[l] = "write" => pc[l] = "write" /\ call'[l] = call[l]
    <2>1. CASE Block \/ UNCHANGED vars
        BY <2>1 DEF Block, vars
    <2>2. ASSUME NEW k \in Calls, Fail(k) \/ WriteAdjust(k)
          PROVE  \A l \in Calls : pc'[l] = "write" => pc[l] = "write" /\ call'[l] = call[l]
        BY <2>2, FinishOthers DEF Fail, WriteAdjust
    <2>3. ASSUME NEW k \in Calls, Arrives(k)
          PROVE  \A l \in Calls : pc'[l] = "write" => pc[l] = "write" /\ call'[l] = call[l]
        <3>1. PICK kind \in Kinds, d \in Int : Arrive(k, kind, d)
            BY <2>3, ArrivesAsCall
        <3> QED
            BY <3>1 DEF Arrive, Set, Go, TypeInv, TypeOK
    <2> QED
        BY <2>1, <2>2, <2>3
<1> QED
    BY <1>1, <1>2 DEF BilledInv

\* Time during which the meter was paused is not billed, whatever overlaps, as
\* long as no overtaken call sets last_ping_at back (credit-active.ts:88-89).
THEOREM PausedIsFree == Spec => []PausedTimeIsFree
<1>1. Init => RunningInv /\ BilledInv
    <2> SUFFICES ASSUME Init PROVE RunningInv /\ BilledInv
        OBVIOUS
    <2>1. \A k \in Calls : pc[k] = "idle" /\ call[k] = NoCall
        BY DEF Init
    <2>2. NoCall.kind = "none"
        BY DEF NoCall
    <2> QED
        BY <2>1, <2>2 DEF Init, RunningInv, BilledInv
<1>2. TypeInv /\ RunningInv /\ BilledInv /\ [Next]_vars => RunningInv' /\ BilledInv'
    <2> SUFFICES ASSUME TypeInv, RunningInv, BilledInv, [Next]_vars
                 PROVE  RunningInv' /\ BilledInv'
        OBVIOUS
    <2>1. ASSUME NEW k \in Calls, Step(k) PROVE BilledInv'
        BY <2>1, QuietBilled, CreateBilled, ReadBilled, WritePingBilled, UpsertBilled
        DEF Step, Arrives
    <2> QED
        BY <2>1, NextRunning, TickBilled, QuietBilled DEF Next
<1>3. BilledInv => PausedTimeIsFree
    BY DEF BilledInv, PausedTimeIsFree
<1> QED
    BY <1>1, <1>2, <1>3, TypeInvHolds, PTL DEF Spec
=============================================================================
