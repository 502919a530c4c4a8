------------------------- MODULE ProfileCacheProofs -------------------------
(***************************************************************************)
(* Theorems about ProfileCache, for any clients and workers and any number *)
(* of logins and bans.                                                     *)
(***************************************************************************)
EXTENDS ProfileCache, TLAPS

\* A request that waits for its profile knows its worker and what it reads; a
\* login that has begun its session knows its worker.
CallsKnow ==
    \A c \in Clients :
        /\ pc[c] = "read" => call[c].at \in Workers /\ call[c].seen \in Profiles
        /\ pc[c] \in {"started", "invalidated"} => call[c].at \in Workers

TypeInv == TypeOK /\ CallsKnow

LEMMA InitTypeInv == Init => TypeInv
BY ProfileCacheAssumption
DEF Init, TypeInv, TypeOK, CallsKnow, Profiles, Sids, PcValues, Calls, NoCall

LEMMA DropTypes ==
    ASSUME TypeOK, NEW ws, Drop(ws)
    PROVE  /\ store' \in [Workers -> Profiles \cup {None}]
           /\ overtaken' \subseteq Workers
BY DEF TypeOK, Drop

LEMMA JudgeTypes ==
    ASSUME TypeOK, NEW c, NEW p, Judge(c, p)
    PROVE  access' \in [Clients -> Sids \cup {None}]
BY DEF TypeOK, Judge, Hold

LEMMA MissCall ==
    ASSUME NEW w \in Workers, NEW p \in Profiles
    PROVE  /\ [NoCall EXCEPT !.at = w, !.seen = p] \in Calls
           /\ [NoCall EXCEPT !.at = w, !.seen = p].at = w
           /\ [NoCall EXCEPT !.at = w, !.seen = p].seen = p
<1>1. NoCall \in Calls
    BY ProfileCacheAssumption DEF NoCall, Calls, Sids
<1>2. w \in Workers \cup {None} /\ p \in Profiles \cup {None}
    OBVIOUS
<1> QED
    BY <1>1, <1>2 DEF Calls

LEMMA RequestTypeInv ==
    ASSUME TypeInv, NEW c \in Clients, Request(c) PROVE TypeInv'
<1> USE DEF TypeInv, TypeOK, CallsKnow
<1>1. PICK w \in Workers : Hit(c, w) \/ Miss(c, w)
    BY DEF Request
<1>2. CASE Hit(c, w)
    <2>1. access' \in [Clients -> Sids \cup {None}]
        BY <1>2, JudgeTypes DEF Hit
    <2> QED
        BY <1>2, <2>1 DEF Hit, caches, counts
<1>3. CASE Miss(c, w)
    <2> DEFINE r == [NoCall EXCEPT !.at = w, !.seen = profile]
    <2>1. r \in Calls /\ r.at = w /\ r.seen = profile
        BY MissCall
    <2>2. /\ call' = [call EXCEPT ![c] = r] /\ pc' = [pc EXCEPT ![c] = "read"]
          /\ UNCHANGED <<profile, caches, access, counts>>
        BY <1>3 DEF Miss, Go, Set, r
    <2> HIDE DEF r
    <2> QED
        BY <2>1, <2>2 DEF caches, counts, PcValues
<1> QED
    BY <1>1, <1>2, <1>3

LEMMA AnswerTypeInv ==
    ASSUME TypeInv, NEW c \in Clients, Answer(c) PROVE TypeInv'
<1> USE DEF TypeInv, TypeOK, CallsKnow
<1>1. CASE Store(c)
    <2>1. access' \in [Clients -> Sids \cup {None}]
        BY <1>1, JudgeTypes DEF Store
    <2>2. /\ store' \in [Workers -> Profiles \cup {None}]
          /\ overtaken' \subseteq Workers
        BY <1>1 DEF Store, At
    <2>3. /\ pc' \in [Clients -> PcValues] /\ call' \in [Clients -> Calls]
          /\ CallsKnow'
        BY <1>1, ProfileCacheAssumption
        DEF Store, Go, Set, PcValues, Calls, NoCall, Sids
    <2> QED
        BY <1>1, <2>1, <2>2, <2>3 DEF Store, counts
<1>2. CASE Invalidate(c)
    <2>1. /\ store' \in [Workers -> Profiles \cup {None}]
          /\ overtaken' \subseteq Workers
        BY <1>2, DropTypes DEF Invalidate
    <2>2. call[c].at \in Workers
        BY <1>2 DEF Invalidate, At
    <2> QED
        BY <1>2, <2>1, <2>2 DEF Invalidate, Go, PcValues, counts
<1>3. CASE LoggedIn(c)
    BY <1>3, ProfileCacheAssumption
    DEF LoggedIn, Hold, Go, Set, caches, counts, PcValues, Calls, NoCall, Sids
<1> QED
    BY <1>1, <1>2, <1>3 DEF Answer

LEMMA StartTypeInv ==
    ASSUME TypeInv, NEW c \in Clients, NEW w \in Workers, Start(c, w) PROVE TypeInv'
<1>1. logins' \in 0..MaxLogins /\ profile' \in Profiles
    BY ProfileCacheAssumption DEF TypeInv, TypeOK, Start, Profiles, Sids
<1>2. call' \in [Clients -> Calls] /\ pc' \in [Clients -> PcValues]
    BY <1>1 DEF TypeInv, TypeOK, Start, Go, Set, Calls, NoCall, PcValues, Sids
<1> QED
    BY <1>1, <1>2 DEF TypeInv, TypeOK, CallsKnow, Start, Go, Set, NoCall, caches

LEMMA ClusterTypeInv ==
    ASSUME TypeInv, NEW w \in Workers,
           Relay(w) \/ Receive(w) \/ Expire(w) \/ Ban(w)
    PROVE  TypeInv'
<1> USE DEF TypeInv, TypeOK, CallsKnow
<1>1. CASE Relay(w)
    BY <1>1 DEF Relay, counts
<1>2. CASE Receive(w)
    <2>1. /\ store' \in [Workers -> Profiles \cup {None}]
          /\ overtaken' \subseteq Workers
        BY <1>2, DropTypes DEF Receive
    <2> QED
        BY <1>2, <2>1 DEF Receive, counts
<1>3. CASE Expire(w)
    <2>1. /\ store' \in [Workers -> Profiles \cup {None}]
          /\ overtaken' \subseteq Workers
        BY <1>3, DropTypes DEF Expire
    <2> QED
        BY <1>3, <2>1 DEF Expire, counts
<1>4. CASE Ban(w)
    <2>1. /\ store' \in [Workers -> Profiles \cup {None}]
          /\ overtaken' \subseteq Workers
        BY <1>4, DropTypes DEF Ban
    <2>2. bans' \in 0..MaxBans
        BY <1>4, ProfileCacheAssumption DEF Ban
    <2>3. profile' \in Profiles
        <3>1. profile' = [profile EXCEPT !.active = ~profile.active]
            BY <1>4 DEF Ban
        <3>2. (~profile.active) \in BOOLEAN
            OBVIOUS
        <3> QED
            BY <3>1, <3>2 DEF Profiles
    <2> QED
        BY <1>4, <2>1, <2>2, <2>3 DEF Ban
<1> QED
    BY <1>1, <1>2, <1>3, <1>4

LEMMA NextTypeInv == TypeInv /\ [Next]_vars => TypeInv'
<1> SUFFICES ASSUME TypeInv, [Next]_vars PROVE TypeInv'
    OBVIOUS
<1>1. CASE UNCHANGED vars
    BY <1>1 DEF TypeInv, TypeOK, CallsKnow, vars, caches, counts
<1>2. CASE Next
    BY <1>2, RequestTypeInv, AnswerTypeInv, StartTypeInv, ClusterTypeInv DEF Next
<1> QED
    BY <1>1, <1>2

LEMMA TypeInvHolds == Spec => []TypeInv
BY InitTypeInv, NextTypeInv, PTL DEF Spec

\* Profiles, entries, messages and calls keep their types (middleware/auth.ts,
\* utils/cache.ts).
THEOREM TypeCorrect == Spec => []TypeOK
<1>1. TypeInv => TypeOK
    BY DEF TypeInv
<1> QED
    BY <1>1, TypeInvHolds, PTL

----------------------------------------------------------------------------
\* The entries that a step leaves in place stay justified when the step takes
\* no news away from a worker whose entry it keeps.
LEMMA KeptEntries ==
    ASSUME StaleOnlyIfOvertaken, profile'.sid = profile.sid,
           \A w \in Workers : store'[w] # None =>
               /\ store'[w] = store[w]
               /\ NewsUnderWay(w) => NewsUnderWay(w)'
               /\ w \in overtaken => w \in overtaken'
    PROVE  StaleOnlyIfOvertaken'
BY DEF StaleOnlyIfOvertaken

LEMMA StartStale ==
    ASSUME TypeInv, NEW c \in Clients, NEW w \in Workers, Start(c, w)
    PROVE  StaleOnlyIfOvertaken'
BY DEF TypeInv, TypeOK, Start, Go, At, StaleOnlyIfOvertaken, NewsUnderWay

LEMMA StoreStale ==
    ASSUME TypeInv, StaleOnlyIfOvertaken, NEW c \in Clients, Store(c)
    PROVE  StaleOnlyIfOvertaken'
<1> DEFINE v == call[c].at
<1>1. /\ v \in Workers /\ call[c].seen \in Profiles
      /\ store' = [store EXCEPT ![v] = call[c].seen]
      /\ overtaken' = IF call[c].seen.sid # profile.sid
                      THEN overtaken \cup {v} ELSE overtaken \ {v}
      /\ profile' = profile /\ toPrimary' = toPrimary /\ toWorker' = toWorker
    BY DEF TypeInv, CallsKnow, Store, At
<1>2. \A d \in Clients : pc[d] = "started" => pc'[d] = "started"
    BY DEF TypeInv, TypeOK, Store, At, Go
<1> SUFFICES ASSUME NEW w \in Workers, store'[w] # None, store'[w].sid # profile'.sid
             PROVE  NewsUnderWay(w)' \/ w \in overtaken'
    BY DEF StaleOnlyIfOvertaken
<1>3. CASE w = v
    BY <1>1, <1>3 DEF TypeInv, TypeOK
<1>4. CASE w # v
    <2>1. store'[w] = store[w]
        BY <1>1, <1>4 DEF TypeInv, TypeOK
    <2>2. NewsUnderWay(w) \/ w \in overtaken
        BY <1>1, <2>1 DEF StaleOnlyIfOvertaken
    <2> QED
        BY <1>1, <1>2, <1>4, <2>2 DEF NewsUnderWay, At
<1> QED
    BY <1>3, <1>4

LEMMA InvalidateStale ==
    ASSUME TypeInv, StaleOnlyIfOvertaken, NEW c \in Clients, Invalidate(c)
    PROVE  StaleOnlyIfOvertaken'
BY DEF TypeInv, TypeOK, Invalidate, Drop, StaleOnlyIfOvertaken, NewsUnderWay

LEMMA ClusterStale ==
    ASSUME TypeInv, StaleOnlyIfOvertaken, NEW v \in Workers,
           Relay(v) \/ Receive(v) \/ Expire(v) \/ Ban(v)
    PROVE  StaleOnlyIfOvertaken'
<1> USE DEF TypeInv, TypeOK, StaleOnlyIfOvertaken, NewsUnderWay, At
<1>1. CASE Relay(v)
    BY <1>1 DEF Relay
<1>2. CASE Receive(v)
    BY <1>2 DEF Receive, Drop
<1>3. CASE Expire(v)
    BY <1>3 DEF Expire, Drop
<1>4. CASE Ban(v)
    <2>1. profile'.sid = profile.sid
        BY <1>4 DEF Ban, Profiles
    <2> QED
        BY <1>4, <2>1 DEF Ban, Drop
<1> QED
    BY <1>1, <1>2, <1>3, <1>4

LEMMA QuietStale ==
    ASSUME TypeInv, StaleOnlyIfOvertaken, NEW c \in Clients,
           Request(c) \/ LoggedIn(c)
    PROVE  StaleOnlyIfOvertaken'
<1>1. UNCHANGED <<profile, caches>>
    BY DEF Request, Hit, Miss, LoggedIn
<1>2. \A d \in Clients : pc[d] = "started" => pc'[d] = "started"
    BY DEF TypeInv, TypeOK, Request, Hit, Miss, LoggedIn, At, Go
<1> QED
    BY <1>1, <1>2 DEF StaleOnlyIfOvertaken, NewsUnderWay, At, caches

\* However many workers, clients and logins there are, an entry with another
\* session than the current one has the news of the login on its way to it or
\* was read before the login and stored after it (cache.ts:30-31).
THEOREM StaleEntriesExplained == Spec => []StaleOnlyIfOvertaken
<1>1. Init => StaleOnlyIfOvertaken
    BY DEF Init, StaleOnlyIfOvertaken
<1>2. TypeInv /\ StaleOnlyIfOvertaken /\ [Next]_vars => StaleOnlyIfOvertaken'
    <2> SUFFICES ASSUME TypeInv, StaleOnlyIfOvertaken, [Next]_vars
                 PROVE  StaleOnlyIfOvertaken'
        OBVIOUS
    <2>1. CASE UNCHANGED vars
        BY <2>1 DEF StaleOnlyIfOvertaken, NewsUnderWay, At, vars, caches
    <2>2. CASE Next
        BY <2>2, StartStale, StoreStale, InvalidateStale, ClusterStale, QuietStale
        DEF Next, Answer
    <2> QED
        BY <2>1, <2>2
<1> QED
    BY <1>1, <1>2, TypeInvHolds, PTL DEF Spec
=============================================================================
