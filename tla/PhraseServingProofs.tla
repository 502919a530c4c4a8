------------------------ MODULE PhraseServingProofs ------------------------
(***************************************************************************)
(* Proofs about PhraseServing, for any finite sets of users and calls, any *)
(* phrases, assignments and limits.                                        *)
(***************************************************************************)
EXTENDS PhraseServing, FiniteSetTheorems, TLAPS

(***************************************************************************)
(* Type correctness.  TypeOK is inductive with what a running call knows:  *)
(* its user, its phrase once there is one, and that only administrators    *)
(* skip the count of the reporters.                                        *)
(***************************************************************************)
CallsKnow ==
    \A c \in Calls :
        /\ pc[c] # "idle" => who[c] \in Users
        /\ pc[c] \in {"lock"} \cup SkipSteps \cup ReportSteps => what[c] \in Phrases
        /\ pc[c] \in {"reportHide", "reportKeep"} => who[c] \in Admins

TypeInv == TypeOK /\ CallsKnow

LEMMA TypeInit == Init => TypeInv
BY DEF Init, TypeInv, TypeOK, CallsKnow, PcValues, SkipSteps, ReportSteps

\* A call begins.
LEMMA TypeStart ==
  ASSUME TypeInv, NEW c \in Calls, NEW u \in Users,
         Next1(c, u) \/ \E p \in Phrases : Skip(c, u, p) \/ Report(c, u, p)
  PROVE  TypeInv'
<1> USE ServingAssumption
    DEF TypeInv, TypeOK, CallsKnow, PcValues, NextSteps, SkipSteps, ReportSteps,
        tables, history, Start, Locked, Pairs
<1>1. CASE Next1(c, u)
  BY <1>1 DEF Next1
<1>2. ASSUME NEW p \in Phrases, Skip(c, u, p)
      PROVE  TypeInv'
  BY <1>2 DEF Skip
<1>3. ASSUME NEW p \in Phrases, Report(c, u, p)
      PROVE  TypeInv'
  BY <1>3 DEF Report
<1> QED
  BY <1>1, <1>2, <1>3

\* What /next chooses is an active phrase, and free.
LEMMA CandidatesAreFree ==
  ASSUME NEW u
  PROVE  Candidates(u) \subseteq Free(u) /\ Free(u) \subseteq active
BY DEF Candidates, Free

\* A running call takes a step.
LEMMA TypeCallStep ==
  ASSUME TypeInv, NEW c \in Calls, CallStep(c)
  PROVE  TypeInv'
<1> USE DEF TypeInv, TypeOK, CallsKnow, PcValues, NextSteps, SkipSteps, ReportSteps,
        tables, history, Goto, End, Locked, Pairs, Statuses
<1>1. CASE Expire(c)
  <2>1. locks' \subseteq Phrases \X Users \X Statuses
    <3>1. CASE UNCHANGED locks
      BY <3>1
    <3>2. CASE locks' = {l \in locks : ~(l[3] = "locked" /\ <<l[1], l[2]>> \in stale)}
                          \cup {<<s[1], s[2], "expired">> : s \in stale}
      <4>1. \A s \in stale : s[1] \in Phrases /\ s[2] \in Users
        OBVIOUS
      <4> QED
        BY <3>2, <4>1
    <3> QED
      BY <1>1, <3>1, <3>2 DEF Expire
  <2>2. stale' \subseteq {s \in Pairs : Locked(s[1], s[2])'}
    BY <1>1 DEF Expire
  <2>3. pc' \in [Calls -> PcValues] /\ CallsKnow'
    BY <1>1 DEF Expire
  <2> QED
    BY <1>1, <2>1, <2>2, <2>3 DEF Expire
<1>2. CASE Choose(c)
  <2>1. UNCHANGED <<tables, served, history>>
    BY <1>2 DEF Choose
  <2>2. CASE End(c) /\ pc[c] = "choose"
    BY <2>1, <2>2
  <2>3. ASSUME NEW p \in Candidates(who[c]), pc[c] = "choose",
               pc' = [pc EXCEPT ![c] = "lock"], what' = [what EXCEPT ![c] = p],
               UNCHANGED who
        PROVE  TypeInv'
    <3>1. p \in Phrases
      BY CandidatesAreFree
    <3> QED
      BY <2>1, <2>3, <3>1
  <2> QED
    BY <1>2, <2>2, <2>3 DEF Choose
<1>3. CASE Lock(c)
  BY <1>3 DEF Lock
<1>4. CASE Unlock(c)
  BY <1>4 DEF Unlock
<1>5. CASE LogSkip(c)
  BY <1>5 DEF LogSkip
<1>6. CASE InsertReport(c)
  BY <1>6 DEF InsertReport
<1>7. CASE Count(c)
  BY <1>7 DEF Count
<1>8. CASE Hide(c)
  BY <1>8 DEF Hide
<1>9. CASE Release(c)
  BY <1>9 DEF Release
<1> QED
  BY <1>1, <1>2, <1>3, <1>4, <1>5, <1>6, <1>7, <1>8, <1>9 DEF CallStep

\* Other handlers, and time.
LEMMA TypeOther ==
  ASSUME TypeInv, NEW u \in Users,
         \/ ResetSkips(u) \/ SkipAges(u) \/ ReportAges(u)
         \/ \E p \in Phrases : Submit(u, p) \/ DeleteContribution(u, p) \/ Age(p, u)
  PROVE  TypeInv'
<1> USE DEF TypeInv, TypeOK, CallsKnow, calls, history, Locked, Live, Pairs, Statuses
<1>1. CASE ResetSkips(u)
  BY <1>1 DEF ResetSkips
<1>2. CASE SkipAges(u)
  BY <1>2 DEF SkipAges
<1>3. CASE ReportAges(u)
  BY <1>3 DEF ReportAges
<1>4. ASSUME NEW p \in Phrases, Submit(u, p)
      PROVE  TypeInv'
  BY <1>4 DEF Submit
<1>5. ASSUME NEW p \in Phrases, DeleteContribution(u, p)
      PROVE  TypeInv'
  BY <1>5 DEF DeleteContribution
<1>6. ASSUME NEW p \in Phrases, Age(p, u)
      PROVE  TypeInv'
  BY <1>6 DEF Age
<1> QED
  BY <1>1, <1>2, <1>3, <1>4, <1>5, <1>6

\* A call fails.
LEMMA TypeFail ==
  ASSUME TypeInv, NEW c \in Calls, Fail(c)
  PROVE  TypeInv'
BY DEF TypeInv, TypeOK, CallsKnow, PcValues, SkipSteps, ReportSteps, tables, Fail, End, Locked

LEMMA TypeNext == TypeInv /\ [Next]_vars => TypeInv'
<1> SUFFICES ASSUME TypeInv, [Next]_vars PROVE TypeInv'
  OBVIOUS
<1>1. CASE UNCHANGED vars
  BY <1>1 DEF TypeInv, TypeOK, CallsKnow, Locked, vars, tables, calls, history
<1>2. CASE Next
  BY <1>2, TypeStart, TypeCallStep, TypeFail, TypeOther DEF Next
<1> QED
  BY <1>1, <1>2

\* Every variable keeps its type.
THEOREM TypeCorrect == Spec => []TypeOK
<1>1. Spec => []TypeInv
  BY TypeInit, TypeNext, PTL DEF Spec
<1>2. TypeInv => TypeOK
  BY DEF TypeInv
<1> QED
  BY <1>1, <1>2, PTL

(***************************************************************************)
(* The quorum of reports.  Phrases are never shown again, and a report of  *)
(* one who is no administrator is counted after it is in: the last to      *)
(* count of the calls that are not cut off sees the reports of them all.   *)
(* Past(p) are the reporters whose call is past the hiding.                *)
(***************************************************************************)
Past(p) == Counted(p) \cup {u \in Users : \E c \in Calls : At(c, "release", p) /\ who[c] = u}

Inserted ==
    /\ counted \subseteq reports
    /\ \A c \in Calls : pc[c] \in {"count", "hide", "release"} => <<what[c], who[c]>> \in reports

PastHides == \A p \in Phrases : Cardinality(Past(p) \ Admins) >= Quorum => p \notin active

PastInv == Inserted /\ PastHides

LEMMA UsersFinite ==
  ASSUME NEW S \in SUBSET Users
  PROVE  IsFiniteSet(S) /\ Cardinality(S) \in Nat
BY FS_Subset, FS_CardinalityType, ServingAssumption

\* A smaller set of users is no larger quorum.
LEMMA QuorumGrows ==
  ASSUME NEW T \in SUBSET Users, NEW S \in SUBSET T, Cardinality(S) >= Quorum
  PROVE  Cardinality(T) >= Quorum
<1>1. Cardinality(S) <= Cardinality(T)
  BY UsersFinite, FS_Subset
<1>2. Cardinality(S) \in Nat /\ Cardinality(T) \in Nat
  BY UsersFinite
<1> QED
  BY <1>1, <1>2, ServingAssumption

\* Steps after which nobody more is past the hiding.
LEMMA PastKept ==
  ASSUME PastHides, active' \subseteq active,
         \A p \in Phrases : Past(p)' \ Admins \subseteq Past(p) \ Admins
  PROVE  PastHides'
<1> SUFFICES ASSUME NEW p \in Phrases, Cardinality(Past(p)' \ Admins) >= Quorum
             PROVE  p \notin active'
  BY DEF PastHides
<1>1. Past(p) \ Admins \in SUBSET Users
  BY DEF Past, Counted
<1>2. Cardinality(Past(p) \ Admins) >= Quorum
  BY <1>1, QuorumGrows
<1> QED
  BY <1>2 DEF PastHides

\* Steps of the calls that are not near the reports, and of others.
LEMMA PastElsewhere ==
  ASSUME PastInv, UNCHANGED <<reports, counted>>, active' \subseteq active,
         \A c \in Calls : pc'[c] \in {"count", "hide", "release"} =>
            pc'[c] = pc[c] /\ what'[c] = what[c] /\ who'[c] = who[c]
  PROVE  PastInv'
<1>1. Inserted'
  BY DEF PastInv, Inserted
<1>2. ASSUME NEW p \in Phrases
      PROVE  Past(p)' \ Admins \subseteq Past(p) \ Admins
  BY DEF Past, Counted, At
<1> QED
  BY <1>1, <1>2, PastKept DEF PastInv

LEMMA PastCallStep ==
  ASSUME TypeInv, PastInv, NEW c \in Calls, CallStep(c) \/ Fail(c)
  PROVE  PastInv'
<1> USE DEF TypeInv, TypeOK, CallsKnow, PcValues, NextSteps, SkipSteps, ReportSteps,
        tables, history, Goto, End
<1>1. CASE Expire(c) \/ Choose(c) \/ Lock(c) \/ Unlock(c) \/ LogSkip(c) \/ Fail(c)
  <2>1. UNCHANGED <<reports, counted, active>>
    BY <1>1 DEF Expire, Choose, Lock, Unlock, LogSkip, Fail
  <2>2. ASSUME NEW d \in Calls, pc'[d] \in {"count", "hide", "release"}
        PROVE  pc'[d] = pc[d] /\ what'[d] = what[d] /\ who'[d] = who[d]
    BY <1>1, <2>2 DEF Expire, Choose, Lock, Unlock, LogSkip, Fail
  <2> QED
    BY <2>1, <2>2, PastElsewhere
<1>2. CASE InsertReport(c)
  <2>1. Inserted'
    BY <1>2 DEF InsertReport, PastInv, Inserted
  <2>2. ASSUME NEW p \in Phrases
        PROVE  Past(p)' \ Admins \subseteq Past(p) \ Admins
    BY <1>2 DEF InsertReport, Past, Counted, At
  <2> QED
    BY <1>2, <2>1, <2>2, PastKept DEF PastInv, InsertReport
<1>3. CASE Count(c)
  <2>1. Inserted'
    BY <1>3 DEF Count, PastInv, Inserted
  <2> SUFFICES ASSUME NEW p \in Phrases, Cardinality(Past(p)' \ Admins) >= Quorum
               PROVE  p \notin active
    BY <1>3, <2>1 DEF Count, PastInv, PastHides
  <2>2. CASE pc'[c] = "release" /\ what[c] = p
    <3>1. Past(p)' \ Admins \subseteq Reporters(p)
      BY <1>3 DEF Count, Past, Counted, At, Reporters, PastInv, Inserted
    <3>2. Cardinality(Reporters(p)) >= Quorum
      BY <3>1, QuorumGrows DEF Reporters
    <3> QED
      BY <1>3, <2>2, <3>2 DEF Count
  <2>3. CASE ~(pc'[c] = "release" /\ what[c] = p)
    <3>1. Past(p)' \ Admins \subseteq Past(p) \ Admins
      BY <1>3, <2>3 DEF Count, Past, Counted, At
    <3>2. Cardinality(Past(p) \ Admins) >= Quorum
      BY <3>1, QuorumGrows DEF Past, Counted
    <3> QED
      BY <3>2 DEF PastInv, PastHides
  <2> QED
    BY <2>2, <2>3
<1>4. CASE Hide(c)
  <2>1. Inserted'
    BY <1>4 DEF Hide, PastInv, Inserted
  <2> SUFFICES ASSUME NEW p \in Phrases, Cardinality(Past(p)' \ Admins) >= Quorum
               PROVE  p \notin active'
    BY <2>1 DEF PastInv, PastHides
  <2>2. CASE what[c] = p
    BY <1>4, <2>2 DEF Hide
  <2>3. CASE what[c] # p
    <3>1. Past(p)' \ Admins \subseteq Past(p) \ Admins
      BY <1>4, <2>3 DEF Hide, Past, Counted, At
    <3>2. Cardinality(Past(p) \ Admins) >= Quorum
      BY <3>1, QuorumGrows DEF Past, Counted
    <3> QED
      BY <1>4, <3>2 DEF PastInv, PastHides, Hide
  <2> QED
    BY <2>2, <2>3
<1>5. CASE Release(c)
  <2>1. Inserted'
    BY <1>5 DEF Release, PastInv, Inserted
  <2>2. ASSUME NEW p \in Phrases
        PROVE  Past(p)' \ Admins \subseteq Past(p) \ Admins
    BY <1>5 DEF Release, Past, Counted, At
  <2> QED
    BY <1>5, <2>1, <2>2, PastKept DEF PastInv, Release
<1> QED
  BY <1>1, <1>2, <1>3, <1>4, <1>5 DEF CallStep

LEMMA PastNext == TypeInv /\ PastInv /\ [Next]_vars => PastInv'
<1> SUFFICES ASSUME TypeInv, PastInv, [Next]_vars PROVE PastInv'
  OBVIOUS
<1>1. CASE UNCHANGED vars
  BY <1>1, PastElsewhere DEF vars, tables, calls, history
<1>2. ASSUME NEW c \in Calls, NEW u \in Users,
             Next1(c, u) \/ \E p \in Phrases : Skip(c, u, p) \/ Report(c, u, p)
      PROVE  PastInv'
  <2>1. UNCHANGED <<reports, active, counted>>
    BY <1>2 DEF Next1, Skip, Report, Start, tables, history
  <2>2. ASSUME NEW d \in Calls, pc'[d] \in {"count", "hide", "release"}
        PROVE  pc'[d] = pc[d] /\ what'[d] = what[d] /\ who'[d] = who[d]
    BY <1>2, <2>2 DEF Next1, Skip, Report, Start, TypeInv, TypeOK
  <2> QED
    BY <2>1, <2>2, PastElsewhere
<1>3. ASSUME NEW u \in Users,
             \/ ResetSkips(u) \/ SkipAges(u) \/ ReportAges(u)
             \/ \E p \in Phrases : Submit(u, p) \/ DeleteContribution(u, p) \/ Age(p, u)
      PROVE  PastInv'
  <2>1. UNCHANGED <<reports, active, calls, history>>
    BY <1>3 DEF ResetSkips, SkipAges, ReportAges, Submit, DeleteContribution, Age
  <2> QED
    BY <2>1, PastElsewhere DEF calls, history
<1> QED
  BY <1>1, <1>2, <1>3, PastCallStep DEF Next

\* A phrase that enough users reported, in calls not cut off, is hidden.
THEOREM QuorumTakesEffect == Spec => []QuorumHides
<1>1. Init => PastInv
  <2>1. ASSUME Init PROVE Inserted
    BY <2>1 DEF Init, Inserted
  <2>2. ASSUME Init, NEW p \in Phrases
        PROVE  ~(Cardinality(Past(p) \ Admins) >= Quorum)
    <3>1. Past(p) \ Admins = {}
      BY <2>2 DEF Init, Past, Counted, At
    <3>2. Cardinality({}) = 0
      BY FS_EmptySet
    <3> QED
      BY <3>1, <3>2, ServingAssumption
  <2> QED
    BY <2>1, <2>2 DEF PastInv, PastHides
<1>2. PastInv => QuorumHides
  <2> SUFFICES ASSUME PastInv, NEW p \in Phrases, Cardinality(Counted(p) \ Admins) >= Quorum
               PROVE  p \notin active
    BY DEF QuorumHides
  <2>1. Counted(p) \ Admins \subseteq Past(p) \ Admins /\ Past(p) \ Admins \in SUBSET Users
    BY DEF Past, Counted
  <2>2. Cardinality(Past(p) \ Admins) >= Quorum
    BY <2>1, QuorumGrows
  <2> QED
    BY <2>2 DEF PastInv, PastHides
<1>3. Spec => []TypeInv
  BY TypeInit, TypeNext, PTL DEF Spec
<1> QED
  BY <1>1, <1>2, <1>3, PastNext, PTL DEF Spec

(***************************************************************************)
(* The limits.  A call adds itself to those underway when the limit still  *)
(* holds, and then makes room for the row it writes.                       *)
(***************************************************************************)
CallsOf(u, steps) == {c \in Calls : who[c] = u /\ pc[c] \in steps}

\* The calls underway for one user, and what a step does to their number.
LEMMA CallsAreFinite ==
  ASSUME NEW S \in SUBSET Calls
  PROVE  /\ IsFiniteSet(S)
         /\ Cardinality(S) \in Nat /\ Cardinality(Calls) \in Nat
         /\ Cardinality(S) <= Cardinality(Calls)
BY FS_Subset, FS_CardinalityType, ServingAssumption

LEMMA FewerUnderway ==
  ASSUME NEW u, NEW steps, CallsOf(u, steps)' \subseteq CallsOf(u, steps)
  PROVE  Cardinality(CallsOf(u, steps)') <= Cardinality(CallsOf(u, steps))
BY CallsAreFinite, FS_Subset DEF CallsOf

LEMMA OneLess ==
  ASSUME NEW u, NEW steps, NEW c \in CallsOf(u, steps),
         CallsOf(u, steps)' \subseteq CallsOf(u, steps) \ {c}
  PROVE  Cardinality(CallsOf(u, steps)') + 1 <= Cardinality(CallsOf(u, steps))
<1> DEFINE S == CallsOf(u, steps)
           T == CallsOf(u, steps)'
<1>1. S \in SUBSET Calls /\ T \in SUBSET Calls /\ S \ {c} \in SUBSET Calls
  BY DEF CallsOf
<1>2. Cardinality(S \ {c}) = Cardinality(S) - 1
  BY <1>1, CallsAreFinite, FS_RemoveElement
<1>3. Cardinality(T) <= Cardinality(S \ {c})
  BY <1>1, CallsAreFinite, FS_Subset
<1> HIDE DEF S, T
<1>4. Cardinality(T) + 1 <= Cardinality(S)
  BY <1>1, <1>2, <1>3, CallsAreFinite
<1> QED
  BY <1>4 DEF S, T

\* The counts, one user's.
SkipsBounded(u) ==
    recent[u] + Cardinality(CallsOf(u, SkipSteps)) < SkipLimit + Cardinality(Calls)

ReportsBounded(u) ==
    u \notin Admins =>
       today[u] + Cardinality(CallsOf(u, {"report"})) < ReportCap + Cardinality(Calls)

LEMMA LimitsByUser == LimitsNearlyHold <=> \A u \in Users : SkipsBounded(u) /\ ReportsBounded(u)
BY DEF LimitsNearlyHold, SkipsBounded, ReportsBounded, SkipsUnderway, ReportsUnderway, CallsOf

\* A call that passes the check may join, whoever is underway already.
LEMMA BelowTheLimit ==
  ASSUME NEW u \in Users, NEW steps, NEW n \in Nat, NEW limit \in Nat, n < limit
  PROVE  n + Cardinality(CallsOf(u, steps)') < limit + Cardinality(Calls)
<1>1. CallsOf(u, steps)' \in SUBSET Calls
  BY DEF CallsOf
<1> QED
  BY <1>1, CallsAreFinite

\* No more rows and no more calls underway: the bound is kept.
LEMMA BoundKept ==
  ASSUME NEW steps, NEW u \in Users, NEW n \in Nat, NEW m \in Nat, NEW limit \in Nat,
         n + Cardinality(CallsOf(u, steps)) < limit + Cardinality(Calls),
         \/ m <= n /\ CallsOf(u, steps)' \subseteq CallsOf(u, steps)
         \/ /\ m <= n + 1
            /\ \E c \in CallsOf(u, steps) :
                  CallsOf(u, steps)' \subseteq CallsOf(u, steps) \ {c}
  PROVE  m + Cardinality(CallsOf(u, steps)') < limit + Cardinality(Calls)
<1>1. CallsOf(u, steps) \in SUBSET Calls /\ CallsOf(u, steps)' \in SUBSET Calls
  BY DEF CallsOf
<1>2. CASE m <= n /\ CallsOf(u, steps)' \subseteq CallsOf(u, steps)
  BY <1>1, <1>2, FewerUnderway, CallsAreFinite
<1>3. ASSUME m <= n + 1, NEW c \in CallsOf(u, steps),
             CallsOf(u, steps)' \subseteq CallsOf(u, steps) \ {c}
      PROVE  m + Cardinality(CallsOf(u, steps)') < limit + Cardinality(Calls)
  BY <1>1, <1>3, OneLess, CallsAreFinite
<1> QED
  BY <1>2, <1>3

LEMMA SkipsNext ==
  ASSUME TypeInv, Next, NEW u \in Users, SkipsBounded(u)
  PROVE  SkipsBounded(u)'
<1> USE DEF TypeInv, TypeOK, CallsKnow, PcValues, NextSteps, SkipSteps, ReportSteps,
        tables, calls, history, Start, Goto, End
<1> DEFINE Kept == \/ /\ recent'[u] <= recent[u]
                      /\ CallsOf(u, SkipSteps)' \subseteq CallsOf(u, SkipSteps)
                   \/ /\ recent'[u] <= recent[u] + 1
                      /\ \E c \in CallsOf(u, SkipSteps) :
                            CallsOf(u, SkipSteps)' \subseteq CallsOf(u, SkipSteps) \ {c}
<1>0. recent[u] \in Nat /\ recent'[u] \in Nat
  BY TypeNext
<1>1. SUFFICES Kept \/ recent'[u] < SkipLimit
  <2>1. CASE Kept
    BY <1>0, <2>1, BoundKept, ServingAssumption DEF SkipsBounded
  <2>2. CASE recent'[u] < SkipLimit
    BY <1>0, <2>2, BelowTheLimit, ServingAssumption DEF SkipsBounded
  <2> QED
    BY <1>1, <2>1, <2>2
<1>2. ASSUME NEW c \in Calls, NEW v \in Users,
             Next1(c, v) \/ \E p \in Phrases : Skip(c, v, p) \/ Report(c, v, p)
      PROVE  Kept \/ recent'[u] < SkipLimit
  <2>1. UNCHANGED recent
    BY <1>2 DEF Next1, Skip, Report
  <2>2. CASE Next1(c, v)
    <3>1. CallsOf(u, SkipSteps)' \subseteq CallsOf(u, SkipSteps)
      BY <2>2 DEF Next1, CallsOf
    <3> QED
      BY <2>1, <3>1, <1>0
  <2>3. ASSUME NEW p \in Phrases, Report(c, v, p)
        PROVE  Kept \/ recent'[u] < SkipLimit
    <3>1. CallsOf(u, SkipSteps)' \subseteq CallsOf(u, SkipSteps)
      BY <2>3 DEF Report, CallsOf
    <3> QED
      BY <2>1, <3>1, <1>0
  <2>4. ASSUME NEW p \in Phrases, Skip(c, v, p)
        PROVE  Kept \/ recent'[u] < SkipLimit
    <3>1. CASE v = u
      BY <2>1, <2>4, <3>1 DEF Skip
    <3>2. CASE v # u
      <4>1. CallsOf(u, SkipSteps)' \subseteq CallsOf(u, SkipSteps)
        BY <2>4, <3>2 DEF Skip, CallsOf
      <4> QED
        BY <2>1, <4>1, <1>0
    <3> QED
      BY <3>1, <3>2
  <2> QED
    BY <1>2, <2>2, <2>3, <2>4
<1>3. ASSUME NEW c \in Calls, CallStep(c) \/ Fail(c)
      PROVE  Kept \/ recent'[u] < SkipLimit
  <2>1. CASE Expire(c) \/ Choose(c) \/ Lock(c)
    BY <2>1, <1>0 DEF Expire, Choose, Lock, CallsOf
  <2>2. CASE Unlock(c)
    BY <2>2, <1>0 DEF Unlock, CallsOf
  <2>3. CASE LogSkip(c)
    <3>1. CASE who[c] = u
      BY <2>3, <3>1, <1>0 DEF LogSkip, CallsOf
    <3>2. CASE who[c] # u
      BY <2>3, <3>2, <1>0 DEF LogSkip, CallsOf
    <3> QED
      BY <3>1, <3>2
  <2>4. CASE InsertReport(c) \/ Count(c) \/ Hide(c)
    BY <2>4, <1>0 DEF InsertReport, Count, Hide, CallsOf
  <2>5. CASE Release(c)
    BY <2>5, <1>0 DEF Release, CallsOf
  <2>6. CASE Fail(c)
    BY <2>6, <1>0 DEF Fail, CallsOf
  <2> QED
    BY <1>3, <2>1, <2>2, <2>3, <2>4, <2>5, <2>6 DEF CallStep
<1>4. ASSUME NEW v \in Users,
             \/ ResetSkips(v) \/ SkipAges(v) \/ ReportAges(v)
             \/ \E p \in Phrases : Submit(v, p) \/ DeleteContribution(v, p) \/ Age(p, v)
      PROVE  Kept \/ recent'[u] < SkipLimit
  <2>1. UNCHANGED calls
    BY <1>4 DEF ResetSkips, SkipAges, ReportAges, Submit, DeleteContribution, Age
  <2>2. recent'[u] <= recent[u]
    <3>1. CASE ResetSkips(v)
      BY <1>0, <3>1 DEF ResetSkips
    <3>2. CASE SkipAges(v)
      BY <1>0, <3>2 DEF SkipAges
    <3>3. CASE UNCHANGED recent
      BY <1>0, <3>3
    <3> QED
      BY <1>4, <3>1, <3>2, <3>3 DEF ReportAges, Submit, DeleteContribution, Age
  <2> QED
    BY <2>1, <2>2 DEF CallsOf
<1> QED
  BY <1>2, <1>3, <1>4 DEF Next

LEMMA ReportsNext ==
  ASSUME TypeInv, Next, NEW u \in Users \ Admins, ReportsBounded(u)
  PROVE  ReportsBounded(u)'
<1> USE DEF TypeInv, TypeOK, CallsKnow, PcValues, NextSteps, SkipSteps, ReportSteps,
        tables, calls, history, Start, Goto, End
<1> DEFINE Underway == CallsOf(u, {"report"})
           Kept == \/ /\ today'[u] <= today[u]
                      /\ Underway' \subseteq Underway
                   \/ /\ today'[u] <= today[u] + 1
                      /\ \E c \in Underway : Underway' \subseteq Underway \ {c}
<1>0. today[u] \in Nat /\ today'[u] \in Nat
  BY TypeNext
<1>1. SUFFICES Kept \/ today'[u] < ReportCap
  <2>1. CASE Kept
    BY <1>0, <2>1, BoundKept, ServingAssumption DEF ReportsBounded
  <2>2. CASE today'[u] < ReportCap
    BY <1>0, <2>2, BelowTheLimit, ServingAssumption DEF ReportsBounded
  <2> QED
    BY <1>1, <2>1, <2>2
<1>2. ASSUME NEW c \in Calls, NEW v \in Users,
             Next1(c, v) \/ \E p \in Phrases : Skip(c, v, p) \/ Report(c, v, p)
      PROVE  Kept \/ today'[u] < ReportCap
  <2>1. UNCHANGED today
    BY <1>2 DEF Next1, Skip, Report
  <2>2. CASE Next1(c, v)
    <3>1. Underway' \subseteq Underway
      BY <2>2 DEF Next1, CallsOf
    <3> QED
      BY <2>1, <3>1, <1>0
  <2>3. ASSUME NEW p \in Phrases, Skip(c, v, p)
        PROVE  Kept \/ today'[u] < ReportCap
    <3>1. Underway' \subseteq Underway
      BY <2>3 DEF Skip, CallsOf
    <3> QED
      BY <2>1, <3>1, <1>0
  <2>4. ASSUME NEW p \in Phrases, Report(c, v, p)
        PROVE  Kept \/ today'[u] < ReportCap
    <3>1. CASE v = u
      BY <2>1, <2>4, <3>1 DEF Report
    <3>2. CASE v # u
      <4>1. Underway' \subseteq Underway
        BY <2>4, <3>2 DEF Report, CallsOf
      <4> QED
        BY <2>1, <4>1, <1>0
    <3> QED
      BY <3>1, <3>2
  <2> QED
    BY <1>2, <2>2, <2>3, <2>4
<1>3. ASSUME NEW c \in Calls, CallStep(c) \/ Fail(c)
      PROVE  Kept \/ today'[u] < ReportCap
  <2>1. CASE Expire(c) \/ Choose(c) \/ Lock(c)
    BY <2>1, <1>0 DEF Expire, Choose, Lock, CallsOf
  <2>2. CASE Unlock(c) \/ LogSkip(c)
    BY <2>2, <1>0 DEF Unlock, LogSkip, CallsOf
  <2>3. CASE InsertReport(c)
    <3>1. CASE who[c] = u
      <4>1. c \in Underway
        BY <2>3, <3>1 DEF InsertReport, CallsOf
      <4>2. Underway' \subseteq Underway \ {c}
        BY <2>3 DEF InsertReport, CallsOf
      <4>3. today'[u] <= today[u] + 1
        BY <2>3, <3>1, <1>0 DEF InsertReport
      <4> QED
        BY <4>1, <4>2, <4>3
    <3>2. CASE who[c] # u
      BY <2>3, <3>2, <1>0 DEF InsertReport, CallsOf
    <3> QED
      BY <3>1, <3>2
  <2>4. CASE Count(c) \/ Hide(c) \/ Release(c)
    BY <2>4, <1>0 DEF Count, Hide, Release, CallsOf
  <2>5. CASE Fail(c)
    BY <2>5, <1>0 DEF Fail, CallsOf
  <2> QED
    BY <1>3, <2>1, <2>2, <2>3, <2>4, <2>5 DEF CallStep
<1>4. ASSUME NEW v \in Users,
             \/ ResetSkips(v) \/ SkipAges(v) \/ ReportAges(v)
             \/ \E p \in Phrases : Submit(v, p) \/ DeleteContribution(v, p) \/ Age(p, v)
      PROVE  Kept \/ today'[u] < ReportCap
  <2>1. UNCHANGED calls
    BY <1>4 DEF ResetSkips, SkipAges, ReportAges, Submit, DeleteContribution, Age
  <2>2. today'[u] <= today[u]
    <3>1. CASE ReportAges(v)
      BY <1>0, <3>1 DEF ReportAges
    <3>2. CASE UNCHANGED today
      BY <1>0, <3>2
    <3> QED
      BY <1>4, <3>1, <3>2 DEF ResetSkips, SkipAges, Submit, DeleteContribution, Age
  <2> QED
    BY <2>1, <2>2 DEF CallsOf
<1> QED
  BY <1>2, <1>3, <1>4 DEF Next

\* No interleaving takes a user further over a limit than the calls that were
\* past its check together.
THEOREM LimitsHoldUpToCalls == Spec => []LimitsNearlyHold
<1>1. Init => LimitsNearlyHold
  <2> SUFFICES ASSUME Init, NEW u \in Users
               PROVE  SkipsBounded(u) /\ ReportsBounded(u)
    BY LimitsByUser
  <2>1. CallsOf(u, SkipSteps) = {} /\ CallsOf(u, {"report"}) = {}
    BY DEF Init, CallsOf, SkipSteps
  <2>2. Cardinality({}) = 0 /\ Cardinality(Calls) \in Nat \ {0}
    BY FS_EmptySet, CallsAreFinite, ServingAssumption
  <2>3. recent[u] = 0 /\ today[u] = 0
    BY DEF Init
  <2>4. 0 + 0 < SkipLimit + Cardinality(Calls) /\ 0 + 0 < ReportCap + Cardinality(Calls)
    BY <2>2, ServingAssumption
  <2>5. Cardinality(CallsOf(u, SkipSteps)) = 0 /\ Cardinality(CallsOf(u, {"report"})) = 0
    BY <2>1, <2>2
  <2> QED
    BY <2>3, <2>4, <2>5 DEF SkipsBounded, ReportsBounded
<1>2. TypeInv /\ LimitsNearlyHold /\ [Next]_vars => LimitsNearlyHold'
  <2>1. CASE UNCHANGED vars
    BY <2>1 DEF LimitsNearlyHold, SkipsUnderway, ReportsUnderway, vars, tables, calls
  <2>2. ASSUME TypeInv, LimitsNearlyHold, Next
        PROVE  \A u \in Users : SkipsBounded(u)' /\ ReportsBounded(u)'
    <3> TAKE u \in Users
    <3>1. SkipsBounded(u)'
      BY <2>2, LimitsByUser, SkipsNext
    <3>2. ReportsBounded(u)'
      <4>1. CASE u \in Admins
        BY <4>1 DEF ReportsBounded
      <4>2. CASE u \notin Admins
        BY <2>2, <4>2, LimitsByUser, ReportsNext
      <4> QED
        BY <4>1, <4>2
    <3> QED
      BY <3>1, <3>2
  <2>3. (\A u \in Users : SkipsBounded(u)' /\ ReportsBounded(u)') => LimitsNearlyHold'
    BY DEF LimitsNearlyHold, SkipsBounded, ReportsBounded, SkipsUnderway, ReportsUnderway,
           CallsOf
  <2> QED
    BY <2>1, <2>2, <2>3
<1>3. Spec => []TypeInv
  BY TypeInit, TypeNext, PTL DEF Spec
<1> QED
  BY <1>1, <1>2, <1>3, PTL DEF Spec

(***************************************************************************)
(* The locks.  Whoever else holds a live lock on the phrase a call is      *)
(* about to lock has locked it since the call chose it: the choice is free *)
(* of others' locks, and nothing but a lock makes a lock live.             *)
(***************************************************************************)
OthersSince(c) ==
    pc[c] = "lock" => \A w \in Users \ {who[c]} : Live(what[c], w) => w \in since[c]

OthersLockedSince == \A c \in Calls : OthersSince(c)

\* No lock becomes live and the call is where it was.
LEMMA SinceKept ==
  ASSUME NEW c \in Calls, TypeInv, OthersSince(c),
         \A p \in Phrases, u \in Users : Live(p, u)' => Live(p, u),
         pc'[c] = "lock" =>
            /\ pc[c] = "lock" /\ who'[c] = who[c] /\ what'[c] = what[c]
            /\ since'[c] = since[c]
  PROVE  OthersSince(c)'
BY DEF OthersSince, TypeInv, CallsKnow

\* What makes no lock live.
LEMMA CallsFade ==
  ASSUME TypeInv, NEW c \in Calls,
         \/ Expire(c) \/ Choose(c) \/ Unlock(c) \/ LogSkip(c) \/ InsertReport(c)
         \/ Count(c) \/ Hide(c) \/ Release(c) \/ Fail(c),
         NEW p \in Phrases, NEW u \in Users, Live(p, u)'
  PROVE  Live(p, u)
<1> USE DEF TypeInv, TypeOK, tables, history, Live, Locked
<1>1. CASE Choose(c) \/ LogSkip(c) \/ InsertReport(c) \/ Count(c) \/ Hide(c) \/ Release(c)
           \/ Fail(c)
  BY <1>1 DEF Choose, LogSkip, InsertReport, Count, Hide, Release, Fail
<1>2. CASE Expire(c)
  <2>1. CASE UNCHANGED <<locks, stale>>
    BY <2>1
  <2>2. CASE locks' = {l \in locks : ~(l[3] = "locked" /\ <<l[1], l[2]>> \in stale)}
                        \cup {<<s[1], s[2], "expired">> : s \in stale}
    BY <2>2
  <2> QED
    BY <1>2, <2>1, <2>2 DEF Expire
<1>3. CASE Unlock(c)
  BY <1>3 DEF Unlock
<1> QED
  BY <1>1, <1>2, <1>3

LEMMA OthersFade ==
  ASSUME TypeInv, NEW v \in Users,
         \/ ResetSkips(v) \/ SkipAges(v) \/ ReportAges(v)
         \/ \E q \in Phrases : Submit(v, q) \/ DeleteContribution(v, q) \/ Age(q, v),
         NEW p \in Phrases, NEW u \in Users, Live(p, u)'
  PROVE  Live(p, u)
<1> USE DEF Live, Locked
<1>1. ASSUME NEW q \in Phrases, Submit(v, q) PROVE Live(p, u)
  BY <1>1 DEF Submit
<1>2. ASSUME NEW q \in Phrases, Age(q, v) PROVE Live(p, u)
  BY <1>2 DEF Age
<1>3. CASE UNCHANGED <<locks, stale>>
  BY <1>3
<1> QED
  BY <1>1, <1>2, <1>3 DEF ResetSkips, SkipAges, ReportAges, DeleteContribution

\* Only Lock makes a lock live, and only its own.
LEMMA LockMakesLive ==
  ASSUME TypeInv, [Next]_vars, NEW p \in Phrases, NEW u \in Users, Live(p, u)', ~Live(p, u)
  PROVE  \E c \in Calls : Lock(c) /\ At(c, "lock", p) /\ who[c] = u
<1>1. CASE UNCHANGED vars
  BY <1>1 DEF vars, tables, Live, Locked
<1>2. ASSUME NEW c \in Calls, NEW v \in Users,
             Next1(c, v) \/ \E q \in Phrases : Skip(c, v, q) \/ Report(c, v, q)
      PROVE  FALSE
  BY <1>2 DEF Next1, Skip, Report, Start, tables, Live, Locked
<1>3. ASSUME NEW c \in Calls, CallStep(c) \/ Fail(c)
      PROVE  Lock(c) /\ At(c, "lock", p) /\ who[c] = u
  <2>1. Lock(c)
    BY <1>3, CallsFade DEF CallStep
  <2>2. p = what[c] /\ u = who[c]
    <3> SUFFICES ASSUME ~(p = what[c] /\ u = who[c]) PROVE FALSE
      OBVIOUS
    <3>1. <<p, u, "locked">> # <<what[c], who[c], "locked">> /\ <<p, u>> # <<what[c], who[c]>>
      OBVIOUS
    <3> QED
      BY <2>1, <3>1 DEF Lock, Live, Locked
  <2> QED
    BY <2>1, <2>2 DEF Lock, At
<1>4. ASSUME NEW v \in Users,
             \/ ResetSkips(v) \/ SkipAges(v) \/ ReportAges(v)
             \/ \E q \in Phrases : Submit(v, q) \/ DeleteContribution(v, q) \/ Age(q, v)
      PROVE  FALSE
  BY <1>4, OthersFade
<1> QED
  BY <1>1, <1>2, <1>3, <1>4 DEF Next

LEMMA SinceNext == TypeInv /\ OthersLockedSince /\ [Next]_vars => OthersLockedSince'
<1> SUFFICES ASSUME TypeInv, OthersLockedSince, [Next]_vars, NEW d \in Calls
             PROVE  OthersSince(d)'
  BY DEF OthersLockedSince
<1> USE DEF TypeInv, TypeOK, CallsKnow, PcValues, NextSteps, SkipSteps, ReportSteps,
        tables, calls, history, Start, Goto, End
<1>0. OthersSince(d)
  BY DEF OthersLockedSince
<1> DEFINE Where == pc'[d] = "lock" =>
                      /\ pc[d] = "lock" /\ who'[d] = who[d] /\ what'[d] = what[d]
                      /\ since'[d] = since[d]
<1>1. ASSUME Where, \A p \in Phrases, u \in Users : Live(p, u)' => Live(p, u)
      PROVE  OthersSince(d)'
  BY <1>0, <1>1, SinceKept
<1>2. ASSUME NEW c \in Calls, Lock(c)
      PROVE  OthersSince(d)'
  <2>1. pc'[d] = "lock" =>
          /\ d # c /\ pc[d] = "lock" /\ who'[d] = who[d]
          /\ what'[d] = what[d] /\ what[d] \in Phrases
    BY <1>2 DEF Lock
  <2> SUFFICES ASSUME pc'[d] = "lock", NEW w \in Users \ {who[d]}, Live(what[d], w)'
               PROVE  w \in since'[d]
    BY <2>1 DEF OthersSince, Live, Locked
  <2>2. since[d] \subseteq since'[d]
    BY <1>2, <2>1 DEF Lock
  <2>3. CASE Live(what[d], w)
    BY <1>0, <2>1, <2>2, <2>3 DEF OthersSince
  <2>4. CASE ~Live(what[d], w)
    <3>2. PICK e \in Calls : Lock(e) /\ At(e, "lock", what[d]) /\ who[e] = w
      BY <2>1, <2>4, LockMakesLive
    <3>3. e = c
      BY <1>2, <3>2 DEF Lock, At
    <3>4. since'[d] = since[d] \cup {who[c]}
      BY <1>2, <2>1, <3>2, <3>3 DEF Lock, At
    <3> QED
      BY <3>2, <3>3, <3>4
  <2> QED
    BY <2>3, <2>4
<1>3. CASE UNCHANGED vars
  BY <1>3, <1>0 DEF vars, OthersSince, Live, Locked
<1>4. ASSUME NEW c \in Calls, NEW v \in Users,
             Next1(c, v) \/ \E q \in Phrases : Skip(c, v, q) \/ Report(c, v, q)
      PROVE  OthersSince(d)'
  <2>1. UNCHANGED <<locks, stale, since>> /\ Where
    BY <1>4 DEF Next1, Skip, Report
  <2> QED
    BY <1>0, <2>1 DEF OthersSince, Live, Locked
<1>5. ASSUME NEW c \in Calls, CallStep(c) \/ Fail(c), ~Lock(c)
      PROVE  OthersSince(d)'
  <2>1. CASE Choose(c)
    <3>1. UNCHANGED <<locks, stale, since, who>> \/ End(c)
      BY <2>1 DEF Choose
    <3>2. UNCHANGED <<locks, stale, since>>
      BY <2>1 DEF Choose
    <3>3. CASE d # c \/ End(c)
      <4>1. Where
        BY <2>1, <3>2, <3>3 DEF Choose
      <4> QED
        BY <1>0, <3>2, <4>1 DEF OthersSince, Live, Locked
    <3>4. ASSUME d = c, NEW p \in Candidates(who[c]), UNCHANGED who,
                 what' = [what EXCEPT ![c] = p]
          PROVE  OthersSince(d)'
      <4>1. \A w \in Users \ {who[c]} : ~Live(p, w)
        BY CandidatesAreFree DEF Free
      <4> QED
        BY <3>2, <3>4, <4>1 DEF OthersSince, Live, Locked
    <3> QED
      BY <2>1, <3>3, <3>4 DEF Choose
  <2>2. CASE Expire(c) \/ Unlock(c) \/ LogSkip(c) \/ InsertReport(c) \/ Count(c) \/ Hide(c)
             \/ Release(c) \/ Fail(c)
    <3>1. Where
      BY <2>2 DEF Expire, Unlock, LogSkip, InsertReport, Count, Hide, Release, Fail
    <3> QED
      BY <1>1, <2>2, <3>1, CallsFade
  <2> QED
    BY <1>5, <2>1, <2>2 DEF CallStep
<1>6. ASSUME NEW v \in Users,
             \/ ResetSkips(v) \/ SkipAges(v) \/ ReportAges(v)
             \/ \E q \in Phrases : Submit(v, q) \/ DeleteContribution(v, q) \/ Age(q, v)
      PROVE  OthersSince(d)'
  <2>1. UNCHANGED <<calls, history>>
    BY <1>6 DEF ResetSkips, SkipAges, ReportAges, Submit, DeleteContribution, Age
  <2> QED
    BY <1>1, <1>6, <2>1, OthersFade
<1> QED
  BY <1>2, <1>3, <1>4, <1>5, <1>6 DEF Next

\* What lets users collide is the gap between the choice and the lock, and
\* nothing else.
THEOREM CollisionsAreRaces == Spec => OnlyRacesCollide
<1>1. Init => OthersLockedSince
  BY DEF Init, OthersLockedSince, OthersSince
<1>2. ASSUME TypeInv, OthersLockedSince, [Next]_vars,
             NEW p \in Phrases, NEW u \in Users, NEW w \in Users,
             u # w, Live(p, u)', Live(p, w)', ~Live(p, u)
      PROVE  \E c \in Calls : At(c, "lock", p) /\ who[c] = u /\ w \in since[c]
  <2>1. PICK c \in Calls : Lock(c) /\ At(c, "lock", p) /\ who[c] = u
    BY <1>2, LockMakesLive
  <2>2. Live(p, w)
    <3> SUFFICES ASSUME ~Live(p, w) PROVE FALSE
      OBVIOUS
    <3>1. PICK e \in Calls : Lock(e) /\ At(e, "lock", p) /\ who[e] = w
      BY <1>2, LockMakesLive
    <3>2. e = c
      BY <2>1, <3>1, <1>2 DEF Lock, End, TypeInv, TypeOK
    <3> QED
      BY <1>2, <2>1, <3>1, <3>2
  <2>3. w \in since[c]
    BY <1>2, <2>1, <2>2 DEF OthersLockedSince, OthersSince, At
  <2> QED
    BY <2>1, <2>3
<1>3. Spec => []TypeInv
  BY TypeInit, TypeNext, PTL DEF Spec
<1>4. TypeInv /\ OthersLockedSince /\ [Next]_vars =>
        [\A p \in Phrases, u, w \in Users :
            (u # w /\ Live(p, u)' /\ Live(p, w)' /\ ~Live(p, u)) =>
               \E c \in Calls : At(c, "lock", p) /\ who[c] = u /\ w \in since[c]]_vars
  BY <1>2
<1> QED
  BY <1>1, <1>3, <1>4, SinceNext, PTL DEF Spec, OnlyRacesCollide
=============================================================================
