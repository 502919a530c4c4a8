---------------------- MODULE ValidationConsensusProofs ----------------------
(***************************************************************************)
(* Theorems about ValidationConsensus, for any users, contributions and    *)
(* calls, any quorum, any points and any number of administrators' calls   *)
(* and faults.                                                             *)
(***************************************************************************)
EXTENDS ValidationConsensus, FiniteSetTheorems, TLAPS

\* A call knows whom it is for, and which contribution, as far as it goes.
CallsKnow ==
    \A k \in Calls :
        /\ pc[k] \in {"insert", "count", "decide", "award", "restore",
                      "vote", "payvote", "rejudge"} => call[k].by \in Users
        /\ pc[k] \in {"insert", "count", "decide", "vote", "delete"}
               => call[k].of \in Contributions

TypeInv == TypeOK /\ CallsKnow

----------------------------------------------------------------------------
(* Finiteness.                                                             *)

LEMMA FiniteMarks == IsFiniteSet((1..5) \X (1..5))
<1>1. IsFiniteSet(1..5)
    <2>1. 1 \in Int /\ 5 \in Int
        OBVIOUS
    <2> QED
        BY <2>1, FS_Interval, Zenon
<1> QED
    BY <1>1, FS_Product

LEMMA FiniteVotes == IsFiniteSet([by : Users, of : Contributions])
<1> DEFINE S == [by : Users, of : Contributions]
           T == Users \X Contributions
           f == [v \in S |-> <<v.by, v.of>>]
<1>1. IsFiniteSet(T)
    BY ConsensusAssumption, FS_Product
<1>2. f \in Injection(S, T)
    BY DEF Injection, IsInjective
<1> QED
    BY <1>1, <1>2, FS_Injection

LEMMA FiniteGrades == IsFiniteSet(Grades)
<1> DEFINE T == (Users \X Contributions) \X ((1..5) \X (1..5))
           f == [g \in Grades |-> <<<<g.by, g.of>>, <<g.mark.text, g.mark.audio>>>>]
<1>1. IsFiniteSet(T)
    BY ConsensusAssumption, FiniteMarks, FS_Product
<1>2. \A m \in Marks : m \in [text : 1..5, audio : 1..5]
    BY ConsensusAssumption
<1>3. f \in [Grades -> T]
    BY <1>2 DEF Grades
<1>4. ASSUME NEW g \in Grades, NEW h \in Grades, f[g] = f[h] PROVE g = h
    <2>1. g.by = h.by /\ g.of = h.of /\ g.mark.text = h.mark.text /\ g.mark.audio = h.mark.audio
        BY <1>4
    <2>2. g.mark = h.mark
        BY <1>2, <2>1 DEF Grades
    <2> QED
        BY <2>1, <2>2 DEF Grades
<1>5. f \in Injection(Grades, T)
    BY <1>3, <1>4 DEF Injection, IsInjective
<1> QED
    BY <1>1, <1>5, FS_Injection

\* Any set of grades, votes, contributions or calls is finite.
LEMMA Finite ==
    /\ \A S \in SUBSET Grades : IsFiniteSet(S) /\ Cardinality(S) \in Nat
    /\ \A S \in SUBSET [by : Users, of : Contributions] :
           IsFiniteSet(S) /\ Cardinality(S) \in Nat
    /\ \A S \in SUBSET Contributions : IsFiniteSet(S) /\ Cardinality(S) \in Nat
    /\ \A S \in SUBSET Calls : IsFiniteSet(S) /\ Cardinality(S) \in Nat
BY ConsensusAssumption, FiniteGrades, FiniteVotes, FS_Subset, FS_CardinalityType

----------------------------------------------------------------------------
(* The rules of the trigger.                                               *)

LEMMA VerdictTypes ==
    /\ \A n, gs : TextVerdict(n, gs) \subseteq Statuses
    /\ \A n, gs : AudioVerdict(n, gs) \subseteq Statuses
<1>1. ASSUME NEW n, NEW rs, NEW clear, NEW late
      PROVE  Verdict(n, rs, clear, late) \subseteq Statuses
    BY DEF Verdict, Statuses
<1> QED
    BY <1>1 DEF TextVerdict, AudioVerdict

LEMMA OverallTypes ==
    ASSUME NEW t, NEW a
    PROVE  Overall(t, a) \in Statuses
BY DEF Overall, Statuses

LEMMA JudgementTypes ==
    ASSUME NEW old \in Verdicts, NEW heard, NEW gs
    PROVE  Judgements(old, heard, gs) \subseteq Verdicts
<1> SUFFICES ASSUME NEW v \in Judgements(old, heard, gs) PROVE v \in Verdicts
    OBVIOUS
<1>1. PICK t \in Statuses, a \in Statuses \cup {"missing"} :
          v = [text |-> t, audio |-> a, all |-> Overall(t, a)]
    <2> DEFINE n == Cardinality(gs)
    <2>1. PICK t \in IF old.text = "pending" THEN TextVerdict(n, gs) ELSE {old.text},
               a \in IF old.audio = "pending" /\ heard THEN AudioVerdict(n, gs)
                     ELSE {old.audio} :
              v = [text |-> t, audio |-> a, all |-> Overall(t, a)]
        BY DEF Judgements
    <2>2. t \in Statuses /\ a \in Statuses \cup {"missing"}
        BY VerdictTypes DEF Verdicts
    <2> QED
        BY <2>1, <2>2
<1> QED
    BY <1>1, OverallTypes DEF Verdicts

LEMMA RejudgementTypes ==
    ASSUME NEW heard, NEW gs, NEW out
    PROVE  Rejudgements(heard, gs, out) \subseteq Verdicts
<1> SUFFICES ASSUME NEW v \in Rejudgements(heard, gs, out) PROVE v \in Verdicts
    OBVIOUS
<1>1. PICK t \in Statuses, a \in Statuses \cup {"missing"} :
          v = [text |-> t, audio |-> a, all |-> Overall(t, a)]
    <2> DEFINE n     == Cardinality(gs)
               heavy == Counting(gs, out)
    <2>1. PICK t \in TextVerdict(n, heavy),
               a \in IF heard THEN AudioVerdict(n, heavy) ELSE {"missing"} :
              v = [text |-> t, audio |-> a, all |-> Overall(t, a)]
        BY DEF Rejudgements
    <2>2. t \in Statuses /\ a \in Statuses \cup {"missing"}
        BY VerdictTypes
    <2> QED
        BY <2>1, <2>2
<1> QED
    BY <1>1, OverallTypes DEF Verdicts

----------------------------------------------------------------------------
(* The call records.                                                       *)

LEMMA NoCallFacts ==
    /\ NoCall \in CallRecord
    /\ NoCall.by = None /\ NoCall.of = None /\ NoCall.before = 0
    /\ NoCall.old = Undecided /\ NoCall.seen = {} /\ NoCall.cids = {}
    /\ Undecided \in Verdicts
    /\ Undecided.text = "pending" /\ Undecided.audio = "pending" /\ Undecided.all = "pending"
BY ConsensusAssumption DEF NoCall, CallRecord, Undecided, Verdicts, Statuses, Reject

Moves(k, to, r) == pc' = [pc EXCEPT ![k] = to] /\ call' = [call EXCEPT ![k] = r]

LEMMA MoveTypes ==
    ASSUME TypeInv, NEW k \in Calls, NEW to \in PcValues, NEW r \in CallRecord,
           Moves(k, to, r),
           to \in {"insert", "count", "decide", "award", "restore",
                   "vote", "payvote", "rejudge"} => r.by \in Users,
           to \in {"insert", "count", "decide", "vote", "delete"}
               => r.of \in Contributions
    PROVE  /\ pc' \in [Calls -> PcValues] /\ call' \in [Calls -> CallRecord]
           /\ CallsKnow'
BY DEF TypeInv, TypeOK, CallsKnow, Moves

LEMMA FinishMoves ==
    ASSUME NEW k \in Calls, Finish(k)
    PROVE  Moves(k, "idle", NoCall)
BY DEF Finish, Go, Set, Moves

LEMMA FinishTypes ==
    ASSUME TypeInv, NEW k \in Calls, Finish(k)
    PROVE  /\ pc' \in [Calls -> PcValues] /\ call' \in [Calls -> CallRecord]
           /\ CallsKnow'
BY FinishMoves, MoveTypes, NoCallFacts DEF PcValues

LEMMA CheckGradeMoves ==
    ASSUME TypeInv, NEW k \in Calls, CheckGrade(k)
    PROVE  /\ pc[k] = "idle"
           /\ \E r \in CallRecord :
                  /\ Moves(k, "insert", r)
                  /\ r.by \in Users /\ r.of \in live /\ r.mark \in Marks
                  /\ r.before = points[r.by]
<1>1. PICK u \in Users, c \in live, m \in Marks :
          Set(k, [NoCall EXCEPT !.by = u, !.of = c, !.mark = m, !.before = points[u]])
    BY DEF CheckGrade
<1> DEFINE r == [NoCall EXCEPT !.by = u, !.of = c, !.mark = m, !.before = points[u]]
<1>2. c \in Contributions /\ points[u] \in Nat
    BY DEF TypeInv, TypeOK
<1>3. /\ r \in CallRecord /\ r.by = u /\ r.of = c /\ r.mark = m /\ r.before = points[u]
    BY <1>2, NoCallFacts DEF CallRecord
<1>4. Moves(k, "insert", r) /\ pc[k] = "idle"
    BY <1>1 DEF CheckGrade, Go, Set, Moves
<1> QED
    BY <1>3, <1>4


\* The INSERT of a grade is refused, or opens the transaction.
LEMMA InsertGradeMoves ==
    ASSUME TypeInv, NEW k \in Calls, InsertGrade(k)
    PROVE  LET c == call[k].of
               u == call[k].by
           IN
           /\ pc[k] = "insert" /\ u \in Users /\ c \in Contributions
           /\ \A l \in Open(c) : call[l].by # u
           /\ \/ Finish(k) /\ UNCHANGED history
              \/ /\ c \in live /\ (\A g \in On(c) : g.by # u)
                 /\ raced' = IF Open(c) = {} THEN raced ELSE raced \cup {c}
                 /\ UNCHANGED <<bonuses, moderated, upsets>>
                 /\ \E r \in CallRecord :
                        /\ Moves(k, "count", r)
                        /\ r.by = u /\ r.of = c /\ r.mark = call[k].mark
                        /\ r.before = call[k].before
                        /\ r.old = verdict[c] /\ r.heard = (AuthorOf[c] \notin dq)
<1> DEFINE c == call[k].of
           u == call[k].by
           r == [call[k] EXCEPT !.old = verdict[c], !.heard = AuthorOf[c] \notin dq]
<1>1. /\ pc[k] = "insert" /\ u \in Users /\ c \in Contributions /\ call[k] \in CallRecord
      /\ verdict[c] \in Verdicts
      /\ \A l \in Open(c) : call[l].by # u
    BY DEF InsertGrade, TypeInv, TypeOK, CallsKnow
<1>2. /\ r \in CallRecord /\ r.by = u /\ r.of = c /\ r.mark = call[k].mark
      /\ r.before = call[k].before /\ r.old = verdict[c]
    BY <1>1 DEF CallRecord
<1>3. r.heard = (AuthorOf[c] \notin dq)
    BY <1>1 DEF CallRecord
<1>4. CASE c \in live /\ \A g \in On(c) : g.by # u
    <2>1. Moves(k, "count", r)
        BY <1>4 DEF InsertGrade, Go, Set, Moves
    <2>2. /\ raced' = IF Open(c) = {} THEN raced ELSE raced \cup {c}
          /\ UNCHANGED <<bonuses, moderated, upsets>>
        BY <1>4 DEF InsertGrade
    <2> HIDE DEF r
    <2> QED
        BY <1>1, <1>2, <1>3, <1>4, <2>1, <2>2
<1>5. CASE ~(c \in live /\ \A g \in On(c) : g.by # u)
    BY <1>1, <1>5 DEF InsertGrade
<1> QED
    BY <1>4, <1>5

\* The grade a call is about to commit.
OwnGrade(k) == [by |-> call[k].by, of |-> call[k].of, mark |-> call[k].mark]

LEMMA OwnGradeTypes ==
    ASSUME TypeInv, NEW k \in Calls, pc[k] \in {"insert", "count", "decide"}
    PROVE  /\ call[k].by \in Users /\ call[k].of \in Contributions /\ call[k].mark \in Marks
           /\ OwnGrade(k) \in Grades
           /\ OwnGrade(k).by = call[k].by /\ OwnGrade(k).of = call[k].of
           /\ OwnGrade(k).mark = call[k].mark
BY DEF TypeInv, TypeOK, CallsKnow, CallRecord, OwnGrade, Grades

LEMMA CountGradesMoves ==
    ASSUME TypeInv, NEW k \in Calls, CountGrades(k)
    PROVE  /\ pc[k] = "count" /\ call[k].by \in Users /\ call[k].of \in Contributions
           /\ \E r \in CallRecord :
                  /\ Moves(k, "decide", r)
                  /\ r.by = call[k].by /\ r.of = call[k].of /\ r.mark = call[k].mark
                  /\ r.before = call[k].before
                  /\ r.old = call[k].old /\ r.heard = call[k].heard
                  /\ r.seen = Counting(On(call[k].of) \cup {OwnGrade(k)}, dq)
<1> DEFINE gs == Counting(On(call[k].of) \cup {OwnGrade(k)}, dq)
           r  == [call[k] EXCEPT !.seen = gs]
<1>1. /\ pc[k] = "count" /\ call[k].by \in Users /\ call[k].of \in Contributions
      /\ call[k] \in CallRecord
    BY DEF CountGrades, TypeInv, TypeOK, CallsKnow
<1>2. gs \in SUBSET Grades
    BY <1>1, OwnGradeTypes DEF Counting, On, TypeInv, TypeOK
<1>3. Moves(k, "decide", r)
    BY DEF CountGrades, Go, Set, Moves, OwnGrade
<1> HIDE DEF gs
<1>4. /\ r \in CallRecord /\ r.by = call[k].by /\ r.of = call[k].of /\ r.mark = call[k].mark
      /\ r.before = call[k].before /\ r.old = call[k].old /\ r.seen = gs
    BY <1>1, <1>2 DEF CallRecord
<1>5. r.heard = call[k].heard
    BY <1>1 DEF CallRecord
<1> HIDE DEF r
<1> QED
    BY <1>1, <1>3, <1>4, <1>5 DEF gs

\* The records of a call that has graded or voted and is to be paid.
LEMMA PayeeRecord ==
    ASSUME NEW u \in Users, NEW n \in Nat
    PROVE  LET r == [NoCall EXCEPT !.by = u, !.before = n] IN
           r \in CallRecord /\ r.by = u /\ r.before = n
BY NoCallFacts DEF CallRecord

LEMMA DecideMoves ==
    ASSUME TypeInv, NEW k \in Calls, Decide(k)
    PROVE  LET c == call[k].of
               a == AuthorOf[c]
           IN
           /\ pc[k] = "decide" /\ call[k].by \in Users /\ c \in Contributions /\ a \in Users
           /\ \E v \in Judgements(call[k].old, call[k].heard, call[k].seen) :
                  /\ v \in Verdicts
                  /\ verdict' = [verdict EXCEPT ![c] = v]
                  /\ \/ /\ BonusDue(k, v)
                        /\ points' = [points EXCEPT ![a] = points[a] + Bonus]
                        /\ bonuses' = [bonuses EXCEPT ![c] = bonuses[c] + 1]
                     \/ UNCHANGED <<points, bonuses>>
           /\ grades' = grades \cup {OwnGrade(k)}
           /\ UNCHANGED <<live, votes, hidden, people, raced, moderated, upsets>>
           /\ \E r \in CallRecord :
                  Moves(k, "award", r) /\ r.by = call[k].by /\ r.before = call[k].before
<1>1. /\ pc[k] = "decide" /\ call[k].by \in Users /\ call[k].of \in Contributions
      /\ call[k].old \in Verdicts /\ call[k].before \in Nat
      /\ AuthorOf[call[k].of] \in Users
    BY ConsensusAssumption DEF Decide, TypeInv, TypeOK, CallsKnow, CallRecord
<1> DEFINE r == [NoCall EXCEPT !.by = call[k].by, !.before = call[k].before]
<1>2. /\ r \in CallRecord /\ r.by = call[k].by /\ r.before = call[k].before
    BY <1>1, NoCallFacts DEF CallRecord
<1>3. Moves(k, "award", r)
    BY DEF Decide, Go, Set, Moves
<1> HIDE DEF r
<1>4. Judgements(call[k].old, call[k].heard, call[k].seen) \subseteq Verdicts
    BY <1>1, JudgementTypes
<1>5. PICK v \in Judgements(call[k].old, call[k].heard, call[k].seen) :
          /\ verdict' = [verdict EXCEPT ![call[k].of] = v]
          /\ IF BonusDue(k, v)
             THEN /\ points' = [points EXCEPT ![AuthorOf[call[k].of]] = @ + Bonus]
                  /\ bonuses' = [bonuses EXCEPT ![call[k].of] = @ + 1]
             ELSE UNCHANGED <<points, bonuses>>
    BY DEF Decide
<1>6. /\ grades' = grades \cup {OwnGrade(k)}
      /\ UNCHANGED <<live, votes, hidden, people, raced, moderated, upsets>>
    BY DEF Decide, OwnGrade
<1> QED
    BY <1>1, <1>2, <1>3, <1>4, <1>5, <1>6

LEMMA CheckVoteMoves ==
    ASSUME TypeInv, NEW k \in Calls, CheckVote(k)
    PROVE  /\ pc[k] = "idle"
           /\ \E r \in CallRecord : Moves(k, "vote", r) /\ r.by \in Users /\ r.of \in live
<1>1. PICK u \in Users, c \in live : Set(k, [NoCall EXCEPT !.by = u, !.of = c])
    BY DEF CheckVote
<1> DEFINE r == [NoCall EXCEPT !.by = u, !.of = c]
<1>2. r \in CallRecord /\ r.by = u /\ r.of = c
    BY NoCallFacts DEF CallRecord, TypeInv, TypeOK
<1>3. Moves(k, "vote", r) /\ pc[k] = "idle"
    BY <1>1 DEF CheckVote, Go, Set, Moves
<1> QED
    BY <1>2, <1>3

LEMMA InsertVoteMoves ==
    ASSUME TypeInv, NEW k \in Calls, InsertVote(k)
    PROVE  LET v == [by |-> call[k].by, of |-> call[k].of] IN
           /\ pc[k] = "vote" /\ call[k].by \in Users /\ call[k].of \in Contributions
           /\ UNCHANGED <<live, verdict, grades, hidden, points, people, history>>
           /\ \/ Finish(k) /\ UNCHANGED votes
              \/ /\ call[k].of \in live /\ v \notin votes /\ votes' = votes \cup {v}
                 /\ \E r \in CallRecord : Moves(k, "payvote", r) /\ r.by = call[k].by
<1> DEFINE c == call[k].of
           u == call[k].by
           r == [NoCall EXCEPT !.by = u]
<1>1. pc[k] = "vote" /\ u \in Users /\ c \in Contributions
    BY DEF InsertVote, TypeInv, TypeOK, CallsKnow
<1>2. r \in CallRecord /\ r.by = u
    BY <1>1, NoCallFacts DEF CallRecord
<1>3. UNCHANGED <<live, verdict, grades, hidden, points, people, history>>
    BY DEF InsertVote
<1>4. CASE c \in live /\ \A v \in votes : ~(v.by = u /\ PhraseOf[v.of] = PhraseOf[c])
    <2>1. Moves(k, "payvote", r)
        BY <1>4 DEF InsertVote, Go, Set, Moves
    <2>2. votes' = votes \cup {[by |-> u, of |-> c]} /\ [by |-> u, of |-> c] \notin votes
        BY <1>4 DEF InsertVote
    <2> HIDE DEF r
    <2> QED
        BY <1>1, <1>2, <1>3, <1>4, <2>1, <2>2
<1>5. CASE ~(c \in live /\ \A v \in votes : ~(v.by = u /\ PhraseOf[v.of] = PhraseOf[c]))
    BY <1>1, <1>3, <1>5 DEF InsertVote
<1> QED
    BY <1>4, <1>5

LEMMA ReadDisqualifyMoves ==
    ASSUME TypeInv, NEW k \in Calls, ReadDisqualify(k)
    PROVE  /\ pc[k] = "idle"
           /\ \E r \in CallRecord :
                  /\ Moves(k, "rejudge", r) /\ r.by \in Users
                  /\ r.cids = {g.of : g \in {h \in grades : h.by = r.by}}
<1>1. PICK u \in Moderated :
          Set(k, [NoCall EXCEPT !.by = u, !.on = u \notin dq,
                                !.cids = {g.of : g \in {h \in grades : h.by = u}}])
    BY DEF ReadDisqualify
<1> DEFINE cs == {g.of : g \in {h \in grades : h.by = u}}
           r  == [NoCall EXCEPT !.by = u, !.on = u \notin dq, !.cids = cs]
<1>2. u \in Users /\ cs \in SUBSET Contributions
    BY ConsensusAssumption DEF TypeInv, TypeOK, Grades
<1>3. Moves(k, "rejudge", r) /\ pc[k] = "idle"
    BY <1>1 DEF ReadDisqualify, Go, Set, Moves
<1> HIDE DEF cs
<1>4. r \in CallRecord /\ r.by = u /\ r.cids = cs
    BY <1>2, NoCallFacts DEF CallRecord
<1> QED
    BY <1>2, <1>3, <1>4 DEF cs

LEMMA ReadDeleteMoves ==
    ASSUME TypeInv, NEW k \in Calls, ReadDelete(k)
    PROVE  /\ pc[k] = "idle"
           /\ \E r \in CallRecord : Moves(k, "delete", r) /\ r.of \in live
<1>1. PICK c \in live : Set(k, [NoCall EXCEPT !.of = c])
    BY DEF ReadDelete
<1> DEFINE r == [NoCall EXCEPT !.of = c]
<1>2. r \in CallRecord /\ r.of = c
    BY NoCallFacts DEF CallRecord, TypeInv, TypeOK
<1>3. Moves(k, "delete", r) /\ pc[k] = "idle"
    BY <1>1 DEF ReadDelete, Go, Set, Moves
<1> QED
    BY <1>2, <1>3

----------------------------------------------------------------------------
(* Type correctness.                                                       *)

LEMMA InitTypeInv == Init => TypeInv
<1> SUFFICES ASSUME Init PROVE TypeInv
    OBVIOUS
<1>1. ASSUME NEW u \in Users PROVE Earned(u) \in Nat
    <2> DEFINE n == Cardinality({c \in Contributions : AuthorOf[c] = u})
    <2>1. n \in Nat
        BY Finite
    <2> HIDE DEF n
    <2> QED
        BY <2>1, ConsensusAssumption DEF Earned, n
<1>2. dq \subseteq Users /\ hidden \subseteq live
    BY ConsensusAssumption DEF Init
<1> HIDE DEF Earned
<1>3. points \in [Users -> Nat] /\ snapshot \in [Users -> Nat \cup {None}]
    BY <1>1 DEF Init
<1>4. /\ verdict \in [Contributions -> Verdicts]
      /\ call \in [Calls -> CallRecord] /\ pc \in [Calls -> PcValues]
    BY NoCallFacts DEF Init, PcValues
<1>5. CallsKnow
    BY DEF Init, CallsKnow
<1>6. moderated \in BOOLEAN
    BY Zenon DEF Init
<1>7. bonuses \in [Contributions -> Nat]
    BY DEF Init
<1>8. upsets \in 0..MaxUpsets
    BY ConsensusAssumption DEF Init
<1>9. /\ live \subseteq Contributions /\ grades \subseteq Grades /\ raced \subseteq Contributions
      /\ votes \subseteq [by : Users, of : Contributions]
    BY DEF Init
<1> QED
    BY <1>2, <1>3, <1>4, <1>5, <1>6, <1>7, <1>8, <1>9 DEF TypeInv, TypeOK

LEMMA UpsetTypes ==
    ASSUME TypeInv, Upset
    PROVE  upsets' \in 0..MaxUpsets
BY ConsensusAssumption DEF TypeInv, TypeOK, Upset

LEMMA StartTypeInv ==
    ASSUME TypeInv, NEW k \in Calls,
           CheckGrade(k) \/ CheckVote(k) \/ ReadDisqualify(k) \/ ReadDelete(k)
    PROVE  TypeInv'
<1>1. live \subseteq Contributions
    BY DEF TypeInv, TypeOK
<1>2. /\ pc' \in [Calls -> PcValues] /\ call' \in [Calls -> CallRecord]
      /\ CallsKnow'
    <2>1. CASE CheckGrade(k)
        BY <1>1, <2>1, CheckGradeMoves, MoveTypes DEF PcValues
    <2>2. CASE CheckVote(k)
        BY <1>1, <2>2, CheckVoteMoves, MoveTypes DEF PcValues
    <2>3. CASE ReadDisqualify(k)
        BY <2>3, ReadDisqualifyMoves, MoveTypes DEF PcValues
    <2>4. CASE ReadDelete(k)
        BY <1>1, <2>4, ReadDeleteMoves, MoveTypes DEF PcValues
    <2> QED
        BY <2>1, <2>2, <2>3, <2>4
<1>3. upsets' \in 0..MaxUpsets /\ moderated' \in BOOLEAN
    BY UpsetTypes DEF CheckGrade, CheckVote, ReadDisqualify, ReadDelete, Act, history,
       TypeInv, TypeOK
<1>4. UNCHANGED <<tables, people, bonuses, raced>>
    BY DEF CheckGrade, CheckVote, ReadDisqualify, ReadDelete, history
<1> QED
    BY <1>2, <1>3, <1>4 DEF TypeInv, TypeOK, tables, people

LEMMA InsertGradeTypeInv ==
    ASSUME TypeInv, NEW k \in Calls, InsertGrade(k) PROVE TypeInv'
<1>1. UNCHANGED <<tables, people>>
    BY DEF InsertGrade
<1>2. CASE Finish(k) /\ UNCHANGED history
    BY <1>1, <1>2, FinishTypes DEF TypeInv, TypeOK, tables, people, history
<1>3. CASE ~(Finish(k) /\ UNCHANGED history)
    <2>1. PICK r \in CallRecord :
              Moves(k, "count", r) /\ r.by = call[k].by /\ r.of = call[k].of
        BY <1>3, InsertGradeMoves
    <2>2. /\ call[k].by \in Users /\ call[k].of \in Contributions
          /\ raced' \in {raced, raced \cup {call[k].of}}
          /\ UNCHANGED <<bonuses, moderated, upsets>>
        BY <1>3, InsertGradeMoves
    <2>3. /\ pc' \in [Calls -> PcValues] /\ call' \in [Calls -> CallRecord]
          /\ CallsKnow'
        BY <2>1, <2>2, MoveTypes DEF PcValues
    <2> QED
        BY <1>1, <2>2, <2>3 DEF TypeInv, TypeOK, tables, people
<1> QED
    BY <1>2, <1>3

LEMMA CountGradesTypeInv ==
    ASSUME TypeInv, NEW k \in Calls, CountGrades(k) PROVE TypeInv'
<1>1. UNCHANGED <<tables, people, history>>
    BY DEF CountGrades
<1>2. PICK r \in CallRecord :
          Moves(k, "decide", r) /\ r.by = call[k].by /\ r.of = call[k].of
    BY CountGradesMoves
<1>3. /\ pc' \in [Calls -> PcValues] /\ call' \in [Calls -> CallRecord]
      /\ CallsKnow'
    BY <1>2, CountGradesMoves, MoveTypes DEF PcValues
<1> QED
    BY <1>1, <1>3 DEF TypeInv, TypeOK, tables, people, history

LEMMA DecideTypeInv ==
    ASSUME TypeInv, NEW k \in Calls, Decide(k) PROVE TypeInv'
<1> DEFINE c == call[k].of
           a == AuthorOf[c]
<1>1. /\ pc[k] = "decide" /\ c \in Contributions /\ a \in Users /\ call[k].by \in Users
      /\ UNCHANGED <<live, votes, hidden, people, raced, moderated, upsets>>
    BY DecideMoves
<1>2. grades' \subseteq Grades
    BY <1>1, DecideMoves, OwnGradeTypes DEF TypeInv, TypeOK
<1>3. PICK v \in Verdicts :
          /\ verdict' = [verdict EXCEPT ![c] = v]
          /\ \/ /\ points' = [points EXCEPT ![a] = points[a] + Bonus]
                /\ bonuses' = [bonuses EXCEPT ![c] = bonuses[c] + 1]
             \/ UNCHANGED <<points, bonuses>>
    BY DecideMoves
<1>4. verdict' \in [Contributions -> Verdicts]
    BY <1>1, <1>3 DEF TypeInv, TypeOK
<1>5. points' \in [Users -> Nat] /\ bonuses' \in [Contributions -> Nat]
    BY <1>1, <1>3, ConsensusAssumption DEF TypeInv, TypeOK
<1>6. /\ pc' \in [Calls -> PcValues] /\ call' \in [Calls -> CallRecord]
      /\ CallsKnow'
    BY <1>1, DecideMoves, MoveTypes DEF PcValues
<1> QED
    BY <1>1, <1>2, <1>4, <1>5, <1>6 DEF TypeInv, TypeOK, people

LEMMA PayTypeInv ==
    ASSUME TypeInv, NEW k \in Calls, AwardGrade(k) \/ RestoreBefore(k) \/ PayVote(k)
    PROVE  TypeInv'
<1>1. /\ call[k].by \in Users /\ call[k].before \in Nat /\ call[k] \in CallRecord
      /\ points[call[k].by] \in Nat
    BY DEF AwardGrade, RestoreBefore, PayVote, TypeInv, TypeOK, CallsKnow, CallRecord
<1>2. points' \in [Users -> Nat]
    BY <1>1, ConsensusAssumption
    DEF AwardGrade, RestoreBefore, PayVote, TypeInv, TypeOK
<1>3. /\ pc' \in [Calls -> PcValues] /\ call' \in [Calls -> CallRecord]
      /\ CallsKnow'
    <2>1. CASE Finish(k)
        BY <2>1, FinishTypes
    <2>2. CASE ~Finish(k)
        <3>1. Go(k, "restore") /\ UNCHANGED call
            BY <2>2 DEF AwardGrade, RestoreBefore, PayVote
        <3> QED
            BY <1>1, <3>1 DEF Go, PcValues, TypeInv, TypeOK, CallsKnow
    <2> QED
        BY <2>1, <2>2
<1>4. UNCHANGED <<live, verdict, grades, votes, hidden, people, history>>
    BY DEF AwardGrade, RestoreBefore, PayVote
<1> QED
    BY <1>2, <1>3, <1>4 DEF TypeInv, TypeOK, people, history

LEMMA InsertVoteTypeInv ==
    ASSUME TypeInv, NEW k \in Calls, InsertVote(k) PROVE TypeInv'
<1>1. /\ call[k].by \in Users /\ call[k].of \in Contributions
      /\ UNCHANGED <<live, verdict, grades, hidden, points, people, history>>
    BY InsertVoteMoves
<1>2. votes' \subseteq [by : Users, of : Contributions]
    <2> DEFINE v == [by |-> call[k].by, of |-> call[k].of]
    <2>1. v \in [by : Users, of : Contributions]
        BY <1>1
    <2> HIDE DEF v
    <2>2. votes' = votes \/ votes' = votes \cup {v}
        BY InsertVoteMoves DEF v
    <2> QED
        BY <2>1, <2>2 DEF TypeInv, TypeOK
<1>3. /\ pc' \in [Calls -> PcValues] /\ call' \in [Calls -> CallRecord]
      /\ CallsKnow'
    BY <1>1, InsertVoteMoves, FinishTypes, MoveTypes DEF PcValues
<1> QED
    BY <1>1, <1>2, <1>3 DEF TypeInv, TypeOK, people, history

LEMMA FailTypeInv ==
    ASSUME TypeInv, NEW k \in Calls, Fail(k) PROVE TypeInv'
<1>1. /\ pc' \in [Calls -> PcValues] /\ call' \in [Calls -> CallRecord]
      /\ CallsKnow'
    BY FinishTypes DEF Fail
<1>2. upsets' \in 0..MaxUpsets /\ UNCHANGED <<tables, people, bonuses, raced, moderated>>
    BY UpsetTypes DEF Fail
<1> QED
    BY <1>1, <1>2 DEF TypeInv, TypeOK, tables, people

LEMMA FloorTypes == \A n \in Int : Floor(n) \in Nat
BY DEF Floor

LEMMA AdjustedTypes ==
    ASSUME TypeInv, NEW cs, NEW sign \in {1, -1}
    PROVE  Adjusted(cs, sign) \in [Users -> Nat]
<1> SUFFICES ASSUME NEW u \in Users
             PROVE  LET n == Cardinality({g \in grades : g.by = u /\ g.of \in cs})
                        w == Cardinality({v \in votes : v.by = u /\ v.of \in cs})
                    IN  Floor(Floor(points[u] + sign * n * GradePay) + sign * w * VotePay) \in Nat
    BY DEF Adjusted
<1> DEFINE n == Cardinality({g \in grades : g.by = u /\ g.of \in cs})
           w == Cardinality({v \in votes : v.by = u /\ v.of \in cs})
<1>1. n \in Nat /\ w \in Nat
    BY Finite DEF TypeInv, TypeOK
<1>2. points[u] \in Nat /\ GradePay \in Nat /\ VotePay \in Nat /\ sign \in Int
    BY ConsensusAssumption DEF TypeInv, TypeOK
<1> HIDE DEF n, w
<1>3. points[u] + sign * n * GradePay \in Int
    BY <1>1, <1>2
<1>4. Floor(points[u] + sign * n * GradePay) \in Nat
    BY <1>3, FloorTypes
<1>5. Floor(points[u] + sign * n * GradePay) + sign * w * VotePay \in Int
    BY <1>1, <1>2, <1>4
<1>6. Floor(Floor(points[u] + sign * n * GradePay) + sign * w * VotePay) \in Nat
    BY <1>5, FloorTypes
<1> QED
    BY <1>6 DEF n, w

LEMMA BanTypeInv ==
    ASSUME TypeInv, NEW u, Ban(u) \/ Unban(u) PROVE TypeInv'
<1>1. points' \in [Users -> Nat]
    BY AdjustedTypes DEF Ban, Unban
<1>2. upsets' \in 0..MaxUpsets /\ moderated' \in BOOLEAN
    BY UpsetTypes DEF Ban, Unban, Act
<1>3. hidden' \subseteq live
    BY DEF Ban, Unban, TypeInv, TypeOK
<1>4. UNCHANGED <<live, verdict, grades, votes, people, pc, call, bonuses, raced>>
    BY DEF Ban, Unban
<1> QED
    BY <1>1, <1>2, <1>3, <1>4 DEF TypeInv, TypeOK, CallsKnow, people

LEMMA HideTypeInv ==
    ASSUME TypeInv, NEW c \in live, Hide(c) PROVE TypeInv'
<1>1. upsets' \in 0..MaxUpsets /\ moderated' \in BOOLEAN
    BY UpsetTypes DEF Hide, Act
<1>2. hidden' \subseteq live
    BY DEF Hide, TypeInv, TypeOK
<1>3. UNCHANGED <<live, verdict, grades, votes, points, people, pc, call, bonuses, raced>>
    BY DEF Hide
<1> QED
    BY <1>1, <1>2, <1>3 DEF TypeInv, TypeOK, CallsKnow, people

LEMMA DeleteTypeInv ==
    ASSUME TypeInv, NEW k \in Calls, Delete(k) PROVE TypeInv'
<1>1. call[k].of \in Contributions /\ AuthorOf[call[k].of] \in Users
    BY ConsensusAssumption DEF Delete, TypeInv, TypeOK, CallsKnow
<1>2. points' \in [Users -> Nat]
    <2> DEFINE a == AuthorOf[call[k].of]
    <2>1. points[a] - Credit \in Int
        BY <1>1, ConsensusAssumption DEF TypeInv, TypeOK
    <2>2. Floor(points[a] - Credit) \in Nat
        BY <2>1, FloorTypes
    <2>3. points' = points \/ points' = [points EXCEPT ![a] = Floor(points[a] - Credit)]
        BY DEF Delete
    <2> QED
        BY <1>1, <2>2, <2>3 DEF TypeInv, TypeOK
<1>3. /\ pc' \in [Calls -> PcValues] /\ call' \in [Calls -> CallRecord]
      /\ CallsKnow'
    BY FinishTypes DEF Delete
<1>4. /\ live' \subseteq Contributions /\ hidden' \subseteq live' /\ grades' \subseteq Grades
      /\ votes' \subseteq [by : Users, of : Contributions]
    BY DEF Delete, TypeInv, TypeOK
<1>5. UNCHANGED <<verdict, people, history>>
    BY DEF Delete
<1> QED
    BY <1>2, <1>3, <1>4, <1>5 DEF TypeInv, TypeOK, people, history


\* Who is disqualified after a re-judgement, and what it judges again.
OutAfter(k) == IF call[k].on THEN dq \cup {call[k].by} ELSE dq \ {call[k].by}
Again(k)    == call[k].cids \cap live

LEMMA RejudgeMoves ==
    ASSUME TypeInv, NEW k \in Calls, Rejudge(k)
    PROVE  LET u   == call[k].by
               out == OutAfter(k)
               cs  == Again(k)
           IN
           /\ pc[k] = "rejudge" /\ u \in Users
           /\ dq' = out
           /\ \A c \in Contributions :
                  IF c \in cs
                  THEN verdict'[c] \in Rejudgements(AuthorOf[c] \notin out,
                                                    Counting(On(c), out), {u})
                  ELSE verdict'[c] = verdict[c]
           /\ verdict' \in [Contributions -> Verdicts]
           /\ points' \in [Users -> Nat]
           /\ snapshot' = [snapshot EXCEPT ![u] = IF call[k].on THEN points[u] ELSE None]
           /\ raced' = raced \cup Overtaken(k, cs)
           /\ Finish(k)
           /\ UNCHANGED <<live, grades, votes, hidden, bonuses, moderated, upsets>>
<1> DEFINE u      == call[k].by
           out    == OutAfter(k)
           cs     == Again(k)
           zeroed == IF call[k].on THEN [points EXCEPT ![u] = 0] ELSE points
           re(c)  == Rejudgements(AuthorOf[c] \notin out, Counting(On(c), out), {u})
           gained(new, a) == {c \in cs : AuthorOf[c] = a /\ a \notin out
                                 /\ verdict[c].all # "approved" /\ new[c].all = "approved"}
           lost(new, a)   == {c \in cs : AuthorOf[c] = a /\ a \notin out
                                 /\ verdict[c].all = "approved" /\ new[c].all # "approved"}
           balance(new, a) == Floor(zeroed[a] + Bonus * (Cardinality(gained(new, a))
                                                       - Cardinality(lost(new, a))))
<1>1. /\ pc[k] = "rejudge" /\ u \in Users /\ cs \subseteq Contributions
      /\ u \in Users
    BY DEF Rejudge, TypeInv, TypeOK, CallsKnow, Again
<1>2. PICK new \in [cs -> UNION {re(c) : c \in cs}] :
          /\ \A c \in cs : new[c] \in re(c)
          /\ verdict' = [c \in Contributions |-> IF c \in cs THEN new[c] ELSE verdict[c]]
          /\ points' = IF call[k].on \/ snapshot[u] = None
                       THEN [a \in Users |-> balance(new, a)]
                       ELSE [[a \in Users |-> balance(new, a)] EXCEPT ![u] = snapshot[u]]
    BY DEF Rejudge, OutAfter, Again
<1>3. zeroed \in [Users -> Nat]
    BY DEF TypeInv, TypeOK
<1>4. ASSUME NEW a \in Users PROVE balance(new, a) \in Nat
    <2>1. Cardinality(gained(new, a)) \in Nat /\ Cardinality(lost(new, a)) \in Nat
        BY <1>1, Finite
    <2> DEFINE n == Cardinality(gained(new, a))
               m == Cardinality(lost(new, a))
    <2> HIDE DEF n, m, zeroed
    <2>2. zeroed[a] + Bonus * (n - m) \in Int
        <3>1. n \in Nat /\ m \in Nat /\ zeroed[a] \in Nat /\ Bonus \in Nat
            BY <1>3, <2>1, ConsensusAssumption DEF n, m
        <3> QED
            BY <3>1
    <2>3. Floor(zeroed[a] + Bonus * (n - m)) \in Nat
        BY <2>2, FloorTypes
    <2> QED
        BY <2>3 DEF n, m
<1>5. points' \in [Users -> Nat]
    <2> DEFINE settled == [a \in Users |-> balance(new, a)]
    <2> HIDE DEF balance
    <2>1. settled \in [Users -> Nat]
        BY <1>4
    <2>2. points' = settled \/ (snapshot[u] # None /\ points' = [settled EXCEPT ![u] = snapshot[u]])
        BY <1>2
    <2>3. snapshot[u] # None => snapshot[u] \in Nat
        BY <1>1 DEF TypeInv, TypeOK
    <2> HIDE DEF settled
    <2> QED
        BY <2>1, <2>2, <2>3
<1>6. verdict' \in [Contributions -> Verdicts]
    <2>1. \A c \in cs : new[c] \in Verdicts
        BY <1>2, RejudgementTypes
    <2> QED
        BY <1>2, <2>1 DEF TypeInv, TypeOK
<1>7. \A c \in Contributions : IF c \in cs THEN verdict'[c] \in re(c) ELSE verdict'[c] = verdict[c]
    BY <1>2
<1>8. /\ dq' = out /\ raced' = raced \cup Overtaken(k, cs) /\ Finish(k)
      /\ snapshot' = [snapshot EXCEPT ![u] = IF call[k].on THEN points[u] ELSE None]
      /\ UNCHANGED <<live, grades, votes, hidden, bonuses, moderated, upsets>>
    BY DEF Rejudge, OutAfter, Again
<1> QED
    BY <1>1, <1>5, <1>6, <1>7, <1>8

LEMMA RejudgeTypeInv ==
    ASSUME TypeInv, NEW k \in Calls, Rejudge(k) PROVE TypeInv'
<1>1. /\ call[k].by \in Users /\ dq' = OutAfter(k)
      /\ verdict' \in [Contributions -> Verdicts] /\ points' \in [Users -> Nat]
      /\ snapshot' = [snapshot EXCEPT ![call[k].by] = IF call[k].on THEN points[call[k].by] ELSE None]
      /\ raced' = raced \cup Overtaken(k, Again(k))
      /\ UNCHANGED <<live, grades, votes, hidden, bonuses, moderated, upsets>>
    BY RejudgeMoves
<1>2. dq' \subseteq Users
    BY <1>1 DEF OutAfter, TypeInv, TypeOK
<1>3. snapshot' \in [Users -> Nat \cup {None}]
    BY <1>1 DEF TypeInv, TypeOK
<1>4. raced' \subseteq Contributions
    BY <1>1 DEF Overtaken, TypeInv, TypeOK
<1>5. /\ pc' \in [Calls -> PcValues] /\ call' \in [Calls -> CallRecord]
      /\ CallsKnow'
    BY FinishTypes DEF Rejudge
<1> QED
    BY <1>1, <1>2, <1>3, <1>4, <1>5 DEF TypeInv, TypeOK

LEMMA NextTypeInv == TypeInv /\ [Next]_vars => TypeInv'
<1> SUFFICES ASSUME TypeInv, [Next]_vars PROVE TypeInv'
    OBVIOUS
<1>1. CASE UNCHANGED vars
    BY <1>1 DEF vars, tables, people, history, TypeInv, TypeOK, CallsKnow
<1>2. CASE Next
    BY <1>2, StartTypeInv, InsertGradeTypeInv, CountGradesTypeInv, DecideTypeInv,
       PayTypeInv, InsertVoteTypeInv, FailTypeInv, BanTypeInv, HideTypeInv,
       DeleteTypeInv, RejudgeTypeInv
    DEF Next, GradeStep, VoteStep, ModerationStep
<1> QED
    BY <1>1, <1>2

LEMMA TypeInvHolds == Spec => []TypeInv
BY InitTypeInv, NextTypeInv, PTL DEF Spec

\* Every variable keeps its type: points, bonuses and snapshots never become
\* negative, however bans, disqualifications and deletions claw them back
\* (GREATEST(0, ...) in migrations v30 and v35), and a call that grades, votes
\* or judges again always knows for whom.
THEOREM TypeCorrect == Spec => []TypeOK
BY TypeInvHolds, PTL DEF TypeInv

----------------------------------------------------------------------------
(* One grade of an evaluator for a contribution, committed or under way.   *)

IsOpen(k) == pc[k] \in {"count", "decide"}

OpenFits(k) ==
    LET c == call[k].of IN
    /\ c \in live
    /\ \A g \in On(c) : g.by # call[k].by
    /\ \A l \in Open(c) \ {k} : call[l].by # call[k].by
    /\ pc[k] = "decide" => call[k].seen \subseteq On(c) \cup {OwnGrade(k)}
    /\ call[k].old.all = Overall(call[k].old.text, call[k].old.audio)

GradesKept ==
    /\ \A g \in grades : g.of \in live
    /\ \A g, h \in grades : g.by = h.by /\ g.of = h.of => g = h
    /\ \A k \in Calls : IsOpen(k) => OpenFits(k)

\* The status of a contribution is what its two fields say.
Summed == \A c \in Contributions : verdict[c].all = Overall(verdict[c].text, verdict[c].audio)

GradeInv == GradesKept /\ Summed

LEMMA InitGradeInv == Init => GradeInv
<1> SUFFICES ASSUME Init PROVE GradeInv
    OBVIOUS
<1>1. Summed
    BY NoCallFacts DEF Init, Summed, Overall
<1>2. GradesKept
    BY DEF Init, GradesKept, IsOpen
<1> QED
    BY <1>1, <1>2 DEF GradeInv

\* Judgements name the status their fields say.
LEMMA JudgementsSummed ==
    /\ \A old, heard, gs : \A v \in Judgements(old, heard, gs) : v.all = Overall(v.text, v.audio)
    /\ \A heard, gs, out : \A v \in Rejudgements(heard, gs, out) : v.all = Overall(v.text, v.audio)
BY DEF Judgements, Rejudgements

\* The steps of a call that leave no transaction of its own open.
Closing(k) ==
    \/ CheckGrade(k) \/ CheckVote(k) \/ ReadDisqualify(k) \/ ReadDelete(k)
    \/ Decide(k) \/ AwardGrade(k) \/ RestoreBefore(k) \/ InsertVote(k) \/ PayVote(k)
    \/ Rejudge(k) \/ Delete(k) \/ Fail(k)

\* The steps of a call; the others are those of InsertGrade and CountGrades.
Step(k) == Closing(k) \/ InsertGrade(k) \/ CountGrades(k)

LEMMA ClosingMoves ==
    ASSUME TypeInv, NEW k \in Calls, Closing(k) \/ Finish(k)
    PROVE  /\ ~IsOpen(k)'
           /\ \A l \in Calls \ {k} : pc'[l] = pc[l] /\ call'[l] = call[l]
<1> USE DEF IsOpen, Moves, TypeInv, TypeOK
<1>1. CASE Finish(k)
    BY <1>1, FinishMoves
<1>2. CASE CheckGrade(k) \/ CheckVote(k) \/ ReadDisqualify(k) \/ ReadDelete(k)
    BY <1>2, CheckGradeMoves, CheckVoteMoves, ReadDisqualifyMoves, ReadDeleteMoves
<1>3. CASE Decide(k)
    BY <1>3, DecideMoves
<1>4. CASE AwardGrade(k)
    BY <1>1, <1>4 DEF AwardGrade, Go
<1>5. CASE InsertVote(k)
    BY <1>1, <1>5, InsertVoteMoves
<1> QED
    BY <1>1, <1>2, <1>3, <1>4, <1>5
    DEF Closing, RestoreBefore, PayVote, Rejudge, Delete, Fail

LEMMA OthersStand ==
    ASSUME TypeInv, NEW k \in Calls, Step(k), NEW l \in Calls \ {k}
    PROVE  pc'[l] = pc[l] /\ call'[l] = call[l]
<1>1. CASE InsertGrade(k)
    BY <1>1, ClosingMoves, InsertGradeMoves DEF Moves, TypeInv, TypeOK
<1>2. CASE CountGrades(k)
    BY <1>2, CountGradesMoves DEF Moves, TypeInv, TypeOK
<1> QED
    BY <1>1, <1>2, ClosingMoves DEF Step

\* A step that closes a call and changes no grade keeps the others as they are.
LEMMA QuietGradesKept ==
    ASSUME TypeInv, GradesKept, NEW k \in Calls, ~IsOpen(k)',
           \A l \in Calls \ {k} : pc'[l] = pc[l] /\ call'[l] = call[l],
           UNCHANGED <<live, grades>>
    PROVE  GradesKept'
<1>1. ASSUME NEW l \in Calls, IsOpen(l)' PROVE OpenFits(l)'
    <2>1. l # k /\ pc'[l] = pc[l] /\ call'[l] = call[l] /\ OpenFits(l)
        BY <1>1 DEF IsOpen, GradesKept
    <2>2. \A c : Open(c)' \subseteq Open(c)
        BY DEF Open, IsOpen
    <2>3. \A m \in Open(call[l].of)' : call'[m] = call[m]
        BY DEF Open, IsOpen
    <2> QED
        BY <2>1, <2>2, <2>3 DEF OpenFits, On, OwnGrade
<1> QED
    BY <1>1 DEF GradesKept

LEMMA DecideGradesKept ==
    ASSUME TypeInv, GradesKept, NEW k \in Calls, Decide(k) PROVE GradesKept'
<1> DEFINE c   == call[k].of
           own == OwnGrade(k)
<1>1. /\ pc[k] = "decide" /\ grades' = grades \cup {own} /\ live' = live
      /\ own.by = call[k].by /\ own.of = c
    BY DecideMoves, OwnGradeTypes
<1>2. OpenFits(k) /\ k \in Open(c)
    BY <1>1 DEF GradesKept, IsOpen, Open
<1>3. /\ ~IsOpen(k)'
      /\ \A l \in Calls \ {k} : pc'[l] = pc[l] /\ call'[l] = call[l]
    BY ClosingMoves DEF Closing
<1>4. ASSUME NEW l \in Calls, IsOpen(l)' PROVE OpenFits(l)'
    <2>1. l # k /\ pc'[l] = pc[l] /\ call'[l] = call[l] /\ IsOpen(l) /\ OpenFits(l)
        BY <1>3, <1>4 DEF IsOpen, GradesKept
    <2>2. \A d : Open(d)' \subseteq Open(d) /\ \A m \in Open(d)' : call'[m] = call[m]
        BY <1>3 DEF Open, IsOpen
    <2>3. call[l].of = c => call[l].by # call[k].by
        BY <1>2, <2>1 DEF OpenFits, Open, IsOpen
    <2>4. \A g \in On(call[l].of)' : g \in On(call[l].of) \/ (g = own /\ call[l].of = c)
        BY <1>1, <2>1 DEF On
    <2>5. On(call[l].of) \subseteq On(call[l].of)'
        BY <1>1, <2>1 DEF On
    <2> QED
        BY <1>1, <2>1, <2>2, <2>3, <2>4, <2>5 DEF OpenFits, OwnGrade
<1>5. \A g \in grades' : g.of \in live'
    BY <1>1, <1>2 DEF GradesKept, OpenFits
<1>6. \A g \in grades : g.by = own.by => g.of # own.of
    BY <1>1, <1>2 DEF OpenFits, On
<1>7. \A g, h \in grades' : g.by = h.by /\ g.of = h.of => g = h
    BY <1>1, <1>6 DEF GradesKept
<1> QED
    BY <1>4, <1>5, <1>7 DEF GradesKept

LEMMA DeleteGradesKept ==
    ASSUME TypeInv, GradesKept, NEW k \in Calls, Delete(k) PROVE GradesKept'
<1> DEFINE c == call[k].of
<1>1. /\ Open(c) = {} /\ live' = live \ {c} /\ grades' = {g \in grades : g.of # c}
    BY DEF Delete
<1>2. /\ ~IsOpen(k)'
      /\ \A l \in Calls \ {k} : pc'[l] = pc[l] /\ call'[l] = call[l]
    BY ClosingMoves DEF Closing
<1>3. ASSUME NEW l \in Calls, IsOpen(l)' PROVE OpenFits(l)'
    <2>1. l # k /\ pc'[l] = pc[l] /\ call'[l] = call[l] /\ IsOpen(l) /\ OpenFits(l)
        BY <1>2, <1>3 DEF IsOpen, GradesKept
    <2>2. \A d : Open(d)' \subseteq Open(d) /\ \A m \in Open(d)' : call'[m] = call[m]
        BY <1>2 DEF Open, IsOpen
    <2>3. call[l].of # c
        BY <1>1, <2>1 DEF Open, IsOpen
    <2>4. On(call[l].of)' = On(call[l].of)
        BY <1>1, <2>1, <2>3 DEF On
    <2> QED
        BY <1>1, <2>1, <2>2, <2>3, <2>4 DEF OpenFits, OwnGrade
<1> QED
    BY <1>1, <1>3 DEF GradesKept

LEMMA InsertGradesKept ==
    ASSUME TypeInv, GradeInv, NEW k \in Calls, InsertGrade(k) PROVE GradesKept'
<1> DEFINE c == call[k].of
           u == call[k].by
<1>1. UNCHANGED <<live, grades>> /\ pc[k] = "insert" /\ c \in Contributions
      /\ \A l \in Open(c) : call[l].by # u
    BY InsertGradeMoves DEF InsertGrade, tables
<1>2. CASE Finish(k)
    BY <1>1, <1>2, ClosingMoves, QuietGradesKept DEF GradeInv
<1>3. CASE ~Finish(k)
    <2>1. c \in live /\ \A g \in On(c) : g.by # u
        BY <1>3, InsertGradeMoves
    <2>2. PICK r \in CallRecord :
              Moves(k, "count", r) /\ r.by = u /\ r.of = c /\ r.old = verdict[c]
        BY <1>3, InsertGradeMoves
    <2>3. /\ pc'[k] = "count" /\ call'[k] = r
          /\ \A l \in Calls \ {k} : pc'[l] = pc[l] /\ call'[l] = call[l]
        BY <2>2 DEF Moves, TypeInv, TypeOK
    <2>4. r.old.all = Overall(r.old.text, r.old.audio)
        BY <1>1, <2>2 DEF GradeInv, Summed
    <2>5. \A d : Open(d)' \subseteq Open(d) \cup {k}
        BY <2>3 DEF Open
    <2>6. OpenFits(k)'
        BY <1>1, <2>1, <2>2, <2>3, <2>4, <2>5 DEF OpenFits, Open, On
    <2>7. ASSUME NEW l \in Calls \ {k}, IsOpen(l)' PROVE OpenFits(l)'
        <3>1. OpenFits(l) /\ pc'[l] = pc[l] /\ call'[l] = call[l] /\ IsOpen(l)
            BY <2>3, <2>7 DEF IsOpen, GradeInv, GradesKept
        <3>2. call[l].of = c => call[l].by # u
            BY <1>1, <3>1 DEF Open, IsOpen
        <3>3. k \in Open(call[l].of)' => call[l].of = c
            BY <2>2, <2>3 DEF Open
        <3> QED
            BY <1>1, <2>2, <2>3, <2>5, <3>1, <3>2, <3>3 DEF OpenFits, On, OwnGrade, Open
    <2> QED
        BY <1>1, <2>6, <2>7 DEF GradeInv, GradesKept
<1> QED
    BY <1>2, <1>3

LEMMA CountGradesKept ==
    ASSUME TypeInv, GradesKept, NEW k \in Calls, CountGrades(k) PROVE GradesKept'
<1> DEFINE c == call[k].of
<1>1. UNCHANGED <<live, grades>> /\ pc[k] = "count"
    BY DEF CountGrades, tables
<1>2. PICK r \in CallRecord :
          /\ Moves(k, "decide", r)
          /\ r.by = call[k].by /\ r.of = c /\ r.mark = call[k].mark /\ r.old = call[k].old
          /\ r.seen = Counting(On(c) \cup {OwnGrade(k)}, dq)
    BY CountGradesMoves
<1>3. /\ pc'[k] = "decide" /\ call'[k] = r
      /\ \A l \in Calls \ {k} : pc'[l] = pc[l] /\ call'[l] = call[l]
    BY <1>2 DEF Moves, TypeInv, TypeOK
<1>4. \A d : Open(d)' = Open(d)
    BY <1>1, <1>2, <1>3 DEF Open
<1>5. \A l \in Calls : call'[l].by = call[l].by /\ call'[l].of = call[l].of
    BY <1>2, <1>3
<1>6. OpenFits(k) /\ \A l \in Calls : IsOpen(l) => OpenFits(l)
    BY <1>1 DEF GradesKept, IsOpen
<1>7. OpenFits(k)'
    <2>1. OwnGrade(k)' = OwnGrade(k) /\ On(c)' = On(c)
        BY <1>1, <1>2, <1>3 DEF OwnGrade, On
    <2>2. r.seen \subseteq On(c) \cup {OwnGrade(k)}
        BY <1>2 DEF Counting
    <2> QED
        BY <1>1, <1>2, <1>3, <1>4, <1>5, <1>6, <2>1, <2>2 DEF OpenFits, Open
<1>8. ASSUME NEW l \in Calls \ {k}, IsOpen(l)' PROVE OpenFits(l)'
    BY <1>1, <1>3, <1>4, <1>5, <1>6, <1>8 DEF OpenFits, IsOpen, On, OwnGrade, Open
<1> QED
    BY <1>1, <1>7, <1>8 DEF GradesKept

LEMMA NextSummed ==
    ASSUME TypeInv, Summed, Next PROVE Summed'
<1>1. CASE UNCHANGED verdict
    BY <1>1 DEF Summed
<1>2. ASSUME NEW k \in Calls, Decide(k) PROVE Summed'
    <2>1. PICK v \in Judgements(call[k].old, call[k].heard, call[k].seen) :
              verdict' = [verdict EXCEPT ![call[k].of] = v]
        BY <1>2, DecideMoves
    <2>2. v.all = Overall(v.text, v.audio)
        BY JudgementsSummed
    <2> QED
        BY <2>1, <2>2 DEF Summed, TypeInv, TypeOK
<1>3. ASSUME NEW k \in Calls, Rejudge(k) PROVE Summed'
    <2>1. ASSUME NEW c \in Contributions
          PROVE  \/ verdict'[c] = verdict[c]
                 \/ \E heard, gs, out : verdict'[c] \in Rejudgements(heard, gs, out)
        BY <1>3, RejudgeMoves
    <2> QED
        BY <2>1, JudgementsSummed DEF Summed
<1>4. \/ \E k \in Calls : Decide(k) \/ Rejudge(k)
      \/ UNCHANGED verdict
    BY DEF Next, GradeStep, VoteStep, ModerationStep, CheckGrade, CheckVote,
       ReadDisqualify, ReadDelete, InsertGrade, CountGrades, AwardGrade, RestoreBefore,
       InsertVote, PayVote, Delete, Fail, Ban, Unban, Hide, tables
<1> QED
    BY <1>1, <1>2, <1>3, <1>4

LEMMA NextGradeInv == TypeInv /\ GradeInv /\ [Next]_vars => GradeInv'
<1> SUFFICES ASSUME TypeInv, GradeInv, [Next]_vars PROVE GradeInv'
    OBVIOUS
<1>1. CASE UNCHANGED vars
    BY <1>1 DEF vars, tables, people, GradeInv, GradesKept, Summed, IsOpen, OpenFits,
       Open, On, OwnGrade
<1>2. ASSUME NEW k \in Calls, Closing(k) PROVE GradesKept'
    <2>1. CASE Decide(k) \/ Delete(k)
        BY <2>1, DecideGradesKept, DeleteGradesKept DEF GradeInv
    <2>2. CASE ~(Decide(k) \/ Delete(k))
        <3>1. UNCHANGED <<live, grades>>
            BY <1>2, <2>2 DEF Closing, CheckGrade, CheckVote, ReadDisqualify, ReadDelete,
               AwardGrade, RestoreBefore, InsertVote, PayVote, Rejudge, Fail, tables
        <3> QED
            BY <1>2, <3>1, ClosingMoves, QuietGradesKept DEF GradeInv
    <2> QED
        BY <2>1, <2>2
<1>3. ASSUME UNCHANGED <<live, grades, pc, call>> PROVE GradesKept'
    BY <1>3 DEF GradeInv, GradesKept, IsOpen, OpenFits, Open, On, OwnGrade
<1>4. CASE Next
    <2>1. Summed'
        BY <1>4, NextSummed DEF GradeInv
    <2>2. GradesKept'
        BY <1>2, <1>3, <1>4, InsertGradesKept, CountGradesKept
        DEF Next, GradeStep, VoteStep, ModerationStep, Closing, Ban, Unban, Hide, GradeInv
    <2> QED
        BY <2>1, <2>2 DEF GradeInv
<1> QED
    BY <1>1, <1>4

LEMMA GradeInvHolds == Spec => []GradeInv
BY TypeInvHolds, InitGradeInv, NextGradeInv, PTL DEF Spec

----------------------------------------------------------------------------
(* Bonuses.                                                                *)

\* Below the quorum a field stays pending.
LEMMA VerdictNeedsQuorum ==
    ASSUME NEW gs \in SUBSET Grades,
           NEW s \in TextVerdict(Cardinality(gs), gs) \cup AudioVerdict(Cardinality(gs), gs),
           s # "pending"
    PROVE  Cardinality(gs) >= Enough
<1>1. Cardinality(gs) \in Nat /\ Enough \in Nat
    BY Finite, ConsensusAssumption
<1>2. ~(Cardinality(gs) < Enough)
    BY DEF TextVerdict, AudioVerdict, Verdict
<1> QED
    BY <1>1, <1>2

\* A trigger that turns a pending contribution into an approved one counted a
\* quorum: at least one of the two fields was decided by it.
LEMMA ApprovalNeedsQuorum ==
    ASSUME NEW old \in Verdicts, NEW heard, NEW gs \in SUBSET Grades,
           old.all = Overall(old.text, old.audio), old.all = "pending",
           NEW v \in Judgements(old, heard, gs), v.all = "approved"
    PROVE  Cardinality(gs) >= Enough
<1> DEFINE n == Cardinality(gs)
<1>1. PICK t \in IF old.text = "pending" THEN TextVerdict(n, gs) ELSE {old.text},
           a \in IF old.audio = "pending" /\ heard THEN AudioVerdict(n, gs)
                 ELSE {old.audio} :
          v = [text |-> t, audio |-> a, all |-> Overall(t, a)]
    BY DEF Judgements
<1>2. t = "approved" /\ a = "approved"
    BY <1>1 DEF Overall
<1>3. old.text = "pending" \/ old.audio = "pending"
    BY <1>1, <1>2 DEF Overall
<1> QED
    BY <1>1, <1>2, <1>3, VerdictNeedsQuorum

\* What the commit of a grade does to the grades of its contribution.
LEMMA DecideOn ==
    ASSUME TypeInv, GradeInv, NEW k \in Calls, Decide(k), NEW c, c = call[k].of
    PROVE  /\ c \in live
           /\ On(c)' = On(c) \cup {OwnGrade(k)} /\ OwnGrade(k) \notin On(c)
           /\ Cardinality(On(c)) \in Nat
           /\ Cardinality(On(c)') = Cardinality(On(c)) + 1
           /\ call[k].seen \subseteq On(c)'
           /\ Cardinality(call[k].seen) \in Nat
           /\ Cardinality(call[k].seen) <= Cardinality(On(c)')
           /\ \A d \in Contributions \ {c} : On(d)' = On(d)
<1> DEFINE own == OwnGrade(k)
<1>1. /\ pc[k] = "decide" /\ grades' = grades \cup {own} /\ own \in Grades
      /\ own.by = call[k].by /\ own.of = c
    BY DecideMoves, OwnGradeTypes
<1>2. OpenFits(k)
    BY <1>1 DEF GradeInv, GradesKept, IsOpen
<1>3. On(c)' = On(c) \cup {own} /\ own \notin On(c) /\ (\A d \in Contributions \ {c} : On(d)' = On(d))
    BY <1>1, <1>2 DEF On, OpenFits
<1>4. On(c) \in SUBSET Grades
    BY DEF On, TypeInv, TypeOK
<1>5. /\ IsFiniteSet(On(c)) /\ Cardinality(On(c)) \in Nat
    BY <1>4, Finite
<1>6. /\ IsFiniteSet(On(c)') /\ Cardinality(On(c)') = Cardinality(On(c)) + 1
    BY <1>3, <1>5, FS_AddElement
<1>7. call[k].seen \in SUBSET (On(c)')
    BY <1>1, <1>2, <1>3 DEF OpenFits
<1>8. Cardinality(call[k].seen) <= Cardinality(On(c)')
    BY <1>6, <1>7, FS_Subset
<1>9. Cardinality(call[k].seen) \in Nat
    BY Finite DEF TypeInv, TypeOK, CallRecord
<1> QED
    BY <1>2, <1>3, <1>5, <1>6, <1>7, <1>8, <1>9 DEF OpenFits

\* When a bonus is paid, the grades that count make a quorum.
LEMMA BonusNeedsQuorum ==
    ASSUME TypeInv, GradeInv, NEW k \in Calls, Decide(k),
           NEW v \in Judgements(call[k].old, call[k].heard, call[k].seen), BonusDue(k, v)
    PROVE  Cardinality(call[k].seen) >= Enough
<1>1. OpenFits(k) /\ call[k].old \in Verdicts /\ call[k].seen \in SUBSET Grades
    BY DEF Decide, GradeInv, GradesKept, IsOpen, TypeInv, TypeOK, CallRecord
<1> QED
    BY <1>1, ApprovalNeedsQuorum DEF OpenFits, BonusDue

LEMMA DecideBonusBound ==
    ASSUME TypeInv, GradeInv, BonusBound, NEW k \in Calls, Decide(k)
    PROVE  BonusBound'
<1>0. PICK c : c = call[k].of
    OBVIOUS
<1>1. /\ c \in live /\ c \in Contributions /\ live' = live /\ Enough \in Nat \ {0}
      /\ Cardinality(On(c)) \in Nat /\ Cardinality(On(c)') = Cardinality(On(c)) + 1
      /\ Cardinality(call[k].seen) \in Nat
      /\ Cardinality(call[k].seen) <= Cardinality(On(c)')
    BY <1>0, DecideMoves, DecideOn, ConsensusAssumption
<1>2. PICK v \in Judgements(call[k].old, call[k].heard, call[k].seen) :
          \/ /\ BonusDue(k, v)
             /\ bonuses' = [bonuses EXCEPT ![c] = bonuses[c] + 1]
          \/ UNCHANGED bonuses
    BY <1>0, DecideMoves
<1>3. bonuses[c] \in Nat /\ (bonuses[c] = 0 \/ bonuses[c] + Enough - 1 <= Cardinality(On(c)))
    BY <1>1 DEF BonusBound, TypeInv, TypeOK
<1>4. bonuses'[c] = 0 \/ bonuses'[c] + Enough - 1 <= Cardinality(On(c)')
    <2>1. CASE UNCHANGED bonuses
        BY <1>1, <1>3, <2>1
    <2>2. CASE BonusDue(k, v) /\ bonuses' = [bonuses EXCEPT ![c] = bonuses[c] + 1]
        <3>1. Cardinality(call[k].seen) >= Enough
            BY <2>2, BonusNeedsQuorum
        <3>2. bonuses'[c] = bonuses[c] + 1
            BY <1>1, <2>2 DEF TypeInv, TypeOK
        <3> QED
            BY <1>1, <1>3, <3>1, <3>2
    <2> QED
        BY <1>2, <2>1, <2>2
<1>5. ASSUME NEW d \in live, d # c
      PROVE  bonuses'[d] = 0 \/ bonuses'[d] + Enough - 1 <= Cardinality(On(d)')
    <2>1. d \in Contributions
        BY DEF TypeInv, TypeOK
    <2>2. On(d)' = On(d) /\ bonuses'[d] = bonuses[d]
        BY <1>0, <1>1, <1>2, <1>5, <2>1, DecideOn DEF TypeInv, TypeOK
    <2> QED
        BY <1>5, <2>2 DEF BonusBound
<1> QED
    BY <1>1, <1>4, <1>5 DEF BonusBound

\* Steps other than a commit change no bonus and no grade of what stays.
LEMMA OtherSteps ==
    ASSUME TypeInv, Next, ~\E k \in Calls : Decide(k)
    PROVE  /\ bonuses' = bonuses /\ live' \subseteq live
           /\ \A c \in live' : On(c)' = On(c)
<1>1. ASSUME NEW k \in Calls, Delete(k)
      PROVE  /\ bonuses' = bonuses /\ live' \subseteq live
             /\ \A c \in live' : On(c)' = On(c)
    BY <1>1 DEF Delete, On, history
<1>2. ASSUME UNCHANGED <<bonuses, live, grades>>
      PROVE  /\ bonuses' = bonuses /\ live' \subseteq live
             /\ \A c \in live' : On(c)' = On(c)
    BY <1>2 DEF On
<1>3. ASSUME NEW k \in Calls, InsertGrade(k) PROVE UNCHANGED <<bonuses, live, grades>>
    BY <1>3, InsertGradeMoves DEF InsertGrade, tables, history
<1>4. ASSUME NEW k \in Calls, Rejudge(k) PROVE UNCHANGED <<bonuses, live, grades>>
    BY <1>4, RejudgeMoves
<1>5. \/ \E k \in Calls : Delete(k) \/ InsertGrade(k) \/ Rejudge(k)
      \/ UNCHANGED <<bonuses, live, grades>>
    BY DEF Next, GradeStep, VoteStep, ModerationStep, CheckGrade, CheckVote,
       ReadDisqualify, ReadDelete, CountGrades, AwardGrade, RestoreBefore,
       InsertVote, PayVote, Fail, Ban, Unban, Hide, tables, history
<1> QED
    BY <1>1, <1>2, <1>3, <1>4, <1>5

LEMMA NextBonusBound ==
    TypeInv /\ GradeInv /\ BonusBound /\ [Next]_vars => BonusBound'
<1> SUFFICES ASSUME TypeInv, GradeInv, BonusBound, [Next]_vars PROVE BonusBound'
    OBVIOUS
<1>1. CASE UNCHANGED vars
    BY <1>1 DEF vars, tables, history, BonusBound, On
<1>2. CASE Next
    BY <1>2, DecideBonusBound, OtherSteps DEF BonusBound
<1> QED
    BY <1>1, <1>2

\* However the grades of a contribution overlap, its author is paid by at most
\* the triggers from the grade that completes the quorum on (migration v35,
\* run_consensus): each counted a quorum of committed grades and its own.
THEOREM BonusesBounded == Spec => []BonusBound
<1>1. Init => BonusBound
    BY DEF Init, BonusBound
<1> QED
    BY <1>1, TypeInvHolds, GradeInvHolds, NextBonusBound, PTL DEF Spec

----------------------------------------------------------------------------
(* Decisions and the grades they rest on.                                  *)

\* Each decided field has a quorum of the grades gs, and one that bears it out.
FieldsFit(v, gs) ==
    /\ v.text # "pending" => Cardinality(gs) >= Enough
    /\ v.audio \in {"approved", "rejected"} => Cardinality(gs) >= Enough
    /\ v.text = "approved" => \E g \in gs : g.mark.text >= 3
    /\ v.text = "rejected" => \E g \in gs : g.mark.text <= 2
    /\ v.audio = "approved" => \E g \in gs : g.mark.audio >= 3
    /\ v.audio = "rejected" => \E g \in gs : g.mark.audio <= 2

LEMMA MarkTypes ==
    ASSUME NEW g \in Grades
    PROVE  g.mark.text \in 1..5 /\ g.mark.audio \in 1..5
BY ConsensusAssumption DEF Grades

LEMMA VerdictMeans ==
    ASSUME NEW n \in Nat, NEW rs \in SUBSET (1..5), NEW clear \in {6, 7}, NEW late \in {5, 6},
           NEW s \in Verdict(n, rs, clear, late), s # "pending"
    PROVE  /\ n >= Enough
           /\ s = "approved" => \E r \in rs : r >= 3
           /\ s = "rejected" => \E r \in rs : r <= 2
<1>1. Enough \in Nat /\ Plenty \in Nat /\ ~(n < Enough \/ rs = {})
    BY ConsensusAssumption DEF Verdict
<1>2. n >= Enough
    BY <1>1
<1>3. \/ s = "approved" /\ \E r \in rs : 2 * r >= clear \/ 2 * r >= late
      \/ s = "rejected" /\ \E r \in rs : 2 * r < 4 \/ 2 * r < late
    BY <1>1 DEF Verdict
<1>4. \A r \in rs : r \in 1..5
    OBVIOUS
<1>5. CASE s = "approved"
    <2>1. PICK r \in rs : 2 * r >= clear \/ 2 * r >= late
        BY <1>3, <1>5
    <2>2. r >= 3
        BY <1>4, <2>1
    <2> QED
        BY <1>2, <1>5, <2>2
<1>6. CASE s = "rejected"
    <2>1. PICK r \in rs : 2 * r < 4 \/ 2 * r < late
        BY <1>3, <1>6
    <2>2. r <= 2
        BY <1>4, <2>1
    <2> QED
        BY <1>2, <1>6, <2>2
<1> QED
    BY <1>3, <1>5, <1>6

LEMMA TextMeans ==
    ASSUME NEW n \in Nat, NEW gs \in SUBSET Grades,
           NEW s \in TextVerdict(n, gs), s # "pending"
    PROVE  /\ n >= Enough
           /\ s = "approved" => \E g \in gs : g.mark.text >= 3
           /\ s = "rejected" => \E g \in gs : g.mark.text <= 2
<1> DEFINE rs == {g.mark.text : g \in gs}
<1>1. rs \in SUBSET (1..5)
    BY MarkTypes
<1>2. /\ n >= Enough
      /\ s = "approved" => \E r \in rs : r >= 3
      /\ s = "rejected" => \E r \in rs : r <= 2
    <2>1. s \in Verdict(n, rs, 7, 6)
        BY DEF TextVerdict
    <2> HIDE DEF rs
    <2> QED
        BY <1>1, <2>1, VerdictMeans
<1> QED
    BY <1>2

LEMMA AudioMeans ==
    ASSUME NEW n \in Nat, NEW gs \in SUBSET Grades,
           NEW s \in AudioVerdict(n, gs), s # "pending"
    PROVE  /\ n >= Enough
           /\ s = "approved" => \E g \in gs : g.mark.audio >= 3
           /\ s = "rejected" => \E g \in gs : g.mark.audio <= 2
<1> DEFINE rs == {g.mark.audio : g \in gs}
<1>1. rs \in SUBSET (1..5)
    BY MarkTypes
<1>2. /\ n >= Enough
      /\ s = "approved" => \E r \in rs : r >= 3
      /\ s = "rejected" => \E r \in rs : r <= 2
    <2>1. s \in Verdict(n, rs, 6, 5)
        BY DEF AudioVerdict
    <2> HIDE DEF rs
    <2> QED
        BY <1>1, <2>1, VerdictMeans
<1> QED
    BY <1>2

\* More grades bear out what fewer did.
LEMMA MoreGradesFit ==
    ASSUME NEW v, NEW gs \in SUBSET Grades, NEW fs \in SUBSET gs, FieldsFit(v, fs)
    PROVE  FieldsFit(v, gs)
<1>1. /\ Cardinality(fs) \in Nat /\ Cardinality(gs) \in Nat /\ Enough \in Nat
      /\ Cardinality(fs) <= Cardinality(gs)
    BY Finite, FS_Subset, ConsensusAssumption
<1>2. Cardinality(fs) >= Enough => Cardinality(gs) >= Enough
    BY <1>1
<1> QED
    BY <1>2 DEF FieldsFit

LEMMA JudgementsFit ==
    ASSUME NEW old \in Verdicts, NEW heard, NEW gs \in SUBSET Grades,
           FieldsFit(old, gs), NEW v \in Judgements(old, heard, gs)
    PROVE  FieldsFit(v, gs)
<1> DEFINE n == Cardinality(gs)
<1>1. PICK t \in IF old.text = "pending" THEN TextVerdict(n, gs) ELSE {old.text},
           a \in IF old.audio = "pending" /\ heard THEN AudioVerdict(n, gs)
                 ELSE {old.audio} :
          v = [text |-> t, audio |-> a, all |-> Overall(t, a)]
    BY DEF Judgements
<1>2. n \in Nat
    BY Finite
<1>3. v.text = t /\ v.audio = a
    BY <1>1
<1>4. /\ t # "pending" => n >= Enough
      /\ t = "approved" => \E g \in gs : g.mark.text >= 3
      /\ t = "rejected" => \E g \in gs : g.mark.text <= 2
    BY <1>1, <1>2, TextMeans DEF FieldsFit
<1>5. /\ a \in {"approved", "rejected"} => n >= Enough
      /\ a = "approved" => \E g \in gs : g.mark.audio >= 3
      /\ a = "rejected" => \E g \in gs : g.mark.audio <= 2
    BY <1>1, <1>2, AudioMeans DEF FieldsFit
<1> QED
    BY <1>3, <1>4, <1>5 DEF FieldsFit

LEMMA RejudgementsFit ==
    ASSUME NEW heard, NEW gs \in SUBSET Grades, NEW out,
           NEW v \in Rejudgements(heard, gs, out)
    PROVE  FieldsFit(v, gs)
<1> DEFINE n     == Cardinality(gs)
           heavy == Counting(gs, out)
<1>1. PICK t \in TextVerdict(n, heavy),
           a \in IF heard THEN AudioVerdict(n, heavy) ELSE {"missing"} :
          v = [text |-> t, audio |-> a, all |-> Overall(t, a)]
    BY DEF Rejudgements
<1>2. n \in Nat /\ heavy \in SUBSET Grades /\ heavy \subseteq gs
    BY Finite DEF Counting
<1>3. v.text = t /\ v.audio = a
    BY <1>1
<1>4. /\ t # "pending" => n >= Enough
      /\ t = "approved" => \E g \in heavy : g.mark.text >= 3
      /\ t = "rejected" => \E g \in heavy : g.mark.text <= 2
    BY <1>1, <1>2, TextMeans
<1>5. /\ a \in {"approved", "rejected"} => n >= Enough
      /\ a = "approved" => \E g \in heavy : g.mark.audio >= 3
      /\ a = "rejected" => \E g \in heavy : g.mark.audio <= 2
    BY <1>1, <1>2, AudioMeans
<1> HIDE DEF heavy
<1> QED
    BY <1>2, <1>3, <1>4, <1>5 DEF FieldsFit

\* A verdict that was reached is reached again.
LEMMA JudgementsStand ==
    ASSUME NEW old \in Verdicts, NEW heard, NEW gs,
           old.all = Overall(old.text, old.audio), old.all # "pending",
           NEW v \in Judgements(old, heard, gs)
    PROVE  v.all = old.all
<1> DEFINE n == Cardinality(gs)
<1>1. PICK t \in IF old.text = "pending" THEN TextVerdict(n, gs) ELSE {old.text},
           a \in IF old.audio = "pending" /\ heard THEN AudioVerdict(n, gs)
                 ELSE {old.audio} :
          v = [text |-> t, audio |-> a, all |-> Overall(t, a)]
    BY DEF Judgements
<1>2. old.text # "pending" => t = old.text
    BY <1>1
<1>3. old.audio # "pending" => a = old.audio
    BY <1>1
<1> QED
    BY <1>1, <1>2, <1>3 DEF Overall

\* The transaction of a grade whose contribution nothing raced: it is alone,
\* the verdict it read still stands, and it counted every grade that counts.
Alone(k) ==
    LET c == call[k].of IN
    /\ Open(c) = {k}
    /\ call[k].old = verdict[c]
    /\ pc[k] = "decide" => call[k].seen = Counting(On(c) \cup {OwnGrade(k)}, dq)

Undisturbed == \A k \in Calls : IsOpen(k) /\ call[k].of \notin raced => Alone(k)

FieldsDecided == \A c \in live \ raced : FieldsFit(verdict[c], Counting(On(c), dq))

DecidedInv == Undisturbed /\ FieldsDecided

LEMMA InitDecidedInv == Init => DecidedInv
<1> SUFFICES ASSUME Init PROVE DecidedInv
    OBVIOUS
<1>1. Undisturbed
    BY DEF Init, Undisturbed, IsOpen
<1>2. FieldsDecided
    BY NoCallFacts DEF Init, FieldsDecided, FieldsFit
<1> QED
    BY <1>1, <1>2 DEF DecidedInv

\* A step of another call leaves a transaction alone when it touches neither
\* the verdict nor the grades that it counts.
LEMMA OthersUndisturbed ==
    ASSUME TypeInv, Undisturbed, NEW k \in Calls, ~IsOpen(k)', raced \subseteq raced',
           \A l \in Calls \ {k} : pc'[l] = pc[l] /\ call'[l] = call[l],
           \A l \in Calls \ {k}, c \in Contributions :
               IsOpen(l) /\ call[l].of = c /\ c \notin raced' /\ Open(c) = {l}
                   => /\ verdict'[c] = verdict[c]
                      /\ Counting(On(c) \cup {OwnGrade(l)}, dq)'
                            = Counting(On(c) \cup {OwnGrade(l)}, dq)
    PROVE  Undisturbed'
<1> SUFFICES ASSUME NEW l \in Calls, IsOpen(l)', call'[l].of \notin raced'
             PROVE  Alone(l)'
    BY DEF Undisturbed
<1>1. l \in Calls \ {k} /\ pc'[l] = pc[l] /\ call'[l] = call[l] /\ IsOpen(l)
    BY DEF IsOpen
<1>2. PICK c \in Contributions : c = call[l].of /\ c = call'[l].of
    BY <1>1 DEF IsOpen, TypeInv, CallsKnow
<1>3. c \notin raced' /\ c \notin raced /\ Alone(l)
    BY <1>1, <1>2 DEF Undisturbed
<1>4. Open(c) = {l}
    BY <1>2, <1>3 DEF Alone
<1>5. /\ verdict'[c] = verdict[c]
      /\ Counting(On(c) \cup {OwnGrade(l)}, dq)' = Counting(On(c) \cup {OwnGrade(l)}, dq)
    BY <1>1, <1>2, <1>3, <1>4
<1>6. Open(c)' = {l}
    BY <1>1, <1>2, <1>4 DEF Open, IsOpen
<1>7. /\ call[l].old = verdict[c]
      /\ pc[l] = "decide" => call[l].seen = Counting(On(c) \cup {OwnGrade(l)}, dq)
    BY <1>2, <1>3 DEF Alone
<1>8. /\ call'[l].old = verdict'[c]
      /\ pc'[l] = "decide" => call'[l].seen = Counting(On(c) \cup {OwnGrade(l)}, dq)'
    BY <1>1, <1>5, <1>7
<1>9. On(call[l].of)' = On(c)' /\ Open(call[l].of)' = Open(c)' /\ verdict'[call'[l].of] = verdict'[c]
    BY <1>2 DEF On, Open
<1>10. Counting(On(c) \cup {OwnGrade(l)}, dq)' = Counting(On(call[l].of) \cup {OwnGrade(l)}, dq)'
    BY <1>9 DEF Counting
<1> QED
    BY <1>6, <1>8, <1>9, <1>10 DEF Alone

LEMMA QuietUndisturbed ==
    ASSUME TypeInv, Undisturbed, NEW k \in Calls, ~IsOpen(k)',
           \A l \in Calls \ {k} : pc'[l] = pc[l] /\ call'[l] = call[l],
           UNCHANGED <<verdict, grades, dq, raced>>
    PROVE  Undisturbed'
<1>1. ASSUME NEW l \in Calls \ {k}, NEW c
      PROVE  Counting(On(c) \cup {OwnGrade(l)}, dq)' = Counting(On(c) \cup {OwnGrade(l)}, dq)
    BY DEF On, OwnGrade, Counting
<1> QED
    BY <1>1, OthersUndisturbed

LEMMA DecideUndisturbed ==
    ASSUME TypeInv, GradeInv, Undisturbed, NEW k \in Calls, Decide(k)
    PROVE  Undisturbed'
<1>0. PICK d : d = call[k].of
    OBVIOUS
<1>1. /\ pc[k] = "decide" /\ dq' = dq /\ raced' = raced
      /\ d \in Contributions /\ k \in Open(d)
      /\ \A c \in Contributions \ {d} : verdict'[c] = verdict[c]
    BY <1>0, DecideMoves DEF Open, people, TypeInv, TypeOK
<1>2. /\ ~IsOpen(k)'
      /\ \A l \in Calls \ {k} : pc'[l] = pc[l] /\ call'[l] = call[l]
    BY ClosingMoves DEF Closing
<1>3. ASSUME NEW l \in Calls \ {k}, NEW c \in Contributions, Open(c) = {l}
      PROVE  /\ verdict'[c] = verdict[c]
             /\ Counting(On(c) \cup {OwnGrade(l)}, dq)' = Counting(On(c) \cup {OwnGrade(l)}, dq)
    <2>1. c # d
        BY <1>1, <1>3
    <2>2. On(c)' = On(c)
        BY <1>0, <2>1, DecideOn
    <2> QED
        BY <1>1, <1>2, <2>1, <2>2 DEF OwnGrade, Counting
<1> QED
    BY <1>1, <1>2, <1>3, OthersUndisturbed

LEMMA DeleteUndisturbed ==
    ASSUME TypeInv, Undisturbed, NEW k \in Calls, Delete(k)
    PROVE  Undisturbed'
<1>0. PICK d : d = call[k].of
    OBVIOUS
<1>1. /\ Open(d) = {} /\ grades' = {g \in grades : g.of # d}
      /\ UNCHANGED <<verdict, dq, raced>>
    BY <1>0 DEF Delete, people, history
<1>2. /\ ~IsOpen(k)'
      /\ \A l \in Calls \ {k} : pc'[l] = pc[l] /\ call'[l] = call[l]
    BY ClosingMoves DEF Closing
<1>3. ASSUME NEW l \in Calls \ {k}, NEW c \in Contributions, Open(c) = {l}
      PROVE  Counting(On(c) \cup {OwnGrade(l)}, dq)' = Counting(On(c) \cup {OwnGrade(l)}, dq)
    <2>1. c # d
        BY <1>1, <1>3
    <2>2. On(c)' = On(c)
        BY <1>1, <2>1 DEF On
    <2> QED
        BY <1>1, <1>2, <2>2 DEF OwnGrade, Counting
<1> QED
    BY <1>1, <1>2, <1>3, OthersUndisturbed

\* What is not overtaken keeps its verdict, or has none of the user's grades.
LEMMA RejudgeSpares ==
    ASSUME TypeInv, NEW k \in Calls, Rejudge(k), NEW c \in Contributions, c \notin raced'
    PROVE  /\ c \notin raced
           /\ \A l \in Open(c) :
                  c \notin Again(k) /\ call[l].by # call[k].by
           /\ c \notin Again(k) =>
                  /\ verdict'[c] = verdict[c]
                  /\ \A g \in On(c) : g.by # call[k].by
<1>1. raced' = raced \cup Overtaken(k, Again(k))
    BY RejudgeMoves
<1>2. c \notin raced /\ c \notin Overtaken(k, Again(k))
    BY <1>1
<1>3. c \notin Again(k) => verdict'[c] = verdict[c]
    BY RejudgeMoves
<1> QED
    BY <1>2, <1>3 DEF Overtaken

LEMMA RejudgeUndisturbed ==
    ASSUME TypeInv, Undisturbed, NEW k \in Calls, Rejudge(k)
    PROVE  Undisturbed'
<1>1. /\ ~IsOpen(k)' /\ raced \subseteq raced'
      /\ \A l \in Calls \ {k} : pc'[l] = pc[l] /\ call'[l] = call[l]
    BY ClosingMoves, RejudgeMoves DEF Closing
<1>2. grades' = grades /\ dq' = OutAfter(k)
    BY RejudgeMoves
<1>3. ASSUME NEW l \in Calls \ {k}, NEW c \in Contributions, c \notin raced', Open(c) = {l}
      PROVE  /\ verdict'[c] = verdict[c]
             /\ Counting(On(c) \cup {OwnGrade(l)}, dq)' = Counting(On(c) \cup {OwnGrade(l)}, dq)
    <2>1. /\ verdict'[c] = verdict[c] /\ call[l].by # call[k].by
          /\ \A g \in On(c) : g.by # call[k].by
        BY <1>3, RejudgeSpares
    <2>2. On(c)' = On(c) /\ OwnGrade(l)' = OwnGrade(l) /\ OwnGrade(l).by = call[l].by
        BY <1>1, <1>2 DEF On, OwnGrade
    <2>3. \A g \in On(c) \cup {OwnGrade(l)} : (g.by \in dq') = (g.by \in dq)
        BY <1>2, <2>1, <2>2 DEF OutAfter
    <2>4. \A g \in On(c) \cup {OwnGrade(l)} : g.by \in dq' <=> g.by \in dq
        BY <2>3
    <2> QED
        BY <2>1, <2>2, <2>4 DEF Counting
<1> QED
    BY <1>1, <1>3, OthersUndisturbed

LEMMA InsertUndisturbed ==
    ASSUME TypeInv, Undisturbed, NEW k \in Calls, InsertGrade(k)
    PROVE  Undisturbed'
<1>0. PICK d : d = call[k].of
    OBVIOUS
<1>1. UNCHANGED <<verdict, grades, dq>> /\ pc[k] = "insert"
    BY DEF InsertGrade, tables, people
<1>2. CASE Finish(k) /\ UNCHANGED history
    BY <1>1, <1>2, ClosingMoves, QuietUndisturbed DEF history
<1>3. CASE ~(Finish(k) /\ UNCHANGED history)
    <2>1. raced' = IF Open(d) = {} THEN raced ELSE raced \cup {d}
        BY <1>0, <1>3, InsertGradeMoves
    <2>2. PICK r \in CallRecord : Moves(k, "count", r) /\ r.of = d /\ r.old = verdict[d]
        BY <1>0, <1>3, InsertGradeMoves
    <2>3. /\ pc'[k] = "count" /\ call'[k] = r
          /\ \A l \in Calls \ {k} : pc'[l] = pc[l] /\ call'[l] = call[l]
        BY <2>2 DEF Moves, TypeInv, TypeOK
    <2>4. Open(d)' = Open(d) \cup {k} /\ k \notin Open(d)
        BY <1>1, <2>2, <2>3 DEF Open
    <2>5. \A c : c # d => Open(c)' = Open(c)
        BY <1>1, <2>2, <2>3 DEF Open
    <2>6. ASSUME call'[k].of \notin raced' PROVE Alone(k)'
        <3>1. Open(d)' = {k} /\ call'[k].of = d
            BY <2>1, <2>2, <2>3, <2>4, <2>6
        <3>2. call'[k].old = verdict'[d] /\ pc'[k] # "decide"
            BY <1>1, <2>2, <2>3
        <3>3. Open(call[k].of)' = Open(d)'
            BY <3>1 DEF Open
        <3> QED
            BY <3>1, <3>2, <3>3 DEF Alone
    <2>7. ASSUME NEW l \in Calls \ {k}, IsOpen(l)', call'[l].of \notin raced' PROVE Alone(l)'
        <3>0. PICK c : c = call[l].of
            OBVIOUS
        <3>1. /\ pc'[l] = pc[l] /\ call'[l] = call[l] /\ IsOpen(l) /\ l \in Open(c)
              /\ c = call'[l].of
            BY <2>3, <2>7, <3>0 DEF IsOpen, Open
        <3>2. c # d
            BY <2>1, <2>7, <3>1
        <3>3. Alone(l)
            BY <2>1, <2>7, <3>0, <3>1 DEF Undisturbed
        <3>4. /\ Open(call[l].of)' = Open(c) /\ On(call[l].of)' = On(c)
              /\ OwnGrade(l)' = OwnGrade(l)
            BY <1>1, <2>5, <3>1, <3>2 DEF Open, On, OwnGrade
        <3> QED
            BY <1>1, <3>0, <3>1, <3>3, <3>4 DEF Alone, Counting
    <2> QED
        BY <2>6, <2>7 DEF Undisturbed
<1> QED
    BY <1>2, <1>3

LEMMA CountUndisturbed ==
    ASSUME TypeInv, Undisturbed, NEW k \in Calls, CountGrades(k)
    PROVE  Undisturbed'
<1>0. PICK d : d = call[k].of
    OBVIOUS
<1>1. UNCHANGED <<verdict, grades, dq, raced>> /\ pc[k] = "count"
    BY DEF CountGrades, tables, people, history
<1>2. PICK r \in CallRecord :
          /\ Moves(k, "decide", r)
          /\ r.by = call[k].by /\ r.of = d /\ r.mark = call[k].mark /\ r.old = call[k].old
          /\ r.seen = Counting(On(d) \cup {OwnGrade(k)}, dq)
    BY <1>0, CountGradesMoves
<1>3. /\ pc'[k] = "decide" /\ call'[k] = r
      /\ \A l \in Calls \ {k} : pc'[l] = pc[l] /\ call'[l] = call[l]
    BY <1>2 DEF Moves, TypeInv, TypeOK
<1>4. \A l \in Calls : call'[l].of = call[l].of /\ call'[l].by = call[l].by
                       /\ call'[l].mark = call[l].mark /\ call'[l].old = call[l].old
    BY <1>0, <1>2, <1>3
<1>5. \A l \in Calls : IsOpen(l)' => IsOpen(l)
    BY <1>1, <1>3 DEF IsOpen
<1>6. \A l \in Calls : Open(call[l].of)' = Open(call[l].of)
    BY <1>1, <1>3, <1>4 DEF Open
<1>7. \A l \in Calls : OwnGrade(l)' = OwnGrade(l) /\ On(call[l].of)' = On(call[l].of)
    BY <1>1, <1>4 DEF OwnGrade, On
<1>8. ASSUME NEW l \in Calls, IsOpen(l)', call'[l].of \notin raced' PROVE Alone(l)'
    <2>1. Alone(l)
        BY <1>1, <1>4, <1>5, <1>8 DEF Undisturbed
    <2>2. /\ Open(call[l].of)' = {l} /\ call'[l].old = verdict'[call'[l].of]
        BY <1>1, <1>4, <1>6, <2>1 DEF Alone
    <2>3. pc'[l] = "decide"
             => call'[l].seen = Counting(On(call[l].of) \cup {OwnGrade(l)}, dq)
        BY <1>0, <1>2, <1>3, <2>1 DEF Alone
    <2> QED
        BY <1>1, <1>7, <2>2, <2>3 DEF Alone, Counting
<1> QED
    BY <1>8 DEF Undisturbed

LEMMA NextUndisturbed == TypeInv /\ GradeInv /\ Undisturbed /\ Next => Undisturbed'
<1> SUFFICES ASSUME TypeInv, GradeInv, Undisturbed, Next PROVE Undisturbed'
    OBVIOUS
<1>1. ASSUME NEW k \in Calls, Closing(k) PROVE Undisturbed'
    <2>1. CASE Decide(k) \/ Delete(k) \/ Rejudge(k)
        BY <2>1, DecideUndisturbed, DeleteUndisturbed, RejudgeUndisturbed
    <2>2. CASE ~(Decide(k) \/ Delete(k) \/ Rejudge(k))
        <3>1. UNCHANGED <<verdict, grades, dq, raced>>
            BY <1>1, <2>2 DEF Closing, CheckGrade, CheckVote, ReadDisqualify, ReadDelete,
               AwardGrade, RestoreBefore, InsertVote, PayVote, Fail, tables, people, history
        <3> QED
            BY <1>1, <3>1, ClosingMoves, QuietUndisturbed
    <2> QED
        BY <2>1, <2>2
<1>2. ASSUME UNCHANGED <<verdict, grades, dq, raced, pc, call>> PROVE Undisturbed'
    BY <1>2 DEF Undisturbed, Alone, IsOpen, Open, On, OwnGrade, Counting
<1>3. ASSUME NEW u \in Users, Ban(u) \/ Unban(u) PROVE Undisturbed'
    BY <1>2, <1>3 DEF Ban, Unban, people
<1>4. ASSUME NEW c, Hide(c) PROVE Undisturbed'
    BY <1>2, <1>4 DEF Hide, people
<1> QED
    BY <1>1, <1>3, <1>4, InsertUndisturbed, CountUndisturbed, ConsensusAssumption
    DEF Next, GradeStep, VoteStep, ModerationStep, Closing

LEMMA DecideFieldsDecided ==
    ASSUME TypeInv, GradeInv, DecidedInv, NEW k \in Calls, Decide(k)
    PROVE  FieldsDecided'
<1>0. PICK c : c = call[k].of
    OBVIOUS
<1>1. /\ pc[k] = "decide" /\ dq' = dq /\ raced' = raced /\ live' = live
      /\ c \in live /\ c \in Contributions
      /\ On(c)' = On(c) \cup {OwnGrade(k)}
      /\ On(c) \in SUBSET Grades /\ On(c)' \in SUBSET Grades
    <2>1. /\ pc[k] = "decide" /\ dq' = dq /\ raced' = raced /\ live' = live
          /\ c \in Contributions
        BY <1>0, DecideMoves DEF people
    <2>2. c \in live /\ On(c)' = On(c) \cup {OwnGrade(k)}
        BY <1>0, DecideOn
    <2>3. On(c) \in SUBSET Grades /\ OwnGrade(k) \in Grades
        BY <2>1, OwnGradeTypes DEF On, TypeInv, TypeOK
    <2> QED
        BY <2>1, <2>2, <2>3
<1>2. PICK v \in Judgements(call[k].old, call[k].heard, call[k].seen) :
          verdict' = [verdict EXCEPT ![c] = v]
    BY <1>0, DecideMoves
<1>3. ASSUME c \notin raced PROVE FieldsFit(v, Counting(On(c)', dq))
    <2>1. Alone(k)
        BY <1>0, <1>1, <1>3 DEF DecidedInv, Undisturbed, IsOpen
    <2>2. /\ call[k].old = verdict[c] /\ verdict[c] \in Verdicts
          /\ call[k].seen = Counting(On(c)', dq)
        BY <1>0, <1>1, <2>1 DEF Alone, TypeInv, TypeOK
    <2>3. FieldsFit(verdict[c], Counting(On(c), dq))
        BY <1>1, <1>3 DEF DecidedInv, FieldsDecided
    <2>4. /\ Counting(On(c), dq) \in SUBSET Counting(On(c)', dq)
          /\ Counting(On(c)', dq) \in SUBSET Grades
        BY <1>1 DEF Counting
    <2>5. FieldsFit(verdict[c], Counting(On(c)', dq))
        BY <2>3, <2>4, MoreGradesFit
    <2> QED
        BY <1>2, <2>2, <2>4, <2>5, JudgementsFit
<1>4. ASSUME NEW d \in live \ raced PROVE FieldsFit(verdict'[d], Counting(On(d)', dq))
    <2>1. d \in Contributions
        BY DEF TypeInv, TypeOK
    <2>2. CASE d = c
        BY <1>1, <1>2, <1>3, <1>4, <2>2 DEF TypeInv, TypeOK
    <2>3. CASE d # c
        <3>1. On(d)' = On(d) /\ verdict'[d] = verdict[d]
            BY <1>0, <1>2, <2>1, <2>3, DecideOn DEF TypeInv, TypeOK
        <3> QED
            BY <1>4, <3>1 DEF DecidedInv, FieldsDecided
    <2> QED
        BY <2>2, <2>3
<1> QED
    BY <1>1, <1>4 DEF FieldsDecided, Counting

LEMMA RejudgeFieldsDecided ==
    ASSUME TypeInv, DecidedInv, NEW k \in Calls, Rejudge(k)
    PROVE  FieldsDecided'
<1>1. UNCHANGED <<live, grades>> /\ dq' = OutAfter(k)
    BY RejudgeMoves
<1>2. ASSUME NEW c \in live, c \notin raced'
      PROVE  FieldsFit(verdict'[c], Counting(On(c), OutAfter(k)))
    <2>1. c \in Contributions
        BY DEF TypeInv, TypeOK
    <2>2. CASE c \in Again(k)
        <3>1. Counting(On(c), OutAfter(k)) \in SUBSET Grades
            BY DEF Counting, On, TypeInv, TypeOK
        <3>2. verdict'[c] \in Rejudgements(AuthorOf[c] \notin OutAfter(k),
                                 Counting(On(c), OutAfter(k)), {call[k].by})
            BY <2>1, <2>2, RejudgeMoves
        <3> QED
            BY <3>1, <3>2, RejudgementsFit
    <2>3. CASE c \notin Again(k)
        <3>1. c \notin raced /\ verdict'[c] = verdict[c] /\ \A g \in On(c) : g.by # call[k].by
            BY <1>2, <2>1, <2>3, RejudgeSpares
        <3>2. Counting(On(c), OutAfter(k)) = Counting(On(c), dq)
            BY <3>1 DEF Counting, OutAfter
        <3> QED
            BY <3>1, <3>2 DEF DecidedInv, FieldsDecided
    <2> QED
        BY <2>2, <2>3
<1>3. \A c : Counting(On(c), dq)' = Counting(On(c), OutAfter(k))
    BY <1>1 DEF Counting, On
<1> QED
    BY <1>1, <1>2, <1>3 DEF FieldsDecided

\* Steps other than these change no verdict, and no grade of what stays.
LEMMA StillSteps ==
    ASSUME TypeInv, Next, ~\E k \in Calls : Decide(k) \/ Rejudge(k)
    PROVE  verdict' = verdict /\ dq' = dq /\ raced \subseteq raced'
<1>1. ASSUME NEW k \in Calls, InsertGrade(k)
      PROVE  verdict' = verdict /\ dq' = dq /\ raced \subseteq raced'
    BY <1>1, InsertGradeMoves DEF InsertGrade, tables, people, history
<1>2. (\E k \in Calls : InsertGrade(k)) \/ UNCHANGED <<verdict, dq, raced>>
    BY DEF Next, GradeStep, VoteStep, ModerationStep, CheckGrade, CheckVote,
       ReadDisqualify, ReadDelete, CountGrades, AwardGrade, RestoreBefore,
       InsertVote, PayVote, Fail, Delete, Ban, Unban, Hide, tables, people, history
<1> QED
    BY <1>1, <1>2

LEMMA NextDecidedInv ==
    TypeInv /\ GradeInv /\ DecidedInv /\ [Next]_vars => DecidedInv'
<1> SUFFICES ASSUME TypeInv, GradeInv, DecidedInv, [Next]_vars PROVE DecidedInv'
    OBVIOUS
<1>1. CASE UNCHANGED vars
    BY <1>1 DEF vars, tables, people, history, DecidedInv, Undisturbed, Alone, FieldsDecided,
       IsOpen, Open, On, OwnGrade, Counting
<1>2. CASE Next
    <2>1. Undisturbed'
        BY <1>2, NextUndisturbed DEF DecidedInv
    <2>2. CASE \E k \in Calls : Decide(k) \/ Rejudge(k)
        BY <2>1, <2>2, DecideFieldsDecided, RejudgeFieldsDecided DEF DecidedInv
    <2>3. CASE ~\E k \in Calls : Decide(k) \/ Rejudge(k)
        <3>1. /\ verdict' = verdict /\ dq' = dq /\ raced \subseteq raced' /\ live' \subseteq live
              /\ \A c \in live' : On(c)' = On(c)
            BY <1>2, <2>3, StillSteps, OtherSteps
        <3>2. \A c \in live' \ raced' : FieldsFit(verdict'[c], Counting(On(c), dq)')
            BY <3>1 DEF DecidedInv, FieldsDecided, Counting
        <3> QED
            BY <2>1, <3>2 DEF DecidedInv, FieldsDecided
    <2> QED
        BY <2>2, <2>3
<1> QED
    BY <1>1, <1>2

LEMMA DecidedInvHolds == Spec => []DecidedInv
BY TypeInvHolds, GradeInvHolds, InitDecidedInv, NextDecidedInv, PTL DEF Spec

\* A contribution on which no transactions overlapped is decided only by a
\* quorum of the grades that count, one of them good or bad enough for the
\* decision: a disqualification takes back the decisions that needed the
\* evaluator (migrations v30 and v35).
THEOREM DecisionsRestOnGrades == Spec => []DecidedByQuorum
<1>1. TypeInv /\ GradeInv /\ DecidedInv => DecidedByQuorum
    <2> SUFFICES ASSUME TypeInv, GradeInv, DecidedInv, NEW c \in live \ raced
                 PROVE  LET gs == Counting(On(c), dq) IN
                        /\ verdict[c].all # "pending" => Cardinality(gs) >= Enough
                        /\ verdict[c].all = "approved" =>
                              (\E g \in gs : g.mark.text >= 3) /\ (\E g \in gs : g.mark.audio >= 3)
                        /\ verdict[c].all = "rejected" =>
                              \E g \in gs : g.mark.text <= 2 \/ g.mark.audio <= 2
        BY DEF DecidedByQuorum, Counting
    <2>1. FieldsFit(verdict[c], Counting(On(c), dq))
        BY DEF DecidedInv, FieldsDecided
    <2>2. verdict[c].all = Overall(verdict[c].text, verdict[c].audio)
        BY DEF GradeInv, Summed, TypeInv, TypeOK
    <2> QED
        BY <2>1, <2>2 DEF FieldsFit, Overall
<1> QED
    BY <1>1, TypeInvHolds, GradeInvHolds, DecidedInvHolds, PTL

\* A trigger takes no decision back: it judges again only the fields that are
\* still pending.  Only a re-judgement of a disqualified or returning evaluator
\* does (dq_recompute_contribution), unless transactions overlapped.
THEOREM DecisionsStandUntilRejudged == Spec => DecisionStands
<1> DEFINE Stands ==
        \A c \in live' \ raced' :
            verdict[c].all # "pending" /\ verdict'[c].all # verdict[c].all
                => \E k \in Calls : pc[k] = "rejudge" /\ pc'[k] = "idle"
<1>1. TypeInv /\ GradeInv /\ DecidedInv /\ [Next]_vars => [Stands]_vars
    <2> SUFFICES ASSUME TypeInv, GradeInv, DecidedInv, Next, NEW c \in live', c \notin raced',
                        verdict[c].all # "pending", verdict'[c].all # verdict[c].all
                 PROVE  \E k \in Calls : pc[k] = "rejudge" /\ pc'[k] = "idle"
        OBVIOUS
    <2>1. ASSUME NEW k \in Calls, Rejudge(k) PROVE pc[k] = "rejudge" /\ pc'[k] = "idle"
        <3>1. pc[k] = "rejudge" /\ Finish(k)
            BY <2>1, RejudgeMoves
        <3>2. pc' = [pc EXCEPT ![k] = "idle"]
            BY <3>1 DEF Finish, Go
        <3> QED
            BY <3>1, <3>2 DEF TypeInv, TypeOK
    <2>2. ASSUME NEW k \in Calls, Decide(k) PROVE FALSE
        <3>1. PICK d : d = call[k].of
            OBVIOUS
        <3>2. d \in Contributions /\ live' = live /\ raced' = raced /\ pc[k] = "decide"
            BY <2>2, <3>1, DecideMoves
        <3>3. PICK v \in Judgements(call[k].old, call[k].heard, call[k].seen) :
                  verdict' = [verdict EXCEPT ![d] = v]
            BY <2>2, <3>1, DecideMoves
        <3>4. c = d /\ verdict'[c] = v
            BY <3>2, <3>3 DEF TypeInv, TypeOK
        <3>5. call[k].old = verdict[c] /\ verdict[c] \in Verdicts
            BY <3>1, <3>2, <3>4 DEF DecidedInv, Undisturbed, Alone, IsOpen, TypeInv, TypeOK
        <3>6. verdict[c].all = Overall(verdict[c].text, verdict[c].audio)
            BY <3>2, <3>4 DEF GradeInv, Summed
        <3>7. v.all = verdict[c].all
            BY <3>3, <3>5, <3>6, JudgementsStand
        <3> QED
            BY <3>4, <3>7
    <2> QED
        BY <2>1, <2>2, StillSteps
<1>2. Spec => [][Stands]_vars
    BY <1>1, TypeInvHolds, GradeInvHolds, DecidedInvHolds, PTL DEF Spec
<1> QED
    BY <1>2 DEF DecisionStands

----------------------------------------------------------------------------
(* Points.                                                                 *)

LEMMA Times ==
    ASSUME NEW p \in Nat, NEW a \in Int, NEW b \in Int, a <= b
    PROVE  p * a <= p * b
OBVIOUS

LEMMA TimesNext ==
    ASSUME NEW p \in Nat, NEW a \in Int, NEW b \in Int, a + 1 <= b
    PROVE  p * a + p <= p * b
<1>1. p * (a + 1) <= p * b
    BY Times
<1>2. p * (a + 1) = p * a + p
    OBVIOUS
<1> QED
    BY <1>1, <1>2

\* What u is still to be paid for, and what u has been paid for at most.
GradesBy(u)  == {g \in grades : g.by = u}
VotesBy(u)   == {v \in votes : v.by = u}
ToAward(u)   == {k \in Calls : pc[k] = "award" /\ call[k].by = u}
ToPayVote(u) == {k \in Calls : pc[k] = "payvote" /\ call[k].by = u}
Graded(u)    == Cardinality(GradesBy(u)) - Cardinality(ToAward(u))
Voted(u)     == Cardinality(VotesBy(u)) - Cardinality(ToPayVote(u))
BonusSet(u)  ==
    {p \in Contributions \X (1..Cardinality(Users)) :
        AuthorOf[p[1]] = u /\ p[2] <= bonuses[p[1]]}
Funds(u)     == Earned(u) + GradePay * Graded(u) + VotePay * Voted(u) + Bonus * Bonuses(u)

\* The call holds points that it may still write back.
MayRestore(k) == pc[k] \in {"insert", "count", "decide", "award", "restore"}

\* Points, and the points a call may write back, stay within what is paid for.
Funded ==
    ~moderated =>
        /\ \A u \in Users : points[u] <= Funds(u)
        /\ \A k \in Calls :
               /\ pc[k] \notin {"rejudge", "delete"}
               /\ \A u \in Users :
                      MayRestore(k) /\ call[k].by = u => call[k].before <= Funds(u)

LEMMA FiniteBonusSets ==
    ASSUME NEW u
    PROVE  IsFiniteSet(BonusSet(u)) /\ Cardinality(BonusSet(u)) \in Nat
<1>1. Cardinality(Users) \in Nat
    BY ConsensusAssumption, FS_CardinalityType
<1>2. IsFiniteSet(1..Cardinality(Users))
    <2>1. 1 \in Int /\ Cardinality(Users) \in Int
        BY <1>1
    <2> QED
        BY <2>1, FS_Interval, Zenon
<1>3. IsFiniteSet(Contributions \X (1..Cardinality(Users)))
    BY <1>2, ConsensusAssumption, FS_Product
<1>4. BonusSet(u) \in SUBSET (Contributions \X (1..Cardinality(Users)))
    BY DEF BonusSet
<1> QED
    BY <1>3, <1>4, FS_Subset, FS_CardinalityType

\* All the sets behind somebody's points are finite.
LEMMA FinitePay ==
    ASSUME TypeInv, NEW u
    PROVE  /\ IsFiniteSet(GradesBy(u)) /\ Cardinality(GradesBy(u)) \in Nat
           /\ IsFiniteSet(VotesBy(u)) /\ Cardinality(VotesBy(u)) \in Nat
           /\ IsFiniteSet(ToAward(u)) /\ Cardinality(ToAward(u)) \in Nat
           /\ IsFiniteSet(ToPayVote(u)) /\ Cardinality(ToPayVote(u)) \in Nat
<1>1. GradesBy(u) \in SUBSET Grades /\ VotesBy(u) \in SUBSET [by : Users, of : Contributions]
    BY DEF GradesBy, VotesBy, TypeInv, TypeOK
<1>2. ToAward(u) \in SUBSET Calls /\ ToPayVote(u) \in SUBSET Calls
    BY DEF ToAward, ToPayVote
<1> QED
    BY <1>1, <1>2, Finite

LEMMA FundTypes ==
    ASSUME TypeInv, NEW u
    PROVE  /\ Graded(u) \in Int /\ Voted(u) \in Int /\ Bonuses(u) \in Nat /\ Earned(u) \in Nat
           /\ Funds(u) \in Int
<1>1. Graded(u) \in Int /\ Voted(u) \in Int
    BY FinitePay DEF Graded, Voted
<1>2. Bonuses(u) \in Nat
    BY FiniteBonusSets DEF Bonuses, BonusSet
<1>3. Earned(u) \in Nat
    <2> DEFINE n == Cardinality({c \in Contributions : AuthorOf[c] = u})
    <2>1. n \in Nat
        BY Finite
    <2> HIDE DEF n
    <2> QED
        BY <2>1, ConsensusAssumption DEF Earned, n
<1>4. GradePay \in Nat /\ VotePay \in Nat /\ Bonus \in Nat
    BY ConsensusAssumption
<1> QED
    BY <1>1, <1>2, <1>3, <1>4 DEF Funds

\* More paid work or more bonuses are worth no less.
LEMMA FundsGrow ==
    ASSUME TypeInv, TypeInv', NEW u,
           Graded(u) <= Graded(u)', Voted(u) <= Voted(u)', Bonuses(u) <= Bonuses(u)'
    PROVE  /\ Funds(u) <= Funds(u)'
           /\ Graded(u) + 1 <= Graded(u)' => Funds(u) + GradePay <= Funds(u)'
           /\ Voted(u) + 1 <= Voted(u)' => Funds(u) + VotePay <= Funds(u)'
           /\ Bonuses(u) + 1 <= Bonuses(u)' => Funds(u) + Bonus <= Funds(u)'
<1>1. PICK g, v, b, e, f : g = Graded(u) /\ v = Voted(u) /\ b = Bonuses(u) /\ e = Earned(u)
                           /\ f = Funds(u)
    OBVIOUS
<1>2. PICK g1, v1, b1, f1 : g1 = Graded(u)' /\ v1 = Voted(u)' /\ b1 = Bonuses(u)'
                            /\ f1 = Funds(u)'
    OBVIOUS
<1>3. /\ g \in Int /\ v \in Int /\ b \in Int /\ e \in Int
      /\ GradePay \in Nat /\ VotePay \in Nat /\ Bonus \in Nat
    BY <1>1, FundTypes, ConsensusAssumption
<1>4. g1 \in Int /\ v1 \in Int /\ b1 \in Int
    <2>1. (Graded(u) \in Int /\ Voted(u) \in Int /\ Bonuses(u) \in Nat)'
        BY FundTypes, PTL
    <2> QED
        BY <1>2, <2>1
<1>5. g <= g1 /\ v <= v1 /\ b <= b1
    BY <1>1, <1>2
<1>6. f = e + GradePay * g + VotePay * v + Bonus * b
    BY <1>1 DEF Funds
<1>7. f1 = e + GradePay * g1 + VotePay * v1 + Bonus * b1
    BY <1>1, <1>2 DEF Funds, Earned
<1>8. GradePay * g <= GradePay * g1 /\ VotePay * v <= VotePay * v1 /\ Bonus * b <= Bonus * b1
    BY <1>3, <1>4, <1>5, Times
<1>9. /\ g + 1 <= g1 => GradePay * g + GradePay <= GradePay * g1
      /\ v + 1 <= v1 => VotePay * v + VotePay <= VotePay * v1
      /\ b + 1 <= b1 => Bonus * b + Bonus <= Bonus * b1
    BY <1>3, <1>4, TimesNext
<1>10. /\ GradePay * g \in Int /\ GradePay * g1 \in Int /\ VotePay * v \in Int
       /\ VotePay * v1 \in Int /\ Bonus * b \in Int /\ Bonus * b1 \in Int
    BY <1>3, <1>4
<1>11. /\ f <= f1
       /\ g + 1 <= g1 => f + GradePay <= f1
       /\ v + 1 <= v1 => f + VotePay <= f1
       /\ b + 1 <= b1 => f + Bonus <= f1
    BY <1>3, <1>6, <1>7, <1>8, <1>9, <1>10
<1> QED
    BY <1>1, <1>2, <1>11

LEMMA GradedGrows ==
    ASSUME TypeInv, TypeInv', NEW u,
           GradesBy(u) \subseteq GradesBy(u)', ToAward(u)' \subseteq ToAward(u)
    PROVE  /\ Graded(u) <= Graded(u)'
           /\ ToAward(u)' # ToAward(u) => Graded(u) + 1 <= Graded(u)'
<1>1. PICK g, w : g = GradesBy(u) /\ w = ToAward(u)
    OBVIOUS
<1>2. PICK g1, w1 : g1 = GradesBy(u)' /\ w1 = ToAward(u)'
    OBVIOUS
<1>3. /\ IsFiniteSet(g) /\ Cardinality(g) \in Nat /\ IsFiniteSet(w) /\ Cardinality(w) \in Nat
    BY <1>1, FinitePay
<1>4. /\ IsFiniteSet(g1) /\ Cardinality(g1) \in Nat /\ IsFiniteSet(w1) /\ Cardinality(w1) \in Nat
    <2>1. (/\ IsFiniteSet(GradesBy(u)) /\ Cardinality(GradesBy(u)) \in Nat
           /\ IsFiniteSet(ToAward(u)) /\ Cardinality(ToAward(u)) \in Nat)'
        BY FinitePay, PTL
    <2> QED
        BY <1>2, <2>1
<1>5. g \in SUBSET g1 /\ w1 \in SUBSET w
    BY <1>1, <1>2
<1>6. Cardinality(g) <= Cardinality(g1) /\ Cardinality(w1) <= Cardinality(w)
    BY <1>3, <1>4, <1>5, FS_Subset
<1>7. w1 # w => Cardinality(w1) + 1 <= Cardinality(w)
    <2>1. w1 # w => Cardinality(w1) # Cardinality(w)
        BY <1>3, <1>5, FS_Subset
    <2> QED
        BY <1>3, <1>4, <1>6, <2>1
<1>8. /\ Graded(u) = Cardinality(g) - Cardinality(w)
      /\ Graded(u)' = Cardinality(g1) - Cardinality(w1)
    BY <1>1, <1>2 DEF Graded
<1>9. /\ Cardinality(g) - Cardinality(w) <= Cardinality(g1) - Cardinality(w1)
      /\ w1 # w => Cardinality(g) - Cardinality(w) + 1 <= Cardinality(g1) - Cardinality(w1)
    BY <1>3, <1>4, <1>6, <1>7
<1> QED
    BY <1>1, <1>2, <1>8, <1>9

LEMMA VotedGrows ==
    ASSUME TypeInv, TypeInv', NEW u,
           VotesBy(u) \subseteq VotesBy(u)', ToPayVote(u)' \subseteq ToPayVote(u)
    PROVE  /\ Voted(u) <= Voted(u)'
           /\ ToPayVote(u)' # ToPayVote(u) => Voted(u) + 1 <= Voted(u)'
<1>1. PICK g, w : g = VotesBy(u) /\ w = ToPayVote(u)
    OBVIOUS
<1>2. PICK g1, w1 : g1 = VotesBy(u)' /\ w1 = ToPayVote(u)'
    OBVIOUS
<1>3. /\ IsFiniteSet(g) /\ Cardinality(g) \in Nat /\ IsFiniteSet(w) /\ Cardinality(w) \in Nat
    BY <1>1, FinitePay
<1>4. /\ IsFiniteSet(g1) /\ Cardinality(g1) \in Nat /\ IsFiniteSet(w1) /\ Cardinality(w1) \in Nat
    <2>1. (/\ IsFiniteSet(VotesBy(u)) /\ Cardinality(VotesBy(u)) \in Nat
           /\ IsFiniteSet(ToPayVote(u)) /\ Cardinality(ToPayVote(u)) \in Nat)'
        BY FinitePay, PTL
    <2> QED
        BY <1>2, <2>1
<1>5. g \in SUBSET g1 /\ w1 \in SUBSET w
    BY <1>1, <1>2
<1>6. Cardinality(g) <= Cardinality(g1) /\ Cardinality(w1) <= Cardinality(w)
    BY <1>3, <1>4, <1>5, FS_Subset
<1>7. w1 # w => Cardinality(w1) + 1 <= Cardinality(w)
    <2>1. w1 # w => Cardinality(w1) # Cardinality(w)
        BY <1>3, <1>5, FS_Subset
    <2> QED
        BY <1>3, <1>4, <1>6, <2>1
<1>8. /\ Voted(u) = Cardinality(g) - Cardinality(w)
      /\ Voted(u)' = Cardinality(g1) - Cardinality(w1)
    BY <1>1, <1>2 DEF Voted
<1>9. /\ Cardinality(g) - Cardinality(w) <= Cardinality(g1) - Cardinality(w1)
      /\ w1 # w => Cardinality(g) - Cardinality(w) + 1 <= Cardinality(g1) - Cardinality(w1)
    BY <1>3, <1>4, <1>6, <1>7
<1> QED
    BY <1>1, <1>2, <1>8, <1>9

\* A call that has no pay to wait for leaves everybody's funds, or pays them in.
LEMMA QuietFunds ==
    ASSUME TypeInv, TypeInv', NEW k \in Calls, pc'[k] \notin {"award", "payvote"},
           \A l \in Calls \ {k} : pc'[l] = pc[l] /\ call'[l] = call[l],
           UNCHANGED <<grades, votes, bonuses>>, NEW u
    PROVE  /\ Funds(u) <= Funds(u)'
           /\ pc[k] = "award" /\ call[k].by = u => Funds(u) + GradePay <= Funds(u)'
           /\ pc[k] = "payvote" /\ call[k].by = u => Funds(u) + VotePay <= Funds(u)'
<1>1. /\ GradesBy(u)' = GradesBy(u) /\ VotesBy(u)' = VotesBy(u)
    BY DEF GradesBy, VotesBy
<1>2. /\ ToAward(u)' \subseteq ToAward(u) /\ k \notin ToAward(u)'
      /\ ToPayVote(u)' \subseteq ToPayVote(u) /\ k \notin ToPayVote(u)'
    BY DEF ToAward, ToPayVote
<1>3. /\ pc[k] = "award" /\ call[k].by = u => k \in ToAward(u)
      /\ pc[k] = "payvote" /\ call[k].by = u => k \in ToPayVote(u)
    BY DEF ToAward, ToPayVote
<1>4. Bonuses(u)' = Bonuses(u)
    BY DEF Bonuses
<1>5. /\ Graded(u) <= Graded(u)' /\ Voted(u) <= Voted(u)'
      /\ pc[k] = "award" /\ call[k].by = u => Graded(u) + 1 <= Graded(u)'
      /\ pc[k] = "payvote" /\ call[k].by = u => Voted(u) + 1 <= Voted(u)'
    BY <1>1, <1>2, <1>3, GradedGrows, VotedGrows
<1>6. Bonuses(u) <= Bonuses(u)'
    BY <1>4, FundTypes
<1> QED
    BY <1>5, <1>6, FundsGrow

\* What a step of k has to keep so that all points stay funded.
LEMMA FundedStep ==
    ASSUME TypeInv, TypeInv', Funded, NEW k \in Calls,
           \A l \in Calls \ {k} : pc'[l] = pc[l] /\ call'[l] = call[l],
           \A u \in Users : Funds(u) <= Funds(u)',
           ~moderated' => ~moderated,
           ~moderated =>
               /\ \A u \in Users : points'[u] <= Funds(u)'
               /\ pc'[k] \notin {"rejudge", "delete"}
               /\ \A u \in Users :
                      MayRestore(k)' /\ call'[k].by = u => call'[k].before <= Funds(u)
    PROVE  Funded'
<1>1. ASSUME ~moderated', NEW l \in Calls, NEW u \in Users, MayRestore(l)', call'[l].by = u
      PROVE  call'[l].before <= Funds(u)'
    <2>1. Funds(u) \in Int /\ Funds(u) <= Funds(u)'
        BY FundTypes
    <2>2. (Funds(u) \in Int)'
        BY FundTypes, PTL
    <2>3. call'[l].before \in Nat
        BY DEF TypeInv, TypeOK, CallRecord
    <2>4. call'[l].before <= Funds(u)
        <3>1. CASE l = k
            BY <1>1, <3>1
        <3>2. CASE l # k
            BY <1>1, <3>2 DEF Funded, MayRestore
        <3> QED
            BY <3>1, <3>2
    <2>5. \A n, a, b \in Int : n <= a /\ a <= b => n <= b
        OBVIOUS
    <2> HIDE DEF Funds
    <2> QED
        BY <2>1, <2>2, <2>3, <2>4, <2>5
<1>2. ASSUME ~moderated', NEW l \in Calls
      PROVE  pc'[l] \notin {"rejudge", "delete"}
    BY <1>2 DEF Funded
<1> QED
    BY <1>1, <1>2 DEF Funded

LEMMA PointsFunded ==
    ASSUME TypeInv, TypeInv', Funded, ~moderated, NEW u \in Users, Funds(u) <= Funds(u)'
    PROVE  /\ points[u] <= Funds(u)'
           /\ \A n \in Nat : Funds(u) + n <= Funds(u)' => points[u] + n <= Funds(u)'
<1>1. points[u] \in Nat /\ Funds(u) \in Int /\ points[u] <= Funds(u)
    BY FundTypes DEF Funded, TypeInv, TypeOK
<1>2. (Funds(u) \in Int)'
    BY FundTypes, PTL
<1>3. \A p, f, f1 \in Int :
          /\ p <= f /\ f <= f1 => p <= f1
          /\ \A n \in Nat : p <= f /\ f + n <= f1 => p + n <= f1
    OBVIOUS
<1> HIDE DEF Funds
<1> QED
    BY <1>1, <1>2, <1>3

\* No evaluator has two grades on one contribution.
LEMMA GradesAtMostUsers ==
    ASSUME TypeInv, GradeInv, NEW c
    PROVE  Cardinality(On(c)) <= Cardinality(Users)
<1> DEFINE f == [g \in On(c) |-> g.by]
<1>1. f \in [On(c) -> Users]
    BY DEF On, TypeInv, TypeOK, Grades
<1>2. \A g, h \in On(c) : f[g] = f[h] => g = h
    BY DEF On, GradeInv, GradesKept
<1>3. f \in Injection(On(c), Users)
    BY <1>1, <1>2 DEF Injection, IsInjective
<1> QED
    BY <1>3, ConsensusAssumption, FS_Injection

\* A bonus that is paid is one more of the author's bonuses.
LEMMA BonusCounts ==
    ASSUME TypeInv, TypeInv', GradeInv', BonusBound', NEW c \in live', NEW u,
           bonuses' = [bonuses EXCEPT ![c] = bonuses[c] + 1]
    PROVE  /\ Bonuses(u) <= Bonuses(u)'
           /\ AuthorOf[c] = u => Bonuses(u) + 1 <= Bonuses(u)'
<1>1. PICK b, s, s1 : b = bonuses[c] + 1 /\ s = BonusSet(u) /\ s1 = BonusSet(u)'
    OBVIOUS
<1>2. c \in Contributions /\ bonuses[c] \in Nat /\ b \in Nat /\ b >= 1
    BY <1>1 DEF TypeInv, TypeOK
<1>3. bonuses'[c] = b /\ \A d \in Contributions \ {c} : bonuses'[d] = bonuses[d]
    BY <1>1, <1>2 DEF TypeInv, TypeOK
<1>4. b <= Cardinality(Users)
    <2>1. PICK n, m : n = Cardinality(On(c)') /\ m = Cardinality(Users)
        OBVIOUS
    <2>2. n <= m
        <3>1. (Cardinality(On(c)) <= Cardinality(Users))'
            BY GradesAtMostUsers, PTL
        <3> QED
            BY <2>1, <3>1
    <2>3. n \in Nat /\ m \in Nat /\ Enough \in Nat \ {0}
        <3>1. On(c)' \in SUBSET Grades
            BY DEF On, TypeInv, TypeOK
        <3> QED
            BY <2>1, <3>1, Finite, ConsensusAssumption, FS_CardinalityType
    <2>4. b + Enough - 1 <= n
        BY <1>2, <1>3, <2>1 DEF BonusBound
    <2> QED
        BY <1>2, <2>1, <2>2, <2>3, <2>4
<1>5. \A d \in Contributions : bonuses[d] <= bonuses'[d]
    BY <1>1, <1>2, <1>3 DEF TypeInv, TypeOK
<1>6. s \subseteq s1
    <2> SUFFICES ASSUME NEW p \in Contributions \X (1..Cardinality(Users)),
                        AuthorOf[p[1]] = u, p[2] <= bonuses[p[1]]
                 PROVE  p[2] <= bonuses'[p[1]]
        BY <1>1 DEF BonusSet
    <2>1. p[1] \in Contributions /\ p[2] \in Int
        OBVIOUS
    <2>2. bonuses[p[1]] \in Nat /\ bonuses'[p[1]] \in Nat
        BY <2>1 DEF TypeInv, TypeOK
    <2> QED
        BY <1>5, <2>1, <2>2
<1>7. /\ IsFiniteSet(s) /\ Cardinality(s) \in Nat
      /\ IsFiniteSet(s1) /\ Cardinality(s1) \in Nat
    <2>1. (IsFiniteSet(BonusSet(u)) /\ Cardinality(BonusSet(u)) \in Nat)'
        BY FiniteBonusSets, PTL
    <2> QED
        BY <1>1, <2>1, FiniteBonusSets
<1>8. Cardinality(s) <= Cardinality(s1)
    BY <1>6, <1>7, FS_Subset
<1>9. ASSUME AuthorOf[c] = u PROVE Cardinality(s) + 1 <= Cardinality(s1)
    <2>1. <<c, b>> \in s1
        <3>1. b \in 1..Cardinality(Users)
            BY <1>2, <1>4, ConsensusAssumption, FS_CardinalityType
        <3>2. <<c, b>> \in Contributions \X (1..Cardinality(Users)) /\ b <= bonuses'[c]
            BY <1>2, <1>3, <3>1
        <3> QED
            BY <1>1, <1>9, <3>2 DEF BonusSet
    <2>2. <<c, b>> \notin s
        BY <1>1, <1>2 DEF BonusSet
    <2>3. Cardinality(s) # Cardinality(s1)
        BY <1>6, <1>7, <2>1, <2>2, FS_Subset
    <2> QED
        BY <1>7, <1>8, <2>3
<1>10. Bonuses(u) = Cardinality(s) /\ Bonuses(u)' = Cardinality(s1)
    BY <1>1 DEF Bonuses, BonusSet
<1> QED
    BY <1>8, <1>9, <1>10

\* Steps that neither grade nor vote nor pay.
LEMMA QuietFunded ==
    ASSUME TypeInv, TypeInv', Funded, NEW k \in Calls, pc'[k] \notin {"award", "payvote"},
           \A l \in Calls \ {k} : pc'[l] = pc[l] /\ call'[l] = call[l],
           UNCHANGED <<grades, votes, bonuses, points>>, ~moderated' => ~moderated,
           ~moderated =>
               /\ pc'[k] \notin {"rejudge", "delete"}
               /\ \A u \in Users :
                      MayRestore(k)' /\ call'[k].by = u => call'[k].before <= Funds(u)
    PROVE  Funded'
<1>1. \A u \in Users : Funds(u) <= Funds(u)'
    BY QuietFunds
<1>2. ASSUME ~moderated, NEW u \in Users PROVE points'[u] <= Funds(u)'
    BY <1>1, <1>2, PointsFunded
<1> QED
    BY <1>1, <1>2, FundedStep

LEMMA GradingFunded ==
    ASSUME TypeInv, TypeInv', Funded, NEW k \in Calls,
           CheckGrade(k) \/ CheckVote(k) \/ InsertGrade(k) \/ CountGrades(k)
    PROVE  Funded'
<1>1. UNCHANGED <<grades, votes, points, bonuses, moderated>>
    BY InsertGradeMoves DEF CheckGrade, CheckVote, InsertGrade, CountGrades, tables, history
<1>2. \A l \in Calls \ {k} : pc'[l] = pc[l] /\ call'[l] = call[l]
    BY OthersStand DEF Step, Closing
<1>3. CASE CheckGrade(k)
    <2>1. PICK r \in CallRecord : Moves(k, "insert", r) /\ r.by \in Users /\ r.before = points[r.by]
        BY <1>3, CheckGradeMoves
    <2>2. pc'[k] = "insert" /\ call'[k] = r
        BY <2>1 DEF Moves, TypeInv, TypeOK
    <2>3. \A u \in Users : ~moderated => points[u] <= Funds(u)
        BY DEF Funded
    <2> QED
        BY <1>1, <1>2, <2>1, <2>2, <2>3, QuietFunded
<1>4. CASE CheckVote(k)
    <2>1. pc'[k] = "vote"
        BY <1>4 DEF CheckVote, Go, TypeInv, TypeOK
    <2> QED
        BY <1>1, <1>2, <2>1, QuietFunded DEF MayRestore
<1>5. CASE InsertGrade(k) \/ CountGrades(k)
    <2>1. MayRestore(k) /\ pc'[k] \in {"idle", "count", "decide"}
        BY <1>5 DEF InsertGrade, CountGrades, Finish, Go, MayRestore, TypeInv, TypeOK
    <2>2. MayRestore(k)' => call'[k].by = call[k].by /\ call'[k].before = call[k].before
        <3>1. CASE Finish(k)
            BY <3>1 DEF Finish, Go, MayRestore, TypeInv, TypeOK
        <3>2. CASE ~Finish(k)
            <4>1. PICK r \in CallRecord :
                      /\ Moves(k, "count", r) \/ Moves(k, "decide", r)
                      /\ r.by = call[k].by /\ r.before = call[k].before
                <5>1. CASE InsertGrade(k)
                    BY <3>2, <5>1, InsertGradeMoves
                <5>2. CASE CountGrades(k)
                    BY <5>2, CountGradesMoves
                <5> QED
                    BY <1>5, <5>1, <5>2
            <4> QED
                BY <4>1 DEF Moves, TypeInv, TypeOK
        <3> QED
            BY <3>1, <3>2
    <2>3. ~moderated => \A u \in Users :
              MayRestore(k)' /\ call'[k].by = u => call'[k].before <= Funds(u)
        BY <2>1, <2>2 DEF Funded
    <2> QED
        BY <1>1, <1>2, <2>1, <2>3, QuietFunded
<1> QED
    BY <1>3, <1>4, <1>5

LEMMA InsertVoteFunded ==
    ASSUME TypeInv, TypeInv', Funded, NEW k \in Calls, InsertVote(k)
    PROVE  Funded'
<1>1. /\ UNCHANGED <<grades, points, bonuses, moderated>> /\ call[k].by \in Users
      /\ pc[k] = "vote"
    BY InsertVoteMoves DEF history
<1>2. \A l \in Calls \ {k} : pc'[l] = pc[l] /\ call'[l] = call[l]
    BY OthersStand DEF Step, Closing
<1>3. CASE Finish(k) /\ UNCHANGED votes
    <2>1. pc'[k] = "idle"
        BY <1>3 DEF Finish, Go, TypeInv, TypeOK
    <2> QED
        BY <1>1, <1>2, <1>3, <2>1, QuietFunded DEF MayRestore
<1>4. CASE ~(Finish(k) /\ UNCHANGED votes)
    <2> DEFINE v == [by |-> call[k].by, of |-> call[k].of]
    <2>1. v \notin votes /\ votes' = votes \cup {v} /\ v.by = call[k].by
        BY <1>4, InsertVoteMoves
    <2>2. PICK r \in CallRecord : Moves(k, "payvote", r) /\ r.by = call[k].by
        BY <1>4, InsertVoteMoves
    <2>3. pc'[k] = "payvote" /\ call'[k].by = call[k].by
        BY <2>2 DEF Moves, TypeInv, TypeOK
    <2> HIDE DEF v
    <2>4. ASSUME NEW u \in Users PROVE Funds(u) <= Funds(u)'
        <3>1. GradesBy(u)' = GradesBy(u) /\ ToAward(u)' = ToAward(u)
            BY <1>1, <1>2, <2>3 DEF GradesBy, ToAward
        <3>2. Graded(u) <= Graded(u)'
            BY <3>1, GradedGrows
        <3>3. Bonuses(u) <= Bonuses(u)'
            <4>1. Bonuses(u)' = Bonuses(u)
                BY <1>1 DEF Bonuses
            <4> QED
                BY <4>1, FundTypes
        <3>4. Voted(u) <= Voted(u)'
            <4>1. CASE u # call[k].by
                <5>1. VotesBy(u)' = VotesBy(u) /\ ToPayVote(u)' = ToPayVote(u)
                    BY <1>1, <1>2, <2>1, <2>3, <4>1 DEF VotesBy, ToPayVote
                <5> QED
                    BY <5>1, VotedGrows
            <4>2. CASE u = call[k].by
                <5>1. /\ VotesBy(u)' = VotesBy(u) \cup {v} /\ v \notin VotesBy(u)
                      /\ ToPayVote(u)' = ToPayVote(u) \cup {k} /\ k \notin ToPayVote(u)
                    BY <1>1, <1>2, <2>1, <2>3, <4>2 DEF VotesBy, ToPayVote
                <5>2. /\ Cardinality(VotesBy(u)') = Cardinality(VotesBy(u)) + 1
                      /\ Cardinality(ToPayVote(u)') = Cardinality(ToPayVote(u)) + 1
                    BY <5>1, FinitePay, FS_AddElement
                <5>3. Cardinality(VotesBy(u)) \in Nat /\ Cardinality(ToPayVote(u)) \in Nat
                    BY FinitePay
                <5>4. Voted(u)' = Cardinality(VotesBy(u)') - Cardinality(ToPayVote(u)')
                    BY DEF Voted
                <5>5. Voted(u)' = Voted(u)
                    BY <5>2, <5>3, <5>4 DEF Voted
                <5> QED
                    BY <5>5, FundTypes
            <4> QED
                BY <4>1, <4>2
        <3> QED
            BY <3>2, <3>3, <3>4, FundsGrow
    <2>5. ASSUME ~moderated, NEW u \in Users PROVE points'[u] <= Funds(u)'
        BY <1>1, <2>4, <2>5, PointsFunded
    <2> QED
        BY <1>1, <1>2, <2>3, <2>4, <2>5, FundedStep DEF MayRestore
<1> QED
    BY <1>3, <1>4

\* Paying for a grade or a vote, or writing old points back.
LEMMA PayFunded ==
    ASSUME TypeInv, TypeInv', Funded, NEW k \in Calls,
           AwardGrade(k) \/ RestoreBefore(k) \/ PayVote(k)
    PROVE  Funded'
<1>1. /\ UNCHANGED <<grades, votes, bonuses, moderated>>
      /\ call[k].by \in Users /\ pc[k] \in {"award", "restore", "payvote"}
    BY DEF AwardGrade, RestoreBefore, PayVote, history, TypeInv, CallsKnow
<1>2. \A l \in Calls \ {k} : pc'[l] = pc[l] /\ call'[l] = call[l]
    BY OthersStand DEF Step, Closing
<1>3. \/ pc'[k] = "idle"
      \/ pc'[k] = "restore" /\ pc[k] = "award" /\ call' = call
    BY DEF AwardGrade, RestoreBefore, PayVote, Finish, Go, TypeInv, TypeOK
<1>4. ASSUME NEW u \in Users
      PROVE  /\ Funds(u) <= Funds(u)'
             /\ pc[k] = "award" /\ call[k].by = u => Funds(u) + GradePay <= Funds(u)'
             /\ pc[k] = "payvote" /\ call[k].by = u => Funds(u) + VotePay <= Funds(u)'
    BY <1>1, <1>2, <1>3, QuietFunds
<1>5. ASSUME ~moderated, NEW u \in Users PROVE points'[u] <= Funds(u)'
    <2>1. /\ Funds(u) <= Funds(u)' /\ points[u] <= Funds(u)'
          /\ \A n \in Nat : Funds(u) + n <= Funds(u)' => points[u] + n <= Funds(u)'
        BY <1>4, <1>5, PointsFunded
    <2>2. CASE u # call[k].by
        <3>1. points'[u] = points[u]
            BY <2>2 DEF AwardGrade, RestoreBefore, PayVote, TypeInv, TypeOK
        <3> QED
            BY <2>1, <3>1
    <2>3. CASE u = call[k].by /\ AwardGrade(k)
        <3>1. points'[u] = points[u] + GradePay /\ pc[k] = "award"
            BY <2>3 DEF AwardGrade, TypeInv, TypeOK
        <3> QED
            BY <1>4, <2>1, <2>3, <3>1, ConsensusAssumption
    <2>4. CASE u = call[k].by /\ PayVote(k)
        <3>1. points'[u] = points[u] + VotePay /\ pc[k] = "payvote"
            BY <2>4 DEF PayVote, TypeInv, TypeOK
        <3> QED
            BY <1>4, <2>1, <2>4, <3>1, ConsensusAssumption
    <2>5. CASE u = call[k].by /\ RestoreBefore(k)
        <3>1. points'[u] = call[k].before /\ call[k].before <= Funds(u)
            BY <1>5, <2>5 DEF RestoreBefore, Funded, MayRestore, TypeInv, TypeOK
        <3>2. call[k].before \in Int /\ Funds(u) \in Int
            BY FundTypes DEF TypeInv, TypeOK, CallRecord
        <3>3. (Funds(u) \in Int)'
            BY FundTypes, PTL
        <3>4. \A n, a, b \in Int : n <= a /\ a <= b => n <= b
            OBVIOUS
        <3> HIDE DEF Funds
        <3> QED
            BY <2>1, <3>1, <3>2, <3>3, <3>4
    <2> QED
        BY <2>2, <2>3, <2>4, <2>5
<1>6. ~moderated => \A u \in Users :
          MayRestore(k)' /\ call'[k].by = u => call'[k].before <= Funds(u)
    BY <1>3 DEF Funded, MayRestore
<1> QED
    BY <1>1, <1>2, <1>3, <1>4, <1>5, <1>6, FundedStep

LEMMA FailFunded ==
    ASSUME TypeInv, TypeInv', Funded, NEW k \in Calls, Fail(k)
    PROVE  Funded'
<1>1. UNCHANGED <<grades, votes, points, bonuses, moderated>>
    BY DEF Fail, tables
<1>2. \A l \in Calls \ {k} : pc'[l] = pc[l] /\ call'[l] = call[l]
    BY OthersStand DEF Step, Closing
<1>3. pc'[k] = "idle"
    BY DEF Fail, Finish, Go, TypeInv, TypeOK
<1> QED
    BY <1>1, <1>2, <1>3, QuietFunded DEF MayRestore

LEMMA ModerationFunded ==
    ASSUME TypeInv, Funded, Next,
           \/ \E k \in Calls : \/ ReadDisqualify(k) \/ ReadDelete(k)
                               \/ Rejudge(k) \/ Delete(k)
           \/ \E u \in Moderated : Ban(u) \/ Unban(u)
           \/ \E c \in live : Hide(c)
    PROVE  Funded'
<1>1. ASSUME moderated' = TRUE PROVE Funded'
    BY <1>1 DEF Funded
<1>2. ASSUME NEW k \in Calls, Rejudge(k) \/ Delete(k) PROVE Funded'
    <2>1. pc[k] \in {"rejudge", "delete"} /\ moderated' = moderated
        BY <1>2 DEF Rejudge, Delete, history
    <2> QED
        BY <2>1 DEF Funded
<1> QED
    BY <1>1, <1>2 DEF ReadDisqualify, ReadDelete, Ban, Unban, Hide, Act

LEMMA DecideFunded ==
    ASSUME TypeInv, TypeInv', GradeInv, GradeInv', BonusBound', Funded,
           NEW k \in Calls, Decide(k)
    PROVE  Funded'
<1>0. PICK c, own : c = call[k].of /\ own = OwnGrade(k)
    OBVIOUS
<1>1. /\ pc[k] = "decide" /\ call[k].by \in Users /\ c \in live' /\ c \in Contributions
      /\ UNCHANGED <<votes, moderated>> /\ grades' = grades \cup {own}
      /\ own \notin grades /\ own.by = call[k].by
    <2>1. own \notin On(c) /\ own.of = c /\ c \in live /\ own.by = call[k].by
        BY <1>0, DecideOn DEF OwnGrade
    <2> QED
        BY <1>0, <2>1, DecideMoves DEF On
<1>2. \A l \in Calls \ {k} : pc'[l] = pc[l] /\ call'[l] = call[l]
    BY OthersStand DEF Step, Closing
<1>3. /\ pc'[k] = "award" /\ call'[k].by = call[k].by
      /\ call'[k].before = call[k].before
    BY DecideMoves DEF Moves, TypeInv, TypeOK
<1>4. ASSUME NEW u \in Users PROVE Graded(u) <= Graded(u)' /\ Voted(u) <= Voted(u)'
    <2>1. VotesBy(u)' = VotesBy(u) /\ ToPayVote(u)' = ToPayVote(u)
        BY <1>1, <1>2, <1>3 DEF VotesBy, ToPayVote
    <2>2. Voted(u) <= Voted(u)'
        BY <2>1, VotedGrows
    <2>3. CASE u # call[k].by
        <3>1. GradesBy(u)' = GradesBy(u) /\ ToAward(u)' = ToAward(u)
            BY <1>1, <1>2, <1>3, <2>3 DEF GradesBy, ToAward
        <3> QED
            BY <2>2, <3>1, GradedGrows
    <2>4. CASE u = call[k].by
        <3>1. /\ GradesBy(u)' = GradesBy(u) \cup {own} /\ own \notin GradesBy(u)
              /\ ToAward(u)' = ToAward(u) \cup {k} /\ k \notin ToAward(u)
            BY <1>1, <1>2, <1>3, <2>4 DEF GradesBy, ToAward
        <3>2. /\ Cardinality(GradesBy(u)') = Cardinality(GradesBy(u)) + 1
              /\ Cardinality(ToAward(u)') = Cardinality(ToAward(u)) + 1
            BY <3>1, FinitePay, FS_AddElement
        <3>3. Cardinality(GradesBy(u)) \in Nat /\ Cardinality(ToAward(u)) \in Nat
            BY FinitePay
        <3>4. Graded(u)' = Cardinality(GradesBy(u)') - Cardinality(ToAward(u)')
            BY DEF Graded
        <3>5. Graded(u)' = Graded(u)
            BY <3>2, <3>3, <3>4 DEF Graded
        <3> QED
            BY <2>2, <3>5, FundTypes
    <2> QED
        BY <2>3, <2>4
<1>5. PICK a : a = AuthorOf[c] /\ a \in Users
    BY <1>1, ConsensusAssumption
<1>6. \/ /\ points' = [points EXCEPT ![a] = points[a] + Bonus]
         /\ bonuses' = [bonuses EXCEPT ![c] = bonuses[c] + 1]
      \/ UNCHANGED <<points, bonuses>>
    BY <1>0, <1>5, DecideMoves
<1>7. ASSUME NEW u \in Users
      PROVE  /\ Funds(u) <= Funds(u)'
             /\ ~moderated => points'[u] <= Funds(u)'
    <2>1. CASE UNCHANGED <<points, bonuses>>
        <3>1. Bonuses(u) <= Bonuses(u)'
            <4>1. Bonuses(u)' = Bonuses(u)
                BY <2>1 DEF Bonuses
            <4> QED
                BY <4>1, FundTypes
        <3>2. Funds(u) <= Funds(u)'
            BY <1>4, <3>1, FundsGrow
        <3> QED
            BY <2>1, <3>2, PointsFunded
    <2>2. CASE /\ points' = [points EXCEPT ![a] = points[a] + Bonus]
               /\ bonuses' = [bonuses EXCEPT ![c] = bonuses[c] + 1]
        <3>1. /\ Bonuses(u) <= Bonuses(u)'
              /\ a = u => Bonuses(u) + 1 <= Bonuses(u)'
            BY <1>1, <1>5, <2>2, BonusCounts
        <3>2. /\ Funds(u) <= Funds(u)'
              /\ a = u => Funds(u) + Bonus <= Funds(u)'
            BY <1>4, <3>1, FundsGrow
        <3>3. points'[u] = IF u = a THEN points[u] + Bonus ELSE points[u]
            BY <1>5, <2>2 DEF TypeInv, TypeOK
        <3>4. ASSUME ~moderated
              PROVE  /\ points[u] <= Funds(u)'
                     /\ \A n \in Nat : Funds(u) + n <= Funds(u)' => points[u] + n <= Funds(u)'
            BY <3>2, <3>4, PointsFunded
        <3> QED
            BY <3>2, <3>3, <3>4, ConsensusAssumption
    <2> QED
        BY <1>6, <2>1, <2>2
<1>8. ~moderated => \A u \in Users :
          MayRestore(k)' /\ call'[k].by = u => call'[k].before <= Funds(u)
    BY <1>1, <1>3 DEF Funded, MayRestore
<1> QED
    BY <1>1, <1>2, <1>3, <1>7, <1>8, FundedStep

LEMMA InitFunded == Init => Funded
<1> SUFFICES ASSUME Init PROVE Funded
    OBVIOUS
<1>1. TypeInv
    BY InitTypeInv
<1>2. ASSUME NEW u \in Users PROVE points[u] <= Funds(u)
    <2>1. /\ GradesBy(u) = {} /\ VotesBy(u) = {} /\ ToAward(u) = {} /\ ToPayVote(u) = {}
        BY DEF Init, GradesBy, VotesBy, ToAward, ToPayVote
    <2>2. Graded(u) = 0 /\ Voted(u) = 0
        BY <2>1, FS_EmptySet DEF Graded, Voted
    <2>3. Bonuses(u) \in Nat /\ Earned(u) \in Nat
        BY <1>1, FundTypes
    <2>4. Bonus * Bonuses(u) >= 0
        BY <2>3, ConsensusAssumption
    <2>5. Funds(u) >= Earned(u)
        BY <2>2, <2>3, <2>4, ConsensusAssumption DEF Funds
    <2>6. points[u] = 0 \/ points[u] = Earned(u)
        BY DEF Init
    <2>7. Funds(u) \in Int
        BY <1>1, FundTypes
    <2> HIDE DEF Funds, Earned
    <2> QED
        BY <2>3, <2>5, <2>6, <2>7
<1>3. \A k \in Calls : pc[k] = "idle"
    BY DEF Init
<1> QED
    BY <1>2, <1>3 DEF Funded, MayRestore

LEMMA NextFunded ==
    TypeInv /\ TypeInv' /\ GradeInv /\ GradeInv' /\ BonusBound' /\ Funded /\ [Next]_vars
        => Funded'
<1> SUFFICES ASSUME TypeInv, TypeInv', GradeInv, GradeInv', BonusBound', Funded, [Next]_vars
             PROVE  Funded'
    OBVIOUS
<1>1. CASE UNCHANGED vars
    BY <1>1 DEF vars, tables, people, history, Funded, MayRestore, Funds, Graded, Voted,
       Bonuses, GradesBy, VotesBy, ToAward, ToPayVote
<1>2. CASE Next
    BY <1>2, GradingFunded, InsertVoteFunded, PayFunded, FailFunded, ModerationFunded,
       DecideFunded
    DEF Next, GradeStep, VoteStep, ModerationStep
<1> QED
    BY <1>1, <1>2

\* As long as no administrator acts, nobody's points exceed their credited
\* contributions, committed grades and votes, and bonuses: not when a call
\* fails between the grade and its pay, nor when a tournament writes back the
\* points read before the grade (restorePoints in validate.ts), which were
\* within what had been paid for at that time and still are.
THEOREM PointsWithinWork == Spec => []NeverOverpaid
<1>1. TypeInv /\ Funded => NeverOverpaid
    <2> SUFFICES ASSUME TypeInv, Funded, ~moderated, NEW u \in Users
                 PROVE  points[u] <= Work(u) + Bonus * Bonuses(u)
        BY DEF NeverOverpaid
    <2>1. PICK g, v, w, x, b, e, p :
              /\ g = Cardinality(GradesBy(u)) /\ v = Cardinality(VotesBy(u))
              /\ w = Graded(u) /\ x = Voted(u) /\ b = Bonus * Bonuses(u) /\ e = Earned(u)
              /\ p = points[u]
        OBVIOUS
    <2>2. /\ g \in Nat /\ v \in Nat /\ w \in Int /\ x \in Int /\ b \in Int /\ e \in Int
          /\ p \in Nat /\ w <= g /\ x <= v
        BY <2>1, FinitePay, FundTypes, ConsensusAssumption DEF Graded, Voted, TypeInv, TypeOK
    <2>3. /\ GradePay * w <= GradePay * g /\ VotePay * x <= VotePay * v
          /\ GradePay \in Nat /\ VotePay \in Nat
        BY <2>2, Times, ConsensusAssumption
    <2>4. p <= e + GradePay * w + VotePay * x + b
        BY <2>1 DEF Funded, Funds
    <2>5. /\ GradePay * w \in Int /\ GradePay * g \in Int
          /\ VotePay * x \in Int /\ VotePay * v \in Int
        BY <2>2, <2>3
    <2>6. p <= e + GradePay * g + VotePay * v + b
        BY <2>2, <2>3, <2>4, <2>5
    <2>7. Work(u) = e + GradePay * g + VotePay * v
        BY <2>1 DEF Work, GradesBy, VotesBy
    <2> QED
        BY <2>1, <2>6, <2>7
<1>2. Init => BonusBound
    BY DEF Init, BonusBound
<1>3. Spec => []Funded
    BY <1>2, TypeInvHolds, GradeInvHolds, NextBonusBound, InitFunded, NextFunded, PTL DEF Spec
<1> QED
    BY <1>1, <1>3, TypeInvHolds, PTL
=============================================================================
