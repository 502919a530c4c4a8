------------------------ MODULE ValidationConsensus ------------------------
(***************************************************************************)
(* Grading and consensus: POST /validate/submit and /validate/vote         *)
(* (routes/validate.ts), the consensus trigger on validations (migration   *)
(* v35), and the moderation calls that rewrite what it decided: ban,       *)
(* disqualify, hide, delete (routes/users.ts, migration v30).              *)
(*                                                                         *)
(* A call is a process; its actions are its statements, so that other      *)
(* calls come in between.  The INSERT of a grade is one transaction with   *)
(* its trigger: InsertGrade opens it, CountGrades reads what is committed, *)
(* Decide writes and commits.  The statements around it commit one by one. *)
(*                                                                         *)
(* Trust weights stay abstract: the weighted average of a set of marks is  *)
(* any value between the lowest and the highest of them.                   *)
(***************************************************************************)
EXTENDS Integers, FiniteSets

CONSTANTS
    Users, Contributions, Phrases,
    AuthorOf,      \* the contributor of each contribution
    PhraseOf,      \* the phrase each contribution translates
    Marks,         \* [text, audio] ratings that evaluators give
    Exempt,        \* profiles.eval_exempt: designated reviewers
    MinApproved,   \* validate_min_contributions
    Calls,         \* calls that may be under way at once
    Before,        \* [dq, hidden]: what administrators may have done before
    Moderated,     \* users administrators act on, and on whose work they act
    Enough,        \* grades for a clear verdict: 3
    Plenty,        \* grades after which there is always a verdict: 5
    GradePay, VotePay, Bonus, Credit,  \* 3, 2, 10 and 15 points
    FlashAllowed,  \* may an evaluation tournament run?
    MaxUpsets,     \* bound: administrators' calls and faults together
    None

ASSUME ConsensusAssumption ==
    /\ IsFiniteSet(Users) /\ IsFiniteSet(Contributions) /\ IsFiniteSet(Calls)
    /\ AuthorOf \in [Contributions -> Users]
    /\ PhraseOf \in [Contributions -> Phrases]
    /\ Marks \subseteq [text : 1..5, audio : 1..5]
    /\ [text |-> 1, audio |-> 1] \in Marks
    /\ Exempt \cup Moderated \subseteq Users
    /\ Before \subseteq [dq : SUBSET Users, hidden : SUBSET Contributions]
    /\ MinApproved \in Nat /\ MaxUpsets \in Nat
    /\ Enough \in Nat \ {0} /\ Plenty \in Nat /\ Plenty >= Enough
    /\ {GradePay, VotePay, Bonus, Credit} \subseteq Nat
    /\ FlashAllowed \in BOOLEAN
    /\ None \notin Users \cup Contributions

VARIABLES
    live,        \* contributions that are not deleted
    verdict,     \* contributions.text_status, audio_status, status
    grades,      \* committed rows of validations
    votes,       \* rows of votes
    hidden,      \* contributions.quarantined
    points,      \* profiles.points
    dq,          \* profiles.disqualified
    snapshot,    \* profiles.points_before_dq
    pc, call,    \* where each call is, and its arguments and locals
    bonuses,     \* history: bonuses the trigger paid for a contribution
    raced,       \* history: contributions whose transactions overlapped
    moderated,   \* history: has an administrator acted?
    upsets       \* history: administrators' calls and faults so far

tables  == <<live, verdict, grades, votes, hidden, points>>
people  == <<dq, snapshot>>
history == <<bonuses, raced, moderated, upsets>>
vars == <<tables, people, pc, call, history>>

Statuses == {"pending", "approved", "rejected"}
Verdicts == [text : Statuses, audio : Statuses \cup {"missing"}, all : Statuses]
Grades   == [by : Users, of : Contributions, mark : Marks]
PcValues == {"idle", "insert", "count", "decide", "award", "restore",
             "vote", "payvote", "rejudge", "delete"}

\* What a call knows.  seen: the grades its trigger counted; old: the verdict
\* it read; heard: the audio was visible; before: evPointsBefore.
CallRecord == [by : Users \cup {None}, of : Contributions \cup {None},
               mark : Marks, old : Verdicts, heard : BOOLEAN,
               seen : SUBSET Grades, before : Nat,
               cids : SUBSET Contributions, on : BOOLEAN]

Undecided == [text |-> "pending", audio |-> "pending", all |-> "pending"]
Reject    == [text |-> 1, audio |-> 1]
NoCall == [by |-> None, of |-> None, mark |-> Reject, old |-> Undecided,
           heard |-> FALSE, seen |-> {}, before |-> 0, cids |-> {}, on |-> FALSE]

Floor_Missing(n) == n

Floor(n) == IF n < 0 THEN 0 ELSE n   \* GREATEST(0, n)

----------------------------------------------------------------------------
(* The rules of the trigger                                                *)

\* Grades that count: those of evaluators who are not disqualified.
Counting(gs, out) == {g \in gs : g.by \notin out}

\* The statuses one field may get from n grades whose ratings are rs: below
\* 2.0 is a rejection, from clear/2 an approval, and with Plenty of grades the
\* bar is late/2.  Without ratings the average is NULL and decides nothing.
Verdict(n, rs, clear, late) ==
    LET reaches(x) == \E r \in rs : 2 * r >= x
        below(x)   == \E r \in rs : 2 * r < x
    IN  IF n < Enough \/ rs = {} THEN {"pending"}
        ELSE IF n < Plenty
        THEN {s \in Statuses : \/ s = "approved" /\ reaches(clear)
                               \/ s = "rejected" /\ below(4)
                               \/ s = "pending" /\ reaches(4) /\ below(clear)}
        ELSE {s \in Statuses : \/ s = "approved" /\ reaches(late)
                               \/ s = "rejected" /\ below(late)}

TextVerdict(n, gs)  == Verdict(n, {g.mark.text : g \in gs}, 7, 6)
AudioVerdict(n, gs) == Verdict(n, {g.mark.audio : g \in gs}, 6, 5)

Overall(t, a) ==
    IF t = "approved" /\ a = "approved" THEN "approved"
    ELSE IF "rejected" \in {t, a} THEN "rejected" ELSE "pending"

Judgements_Again(old, heard, gs) ==
    LET n == Cardinality(gs) IN
    {[text |-> t, audio |-> a, all |-> Overall(t, a)] :
        t \in TextVerdict(n, gs), a \in AudioVerdict(n, gs)}

\* From the verdict read before: a field decided once is not judged again.
Judgements(old, heard, gs) ==
    LET n == Cardinality(gs) IN
    {[text |-> t, audio |-> a, all |-> Overall(t, a)] :
        t \in IF old.text = "pending" THEN TextVerdict(n, gs) ELSE {old.text},
        a \in IF old.audio = "pending" /\ heard THEN AudioVerdict(n, gs)
              ELSE {old.audio}}

\* dq_recompute_contribution: from nothing; weightless grades are counted and
\* weigh nothing.
Rejudgements(heard, gs, weightless) ==
    LET n == Cardinality(gs)
        heavy == Counting(gs, weightless)
    IN  {[text |-> t, audio |-> a, all |-> Overall(t, a)] :
            t \in TextVerdict(n, heavy),
            a \in IF heard THEN AudioVerdict(n, heavy) ELSE {"missing"}}

On(c) == {g \in grades : g.of = c}

----------------------------------------------------------------------------
\* Points for the contributions themselves.
Earned(u) == Credit * Cardinality({c \in Contributions : AuthorOf[c] = u})

\* Before, users may have been disqualified or banned.
Init ==
    /\ live = Contributions
    /\ verdict = [c \in Contributions |-> Undecided]
    /\ grades = {} /\ votes = {}
    /\ \E b \in Before : dq = b.dq /\ hidden = b.hidden
    /\ points = [u \in Users |-> IF u \in dq THEN 0 ELSE Earned(u)]
    /\ snapshot = [u \in Users |-> IF u \in dq THEN Earned(u) ELSE None]
    /\ pc = [k \in Calls |-> "idle"]
    /\ call = [k \in Calls |-> NoCall]
    /\ bonuses = [c \in Contributions |-> 0]
    /\ raced = {}
    /\ moderated = FALSE /\ upsets = 0

Upset == upsets < MaxUpsets /\ upsets' = upsets + 1

Go(k, to)  == pc' = [pc EXCEPT ![k] = to]
Set(k, r)  == call' = [call EXCEPT ![k] = r]
Finish(k)  == Go(k, "idle") /\ Set(k, NoCall)

\* The transaction of a grade on c is open: inserted, not committed.
Open(c) == {k \in Calls : pc[k] \in {"count", "decide"} /\ call[k].of = c}

\* evalGate: reviewers, or enough approved contributions of one's own.
MayEvaluate(u) ==
    \/ u \in Exempt
    \/ Cardinality({c \in live \ hidden : AuthorOf[c] = u /\ verdict[c].all = "approved"})
          >= MinApproved

----------------------------------------------------------------------------
(* POST /validate/submit                                                   *)

\* The contribution exists, is pending, is not one's own, and is not graded
\* by the caller yet.  The points are read last before the INSERT.
CheckGrade(k) ==
    /\ pc[k] = "idle"
    /\ \E u \in Users, c \in live, m \in Marks :
        /\ MayEvaluate(u)
        /\ verdict[c].all = "pending"
        /\ AuthorOf[c] # u
        /\ \A g \in On(c) : g.by # u
        /\ Set(k, [NoCall EXCEPT !.by = u, !.of = c, !.mark = m, !.before = points[u]])
    /\ Go(k, "insert")
    /\ UNCHANGED <<tables, people, history>>

InsertGrade_NoUnique(k) ==
    /\ pc[k] = "insert"
    /\ call[k].of \in live
    /\ Go(k, "count")
    /\ Set(k, [call[k] EXCEPT !.old = verdict[call[k].of], !.heard = TRUE])
    /\ UNCHANGED <<tables, people, history>>

\* INSERT INTO validations, up to the first read of its trigger.  A second
\* row of one evaluator waits for the first to commit and is then refused; a
\* deleted contribution breaks the foreign key.
InsertGrade(k) ==
    LET c == call[k].of
        u == call[k].by
    IN
    /\ pc[k] = "insert"
    /\ \A l \in Open(c) : call[l].by # u
    /\ IF c \in live /\ \A g \in On(c) : g.by # u
       THEN /\ Go(k, "count")
            /\ Set(k, [call[k] EXCEPT !.old = verdict[c],
                                      !.heard = AuthorOf[c] \notin dq])
            /\ raced' = IF Open(c) = {} THEN raced ELSE raced \cup {c}
            /\ UNCHANGED <<bonuses, moderated, upsets>>
       ELSE Finish(k) /\ UNCHANGED history
    /\ UNCHANGED <<tables, people>>

CountGrades_Everybody(k) ==
    LET own == [by |-> call[k].by, of |-> call[k].of, mark |-> call[k].mark] IN
    /\ pc[k] = "count"
    /\ Go(k, "decide")
    /\ Set(k, [call[k] EXCEPT !.seen = On(call[k].of) \cup {own}])
    /\ UNCHANGED <<tables, people, history>>

\* The counts and averages of the trigger: committed grades and its own.
CountGrades(k) ==
    LET own == [by |-> call[k].by, of |-> call[k].of, mark |-> call[k].mark] IN
    /\ pc[k] = "count"
    /\ Go(k, "decide")
    /\ Set(k, [call[k] EXCEPT !.seen = Counting(On(call[k].of) \cup {own}, dq)])
    /\ UNCHANGED <<tables, people, history>>

BonusDue_StillPending(k, v) == call[k].old.all = "pending" /\ v.all # "rejected"

\* A bonus is due when the verdict the trigger read was pending.
BonusDue(k, v) ==
    /\ call[k].old.all = "pending" /\ v.all = "approved"
    /\ AuthorOf[call[k].of] \notin dq

\* The trigger writes the verdict, pays the author, and the INSERT commits.
Decide(k) ==
    LET c == call[k].of
        a == AuthorOf[c]
    IN
    /\ pc[k] = "decide"
    /\ \E v \in Judgements(call[k].old, call[k].heard, call[k].seen) :
        /\ verdict' = [verdict EXCEPT ![c] = v]
        /\ IF BonusDue(k, v)
           THEN /\ points' = [points EXCEPT ![a] = @ + Bonus]
                /\ bonuses' = [bonuses EXCEPT ![c] = @ + 1]
           ELSE UNCHANGED <<points, bonuses>>
    /\ grades' = grades \cup {[by |-> call[k].by, of |-> c, mark |-> call[k].mark]}
    /\ Go(k, "award")
    /\ Set(k, [NoCall EXCEPT !.by = call[k].by, !.before = call[k].before])
    /\ UNCHANGED <<live, votes, hidden, people, raced, moderated, upsets>>

\* Tag the grade in a running tournament and pay the evaluator.
AwardGrade(k) ==
    /\ pc[k] = "award"
    /\ points' = [points EXCEPT ![call[k].by] = @ + GradePay]
    /\ \/ Finish(k)
       \/ FlashAllowed /\ Go(k, "restore") /\ UNCHANGED call
    /\ UNCHANGED <<live, verdict, grades, votes, hidden, people, history>>

\* In a tournament the points read before the grade are written back.
RestoreBefore(k) ==
    /\ pc[k] = "restore"
    /\ points' = [points EXCEPT ![call[k].by] = call[k].before]
    /\ Finish(k)
    /\ UNCHANGED <<live, verdict, grades, votes, hidden, people, history>>

(* POST /validate/vote                                                     *)

CheckVote(k) ==
    /\ pc[k] = "idle"
    /\ \E u \in Users, c \in live :
        /\ MayEvaluate(u)
        /\ verdict[c].all = "approved"
        /\ \A d \in live : ~(AuthorOf[d] = u /\ PhraseOf[d] = PhraseOf[c])
        /\ \A v \in votes : ~(v.by = u /\ PhraseOf[v.of] = PhraseOf[c])
        /\ Set(k, [NoCall EXCEPT !.by = u, !.of = c])
    /\ Go(k, "vote")
    /\ UNCHANGED <<tables, people, history>>

\* INSERT INTO votes, kept apart by (voter_id, phrase_id); else it throws.
InsertVote(k) ==
    LET c == call[k].of
        u == call[k].by
    IN
    /\ pc[k] = "vote"
    /\ IF c \in live /\ \A v \in votes : ~(v.by = u /\ PhraseOf[v.of] = PhraseOf[c])
       THEN /\ votes' = votes \cup {[by |-> u, of |-> c]}
            /\ Go(k, "payvote")
            /\ Set(k, [NoCall EXCEPT !.by = u])
       ELSE Finish(k) /\ UNCHANGED votes
    /\ UNCHANGED <<live, verdict, grades, hidden, points, people, history>>

PayVote(k) ==
    /\ pc[k] = "payvote"
    /\ points' = [points EXCEPT ![call[k].by] = @ + VotePay]
    /\ Finish(k)
    /\ UNCHANGED <<live, verdict, grades, votes, hidden, people, history>>

\* A statement throws, or the worker dies: an open transaction rolls back.
Fail(k) ==
    /\ pc[k] # "idle"
    /\ Upset
    /\ Finish(k)
    /\ UNCHANGED <<tables, people, bonuses, raced, moderated>>

----------------------------------------------------------------------------
(* Moderation                                                              *)

Act == Upset /\ moderated' = TRUE

\* Points given back (sign 1) or clawed back (-1) from those who worked on cs.
Adjusted(cs, sign) ==
    [u \in Users |->
        LET n == Cardinality({g \in grades : g.by = u /\ g.of \in cs})
            w == Cardinality({v \in votes : v.by = u /\ v.of \in cs})
        IN  Floor(Floor(points[u] + sign * n * GradePay) + sign * w * VotePay)]

\* Ban and unban are keyed on the flag of each contribution.
Ban(u) ==
    LET cs == {c \in live \ hidden : AuthorOf[c] = u} IN
    /\ cs # {}
    /\ hidden' = hidden \cup cs
    /\ points' = Adjusted(cs, -1)
    /\ Act
    /\ UNCHANGED <<live, verdict, grades, votes, people, pc, call, bonuses, raced>>

Unban(u) ==
    LET cs == {c \in live \cap hidden : AuthorOf[c] = u} IN
    /\ cs # {}
    /\ hidden' = hidden \ cs
    /\ points' = Adjusted(cs, 1)
    /\ Act
    /\ UNCHANGED <<live, verdict, grades, votes, people, pc, call, bonuses, raced>>

Hide(c) ==
    /\ AuthorOf[c] \in Moderated
    /\ \E h \in BOOLEAN : hidden' = IF h THEN hidden \cup {c} ELSE hidden \ {c}
    /\ Act
    /\ UNCHANGED <<live, verdict, grades, votes, points, people, pc, call, bonuses, raced>>

\* The flag and the contributions the user has graded are read first.
ReadDisqualify(k) ==
    /\ pc[k] = "idle"
    /\ \E u \in Moderated :
        Set(k, [NoCall EXCEPT !.by = u, !.on = u \notin dq,
                              !.cids = {g.of : g \in {h \in grades : h.by = u}}])
    /\ Go(k, "rejudge") /\ Act
    /\ UNCHANGED <<tables, people, bonuses, raced>>

\* Contributions whose grading this re-judgement does not serialize with.
Overtaken(k, cs) ==
    LET u == call[k].by IN
    {c \in Contributions :
        \/ \E l \in Open(c) : c \in cs \/ call[l].by = u \/ AuthorOf[c] = u
        \/ \E g \in On(c) : g.by = u /\ c \notin cs}

\* The rest of the transaction: the user's points go to the snapshot and to
\* zero, or come back from it; contributions they graded are judged again,
\* without them or with them (their weight is still zero then).
Rejudge(k) ==
    LET u    == call[k].by
        out  == IF call[k].on THEN dq \cup {u} ELSE dq \ {u}
        cs   == call[k].cids \cap live
        zeroed == IF call[k].on THEN [points EXCEPT ![u] = 0] ELSE points
    IN
    /\ pc[k] = "rejudge"
    /\ dq' = out
    /\ \E new \in [cs -> UNION {Rejudgements(AuthorOf[c] \notin out, Counting(On(c), out), {u}) : c \in cs}] :
        LET gained(a) == {c \in cs : AuthorOf[c] = a /\ a \notin out
                               /\ verdict[c].all # "approved" /\ new[c].all = "approved"}
            lost(a)   == {c \in cs : AuthorOf[c] = a /\ a \notin out
                               /\ verdict[c].all = "approved" /\ new[c].all # "approved"}
            settled   == [a \in Users |-> Floor(zeroed[a]
                             + Bonus * (Cardinality(gained(a)) - Cardinality(lost(a))))]
        IN
        /\ \A c \in cs : new[c] \in Rejudgements(AuthorOf[c] \notin out, Counting(On(c), out), {u})
        /\ verdict' = [c \in Contributions |-> IF c \in cs THEN new[c] ELSE verdict[c]]
        /\ points' = IF call[k].on \/ snapshot[u] = None THEN settled
                     ELSE [settled EXCEPT ![u] = snapshot[u]]
    /\ snapshot' = [snapshot EXCEPT ![u] = IF call[k].on THEN points[u] ELSE None]
    /\ raced' = raced \cup Overtaken(k, cs)
    /\ Finish(k)
    /\ UNCHANGED <<live, grades, votes, hidden, bonuses, moderated, upsets>>

\* The rows to delete are read before the transaction.
ReadDelete(k) ==
    /\ pc[k] = "idle"
    /\ \E c \in live : /\ AuthorOf[c] \in Moderated
                      /\ Set(k, [NoCall EXCEPT !.of = c])
    /\ Go(k, "delete") /\ Act
    /\ UNCHANGED <<tables, people, bonuses, raced>>

\* Claw back the credit if asked to, delete the row; its grades and votes go
\* with it.  The DELETE waits for open transactions that reference the row.
Delete(k) ==
    LET c == call[k].of IN
    /\ pc[k] = "delete"
    /\ Open(c) = {}
    /\ \E deletePoints \in BOOLEAN :
        points' = IF deletePoints
                  THEN [points EXCEPT ![AuthorOf[c]] = Floor(@ - Credit)] ELSE points
    /\ live' = live \ {c}
    /\ grades' = {g \in grades : g.of # c}
    /\ votes' = {v \in votes : v.of # c}
    /\ hidden' = hidden \ {c}
    /\ Finish(k)
    /\ UNCHANGED <<verdict, people, history>>

----------------------------------------------------------------------------
GradeStep(k) ==
    \/ InsertGrade(k) \/ CountGrades(k) \/ Decide(k)
    \/ AwardGrade(k) \/ RestoreBefore(k)

VoteStep(k) == InsertVote(k) \/ PayVote(k)

ModerationStep(k) == Rejudge(k) \/ Delete(k)

Next ==
    \/ \E k \in Calls :
        \/ CheckGrade(k) \/ CheckVote(k) \/ ReadDisqualify(k) \/ ReadDelete(k)
        \/ GradeStep(k) \/ VoteStep(k) \/ ModerationStep(k) \/ Fail(k)
    \/ \E u \in Moderated : Ban(u) \/ Unban(u)
    \/ \E c \in live : Hide(c)

Spec == Init /\ [][Next]_vars

----------------------------------------------------------------------------
(* Properties                                                              *)

\* The tables, the calls and what they know keep their types.
TypeOK ==
    /\ live \subseteq Contributions /\ hidden \subseteq live
    /\ verdict \in [Contributions -> Verdicts]
    /\ grades \subseteq Grades
    /\ votes \subseteq [by : Users, of : Contributions]
    /\ points \in [Users -> Nat]
    /\ dq \subseteq Users
    /\ snapshot \in [Users -> Nat \cup {None}]
    /\ pc \in [Calls -> PcValues]
    /\ call \in [Calls -> CallRecord]
    /\ bonuses \in [Contributions -> Nat]
    /\ raced \subseteq Contributions
    /\ moderated \in BOOLEAN /\ upsets \in 0..MaxUpsets

\* However grades of one contribution overlap, the triggers that pay its author
\* are at most those of the grades from the one that completes the quorum on:
\* each counted a quorum of committed grades and its own.
BonusBound ==
    \A c \in live : bonuses[c] = 0 \/ bonuses[c] + Enough - 1 <= Cardinality(On(c))

\* A decided contribution has a quorum of grades that count, some of them good
\* enough (or bad enough) for the decision, unless transactions on it overlapped;
\* disqualifying an evaluator takes decisions back that needed them.
DecidedByQuorum ==
    \A c \in live \ raced :
        LET gs == {g \in On(c) : g.by \notin dq} IN
        /\ verdict[c].all # "pending" => Cardinality(gs) >= Enough
        /\ verdict[c].all = "approved" =>
              (\E g \in gs : g.mark.text >= 3) /\ (\E g \in gs : g.mark.audio >= 3)
        /\ verdict[c].all = "rejected" =>
              \E g \in gs : g.mark.text <= 2 \/ g.mark.audio <= 2

Work(u)  == Earned(u)
              + GradePay * Cardinality({g \in grades : g.by = u})
              + VotePay * Cardinality({v \in votes : v.by = u})
Bonuses(u) ==
    Cardinality({p \in Contributions \X (1..Cardinality(Users)) :
                    AuthorOf[p[1]] = u /\ p[2] <= bonuses[p[1]]})

\* As long as no administrator acts, nobody has more points than their credited
\* work, grades, votes and bonuses, whatever fails and whatever a tournament
\* writes back.
NeverOverpaid ==
    ~moderated => \A u \in Users : points[u] <= Work(u) + Bonus * Bonuses(u)

\* A decision is taken back only when an evaluator is disqualified or comes
\* back, unless transactions on the contribution overlapped.
DecisionStands ==
    [][\A c \in live' \ raced' :
          verdict[c].all # "pending" /\ verdict'[c].all # verdict[c].all
              => \E k \in Calls : pc[k] = "rejudge" /\ pc'[k] = "idle"]_vars
=============================================================================
