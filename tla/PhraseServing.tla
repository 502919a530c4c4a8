--------------------------- MODULE PhraseServing ---------------------------
(***************************************************************************)
(* How phrases are handed out: GET /phrases/next, POST /phrases/skip and   *)
(* POST /phrases/report over the tables phrase_locks, phrase_skips and     *)
(* phrase_reports (services/phrase-pipeline.ts, routes/phrases.ts), with   *)
(* what a submission and an administrator's deletion do to the same rows.  *)
(*                                                                         *)
(* The handlers hold no transaction: every statement commits by itself,    *)
(* the statements of other calls may come between any two, and a call      *)
(* whose next statement fails, or whose process dies, leaves behind what   *)
(* it has done so far (Fail).  Which of the eligible phrases is chosen     *)
(* (coverage, diversity, chance) is left open; the phrases are of one      *)
(* language and the filters that depend on neither locks nor reports       *)
(* (restricted, difficulty, validated before) let all of them through.     *)
(*                                                                         *)
(* X_Y is X with the fault Y, for the mutant runs.                         *)
(***************************************************************************)
EXTENDS Integers, FiniteSets

CONSTANTS
    Users, Admins, Phrases,
    Contributors,   \* the users who submit
    Assigned,       \* phrase_assignments, as pairs
    Calls,          \* calls that may be running at once
    SkipLimit,      \* MAX_SKIPS_PER_HOUR (20)
    ReportCap,      \* REPORTS_DAILY_PER_USER (5)
    Quorum,         \* REPORT_QUORUM (3)
    None            \* no user, no phrase

ASSUME ServingAssumption ==
    /\ IsFiniteSet(Users) /\ IsFiniteSet(Calls) /\ Calls # {}
    /\ Admins \subseteq Users /\ Contributors \subseteq Users
    /\ Assigned \subseteq Phrases \X Users
    /\ SkipLimit \in Nat \ {0} /\ ReportCap \in Nat /\ Quorum \in Nat \ {0}
    /\ None \notin Users \cup Phrases

VARIABLES
    locks,          \* phrase_locks, by its unique key (phrase, user, status)
    stale,          \* the 'locked' rows whose expires_at has passed
    saved,          \* contributions, by their unique key
    active,         \* phrases with is_active
    skipped,        \* phrase_skips, as pairs
    recent,         \* recent[u]: rows of phrase_skips of the last hour
    reports,        \* phrase_reports
    today,          \* today[u]: rows of phrase_reports of the last day
    served,         \* pairs that /next has answered with
    pc,             \* where each call is
    who, what,      \* its user and its phrase
    counted,        \* history: reports that a call has seen to the end, as pairs
    since           \* history: who locked a call's phrase since it chose it

tables  == <<locks, stale, saved, active, skipped, recent, reports, today>>
calls   == <<pc, who, what>>
history == <<counted, since>>
vars    == <<tables, served, calls, history>>

Pairs == Phrases \X Users
Statuses == {"locked", "completed", "expired"}
NextSteps == {"expire", "choose", "lock"}
SkipSteps == {"unlock", "log"}
ReportSteps == {"report", "reportHide", "reportKeep", "count", "hide", "release"}
PcValues == {"idle"} \cup NextSteps \cup SkipSteps \cup ReportSteps

Locked(p, u) == <<p, u, "locked">> \in locks
Live(p, u)   == Locked(p, u) /\ <<p, u>> \notin stale

Reporters(p) == {u \in Users : <<p, u>> \in reports}
Counted(p)   == {u \in Users : <<p, u>> \in counted}

Init ==
    /\ locks = {} /\ stale = {} /\ saved = {}
    /\ active = Phrases
    /\ skipped = {} /\ reports = {}
    /\ recent = [u \in Users |-> 0]
    /\ today = [u \in Users |-> 0]
    /\ served = {}
    /\ pc = [c \in Calls |-> "idle"]
    /\ who = [c \in Calls |-> None]
    /\ what = [c \in Calls |-> None]
    /\ counted = {}
    /\ since = [c \in Calls |-> {}]

Start(c, u, p, step) ==
    /\ pc[c] = "idle"
    /\ pc' = [pc EXCEPT ![c] = step]
    /\ who' = [who EXCEPT ![c] = u]
    /\ what' = [what EXCEPT ![c] = p]
    /\ UNCHANGED <<tables, served, history>>

At(c, step, p) == pc[c] = step /\ what[c] = p

Goto(c, step) == pc' = [pc EXCEPT ![c] = step] /\ UNCHANGED <<who, what>>

\* The call is answered and its locals are gone.
End(c) ==
    /\ pc' = [pc EXCEPT ![c] = "idle"]
    /\ who' = [who EXCEPT ![c] = None]
    /\ what' = [what EXCEPT ![c] = None]

----------------------------------------------------------------------------
(* GET /phrases/next.                                                      *)

Next1(c, u) == Start(c, u, None, "expire")

\* SELECT expire_stale_locks(): one UPDATE of every stale row.  It fails as a
\* whole, and the call with it, when a row would become a second 'expired'
\* one of its phrase and user.
ExpiryBreaks == \E s \in stale : <<s[1], s[2], "expired">> \in locks

Expire(c) ==
    /\ pc[c] = "expire"
    /\ \/ /\ ExpiryBreaks
          /\ End(c)
          /\ UNCHANGED <<locks, stale>>
       \/ /\ ~ExpiryBreaks
          /\ locks' = {l \in locks : ~(l[3] = "locked" /\ <<l[1], l[2]>> \in stale)}
                        \cup {<<s[1], s[2], "expired">> : s \in stale}
          /\ stale' = {}
          /\ Goto(c, "choose")
    /\ UNCHANGED <<saved, active, skipped, recent, reports, today, served, history>>

\* Active phrases the user has not contributed and nobody else holds a live
\* lock on.
Free_AnyLock(u) == {p \in active : <<p, u>> \notin saved}

Free(u) ==
    {p \in active : /\ <<p, u>> \notin saved
                    /\ \A w \in Users \ {u} : ~Live(p, w)}

\* The candidates: those assigned to the user, skipped or not; if there are
\* none, those neither skipped nor kept for somebody they are assigned to.
Candidates(u) ==
    LET mine == {p \in Free(u) : <<p, u>> \in Assigned}
    IN  IF mine # {} THEN mine
        ELSE {p \in Free(u) :
                /\ <<p, u>> \notin skipped
                /\ \A w \in Users \ {u} : <<p, w>> \in Assigned => <<p, w>> \in saved}

\* The first of the candidates is taken without a look at how many there are.
Choose_Unchecked(c) ==
    /\ pc[c] = "choose"
    /\ \E p \in IF Candidates(who[c]) = {} THEN {None} ELSE Candidates(who[c]) :
          /\ pc' = [pc EXCEPT ![c] = "lock"]
          /\ what' = [what EXCEPT ![c] = p]
          /\ UNCHANGED who
    /\ UNCHANGED <<tables, served, history>>

Choose(c) ==
    /\ pc[c] = "choose"
    /\ \/ /\ Candidates(who[c]) = {}
          /\ End(c)
       \/ \E p \in Candidates(who[c]) :
             /\ pc' = [pc EXCEPT ![c] = "lock"]
             /\ what' = [what EXCEPT ![c] = p]
             /\ UNCHANGED who
    /\ UNCHANGED <<tables, served, history>>

\* INSERT ... ON CONFLICT DO UPDATE: a lock of five minutes from now.  The
\* lock stays when a later statement fails and the phrase is not served.
Lock(c) ==
    /\ pc[c] = "lock"
    /\ locks' = locks \cup {<<what[c], who[c], "locked">>}
    /\ stale' = stale \ {<<what[c], who[c]>>}
    /\ served' \in {served, served \cup {<<what[c], who[c]>>}}
    /\ since' = [d \in Calls |->
                    IF d = c THEN {}
                    ELSE IF At(d, "lock", what[c]) THEN since[d] \cup {who[c]} ELSE since[d]]
    /\ End(c)
    /\ UNCHANGED <<saved, active, skipped, recent, reports, today, counted>>

----------------------------------------------------------------------------
(* POST /phrases/skip: releaseLock.                                        *)

Skip_OneMore(c, u, p) ==
    /\ <<p, u>> \in served
    /\ recent[u] <= SkipLimit
    /\ Start(c, u, p, "unlock")

\* The count of the last hour's skips comes first.
Skip(c, u, p) ==
    /\ <<p, u>> \in served
    /\ recent[u] < SkipLimit
    /\ Start(c, u, p, "unlock")

Unlock(c) ==
    /\ pc[c] = "unlock"
    /\ locks' = locks \ {<<what[c], who[c], "locked">>}
    /\ stale' = stale \ {<<what[c], who[c]>>}
    /\ Goto(c, "log")
    /\ UNCHANGED <<saved, active, skipped, recent, reports, today, served, history>>

\* phrase_skips has no unique key: a second skip of a phrase is a second row.
LogSkip(c) ==
    /\ pc[c] = "log"
    /\ skipped' = skipped \cup {<<what[c], who[c]>>}
    /\ recent' = [recent EXCEPT ![who[c]] = @ + 1]
    /\ End(c)
    /\ UNCHANGED <<locks, stale, saved, active, reports, today, served, history>>

\* POST /phrases/reset-skips deletes the rows, the last hour's included.
ResetSkips(u) ==
    /\ skipped' = {s \in skipped : s[2] # u}
    /\ recent' = [recent EXCEPT ![u] = 0]
    /\ UNCHANGED <<locks, stale, saved, active, reports, today, served, calls,
                   history>>

----------------------------------------------------------------------------
(* POST /phrases/report.                                                   *)

\* The reporters are counted, this one included, before the report is in.
Report_CountsFirst(c, u, p) ==
    /\ <<p, u>> \in served
    /\ u \in Admins \/ today[u] < ReportCap
    /\ Start(c, u, p, IF \/ u \in Admins /\ p \in active
                         \/ u \notin Admins /\ Cardinality(Reporters(p) \cup {u}) >= Quorum
                      THEN "reportHide" ELSE "reportKeep")

\* Users have a daily cap; for an administrator it matters whether the phrase
\* was active when the call began.
Report(c, u, p) ==
    /\ <<p, u>> \in served
    /\ u \in Admins \/ today[u] < ReportCap
    /\ Start(c, u, p, IF u \notin Admins THEN "report"
                      ELSE IF p \in active THEN "reportHide" ELSE "reportKeep")

\* INSERT ... ON CONFLICT DO NOTHING.
InsertReport(c) ==
    /\ pc[c] \in {"report", "reportHide", "reportKeep"}
    /\ reports' = reports \cup {<<what[c], who[c]>>}
    /\ today' = [today EXCEPT ![who[c]] =
                    IF <<what[c], who[c]>> \in reports THEN @ ELSE @ + 1]
    /\ Goto(c, CASE pc[c] = "report" -> "count"
                 [] pc[c] = "reportHide" -> "hide"
                 [] pc[c] = "reportKeep" -> "release")
    /\ UNCHANGED <<locks, stale, saved, active, skipped, recent, served, history>>

Count(c) ==
    /\ pc[c] = "count"
    /\ Goto(c, IF Cardinality(Reporters(what[c])) >= Quorum THEN "hide" ELSE "release")
    /\ UNCHANGED <<tables, served, history>>

Hide(c) ==
    /\ pc[c] = "hide"
    /\ active' = active \ {what[c]}
    /\ Goto(c, "release")
    /\ UNCHANGED <<locks, stale, saved, skipped, recent, reports, today,
                   served, history>>

\* releaseLock again: at the skip limit it does nothing.  What fails from here
\* on is caught and changes nothing for the report.
Release(c) ==
    /\ pc[c] = "release"
    /\ \/ recent[who[c]] < SkipLimit /\ Goto(c, "unlock")
       \/ recent[who[c]] >= SkipLimit /\ End(c)
    /\ counted' = counted \cup {<<what[c], who[c]>>}
    /\ UNCHANGED <<tables, served, since>>

----------------------------------------------------------------------------
(* A statement of any call fails, or the process dies: the statements that *)
(* the call has run are committed, the others are never run.               *)

Fail(c) ==
    /\ pc[c] # "idle"
    /\ End(c)
    /\ since' = [since EXCEPT ![c] = {}]
    /\ UNCHANGED <<tables, served, counted>>

----------------------------------------------------------------------------
(* What other handlers and time do to these tables.                        *)

\* The commit of a submission, from the page or out of an outbox hours later:
\* UPDATE phrase_locks SET status = 'completed' breaks the unique key, and
\* rolls the submission back, when there is a 'completed' row already.  (The
\* handler looked at is_active when it began, so any phrase once served may
\* get here.)
SubmitBreaks(p, u) == Locked(p, u) /\ <<p, u, "completed">> \in locks

Submit(u, p) ==
    /\ u \in Contributors
    /\ <<p, u>> \in served \ saved
    /\ ~SubmitBreaks(p, u)
    /\ saved' = saved \cup {<<p, u>>}
    /\ locks' = {l \in locks : l # <<p, u, "locked">>}
                  \cup (IF Locked(p, u) THEN {<<p, u, "completed">>} ELSE {})
    /\ stale' = stale \ {<<p, u>>}
    /\ UNCHANGED <<active, skipped, recent, reports, today, served, calls, history>>

\* POST /admin/x/contributions/delete.
DeleteContribution(u, p) ==
    /\ <<p, u>> \in saved
    /\ saved' = saved \ {<<p, u>>}
    /\ UNCHANGED <<locks, stale, active, skipped, recent, reports, today,
                   served, calls, history>>

\* expires_at passes.
Age(p, u) ==
    /\ Live(p, u)
    /\ stale' = stale \cup {<<p, u>>}
    /\ UNCHANGED <<locks, saved, active, skipped, recent, reports, today,
                   served, calls, history>>

\* The oldest skip leaves the last hour, the oldest report the last day.
SkipAges(u) ==
    /\ recent[u] > 0
    /\ recent' = [recent EXCEPT ![u] = @ - 1]
    /\ UNCHANGED <<locks, stale, saved, active, skipped, reports, today, served, calls,
                   history>>

ReportAges(u) ==
    /\ today[u] > 0
    /\ today' = [today EXCEPT ![u] = @ - 1]
    /\ UNCHANGED <<locks, stale, saved, active, skipped, recent, reports, served, calls,
                   history>>

CallStep(c) ==
    \/ Expire(c) \/ Choose(c) \/ Lock(c)
    \/ Unlock(c) \/ LogSkip(c)
    \/ InsertReport(c) \/ Count(c) \/ Hide(c) \/ Release(c)

Next ==
    \/ \E c \in Calls, u \in Users :
          \/ Next1(c, u)
          \/ \E p \in Phrases : Skip(c, u, p) \/ Report(c, u, p)
    \/ \E c \in Calls : CallStep(c) \/ Fail(c)
    \/ \E u \in Users, p \in Phrases :
          Submit(u, p) \/ DeleteContribution(u, p) \/ Age(p, u)
    \/ \E u \in Users : ResetSkips(u) \/ SkipAges(u) \/ ReportAges(u)

Spec == Init /\ [][Next]_vars

----------------------------------------------------------------------------
(* Properties.                                                             *)

\* Every variable keeps its type, and only locked rows get stale.
TypeOK ==
    /\ locks \subseteq Phrases \X Users \X Statuses
    /\ stale \subseteq {s \in Pairs : Locked(s[1], s[2])}
    /\ saved \subseteq Pairs /\ skipped \subseteq Pairs /\ reports \subseteq Pairs
    /\ served \subseteq Pairs
    /\ active \subseteq Phrases
    /\ recent \in [Users -> Nat] /\ today \in [Users -> Nat]
    /\ pc \in [Calls -> PcValues]
    /\ who \in [Calls -> Users \cup {None}]
    /\ what \in [Calls -> Phrases \cup {None}]
    /\ counted \subseteq Pairs
    /\ since \in [Calls -> SUBSET Users]

\* The quorum of reports takes effect: once enough users have reported a
\* phrase in calls that were not cut off between their INSERT and their hiding
\* it (phrases.ts:266-291), the phrase is hidden, in whatever order the
\* statements of these calls came and whichever others failed.  A report that
\* is cut off there counts for those that follow, but hides nothing itself.
QuorumHides ==
    \A p \in Phrases : Cardinality(Counted(p) \ Admins) >= Quorum => p \notin active

\* The limits on skips and reports are checked before the row is written, so
\* calls that run at once may pass the check together; but a user exceeds a
\* limit by no more than the number of calls that run at once, less one; with
\* one call at a time the limit is exact.
SkipsUnderway(u) == {c \in Calls : who[c] = u /\ pc[c] \in SkipSteps}
ReportsUnderway(u) == {c \in Calls : who[c] = u /\ pc[c] = "report"}

LimitsNearlyHold ==
    \A u \in Users :
        /\ recent[u] + Cardinality(SkipsUnderway(u)) < SkipLimit + Cardinality(Calls)
        /\ u \notin Admins =>
              today[u] + Cardinality(ReportsUnderway(u)) < ReportCap + Cardinality(Calls)

\* "The lock only prevents two users colliding on the same phrase"
\* (phrases.ts:497), and it does not prevent all of it: nothing ties the choice to
\* the lock.  But that gap is the only one: two users come to hold live locks
\* on one phrase only when the later of the two calls had already chosen it as
\* the earlier locked it, however many calls, failures and expiries there are.
OnlyRacesCollide ==
    [][\A p \in Phrases, u, w \in Users :
         (u # w /\ Live(p, u)' /\ Live(p, w)' /\ ~Live(p, u)) =>
            \E c \in Calls : At(c, "lock", p) /\ who[c] = u /\ w \in since[c]]_vars
=============================================================================
