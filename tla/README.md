# TLA+ models of the MENAL platform

This directory holds TLA+ models of the repository's core logic, the TLC runs
that check them on small instances, and theorems about them that the TLA+ proof
system (TLAPS) checks for every value of the constants. `PROJECT.json` is the
index: the components of the system, the runs, the mutated definitions that show
each property can fail, the source lines of every definition, the hazards, and
the theorems.

All paths below are relative to the root of the repository (`src/`). Backend files
are named without `elson-main/backend/src/`.

1. The system
2. What is modelled: modules, state and actions against the code
3. The runs: what each of them asks, its bounds, what it shows
4. Fairness
5. The proofs
6. Where the code and its comments disagree
7. Abstractions and limits
8. The plan: what comes next

## 1. The system

Two programs share the repository.

*Elson* (`elson-main/`) collects Hassaniya translations. Contributors are shown a
source phrase, record it and type it, and earn points; others listen to the
result and grade it; enough grades approve or reject a contribution; an
administrator moderates. A Next.js frontend (`elson-main/src`) talks to an Express
backend (`elson-main/backend/src`), several worker processes under one primary,
over a PostgreSQL database whose triggers and functions (`elson-main/backend/sql`,
some eighty migrations) hold part of the logic.

*The SIEM* (`api/`) collects logs of the deployment, scores them and shows alerts:
a FastAPI service, an enrichment job, a realtime detector, an embedding service,
and a Next.js dashboard (`dashboard/`). `terraform/`, `.github/workflows` and
`workflows/` deploy both.

### 1.1 Inventory of Elson

| Component | State it keeps | Operations | What is hard, and what makes it correct | Module |
|---|---|---|---|---|
| Submission pipeline (`routes/phrases.ts` 343-725) | `contributions`, `profiles.points`, audio in the storage, `failed_submissions` | `POST /phrases/submit`: about twenty awaits, one transaction at the end | Replays and concurrent submissions of one work; failures half-way; flash tournaments that write points back. One credit per work, acknowledged work is stored, stored work has its audio | `ContributionServer` |
| Vault and recovery (`routes/phrases.ts` 318-341, `routes/users.ts` 331-386, migration v46) | `failed_submissions`, `failed/` in the storage | archive a rejected work; an administrator re-credits it | The audio moves before the row is claimed; two administrators; the author who submits again. Rejected work stays recoverable and is never paid twice | `ContributionServer` |
| Durable outbox (`app/contribute/page.tsx` 179-299, `lib/outbox-db.ts`) | in-memory queue per tab, one IndexedDB per browser | add, flush, retry, park, drain, load | Closed tabs, lost answers, two tabs, parked items. No recorded work is lost; all of it is delivered | `OutboxDelivery` |
| Phrase serving (`services/phrase-pipeline.ts`, `routes/phrases.ts` 94-304) | `phrase_locks`, `phrase_skips`, `phrase_reports`, `phrases.is_active`, assignments | next, skip, report, reset-skips, expiry | Handlers without transactions: check, then write. Nobody works on another's phrase; limits hold; a quorum of reports hides a phrase | `PhraseServing` |
| Validation and consensus (`routes/validate.ts`, migrations v30, v32, v35) | `validations`, votes, status of contributions | submit a grade, vote; triggers that approve, reject, pay | A trigger counts what is committed: concurrent grades. A bounded bonus; a decision has its quorum and stands; nobody is overpaid | `ValidationConsensus` |
| Moderation (`routes/users.ts` 1780-1959, 2900-2991) | bans, disqualifications with a snapshot of points, `times_contributed` | ban, unban, disqualify, re-qualify, hide, delete | Contributions judged again while grades arrive; "exact inverse" operations over state that moved on | `ValidationConsensus` |
| Authentication (`routes/auth.ts`, migration v39, `lib/api.ts`) | refresh tokens, `profiles.session_id`, the browser's cookie | login, refresh with rotation and its alarm, logout, reset, purge | Tabs that share a cookie, answers that overtake each other or are lost. A device keeps the session it began, and two devices never share one | `Sessions` |
| Sessions (`middleware/auth.ts`, `utils/cache.ts`, `server.ts`) | a cached profile per worker, messages between workers | admit, fill, invalidate through the primary, expire | A fill that overtakes an invalidation; a ban told to one worker. Stale entries have a reason and an end | `ProfileCache` |
| Credits (`utils/credit-active.ts`, `routes/credits.ts`) | metered active time of a plan | heartbeat, pause, resume, adjustment, block | Overlapping heartbeats write `last_ping_at` in any order. The charge is bounded; paused time is free | `CreditMeter` |
| Media annotation (`routes/media.ts`, `services/media-ingest.ts`) | ingest jobs, clips and their files, transcriptions | ingest, resume at boot, transcribe, clean, re-cut, delete | Workers crash while they cut; requests on clips that are being rewritten. A job that is done is complete, ends, and pays once | `MediaStudio` |
| Levels, streaks, badges (migration v5) | `user_streaks`, `user_badges`, levels | triggers on contributions and validations | Bonuses inside other transactions | |
| OTP and e-mail verification (`utils/otp.ts`) | codes and counters | issue, check | Counters are read, then written | |
| Schedule and competitions (`utils/schedule.ts`, `utils/competition.ts`) | slots, current phase | the gates, the automatic switch | A cached schedule across a switch | |
| Migrator (`scripts/migrate.ts`) | `schema_migrations` | run the pending files at boot | Two instances boot; a crash between a body and its record | |
| Community, news, reviews; export and evaluation | posts, reviews; export tokens | mostly one statement each | little | |
| Storage, mail, WhatsApp, audio processing | keys in a directory or a bucket | put, get, move | external | |

How they interact. The page fetches a phrase (serving), records it, puts the work in
the outbox and posts it (submission). The submission looks at contributions and
phrases, fills the vault when it turns a work down, and in its transaction writes the
contribution, the points and the status of the lock. The recover call of the admin
console turns a vault row into a contribution by the same tables. Grades are posted
by another page; their triggers change contributions and points. Moderation rewrites
all of these tables. Every request passes the authentication middleware, which
judges it on the profile cached by its worker; logins and bans make these entries
stale. Everything meets in PostgreSQL at READ COMMITTED, with no
other lock than its unique indexes and row locks; each handler of the backend is
an asynchronous function that may be overtaken at every `await`.

### 1.2 Inventory of the SIEM

| Component | State | Operations | What is hard | Module |
|---|---|---|---|---|
| API (`api/app`) | users with MFA secrets, alerts, verdicts, logs | login, MFA, list, verdict | verdicts over alerts that the jobs rewrite | |
| Realtime detector (`api/realtime-detector`) | none of its own; the log and the table `detections` | list the log, deduplicate, insert | executions that overlap or follow closely: duplicates | `Detections` |
| Enrich job (`api/enrich-job`) | none of its own; the tables `detections` and `alert_enrichment` | fetch a batch, embed, search, write | a full batch leaves the oldest waiting; answers that are incomplete | `Detections` |
| Embedding service (`api/ml-embed`), dashboards (`dashboard/`, `api/dashboard`) | none of interest | serve, render | out of scope | |
| Infrastructure (`terraform/`, `.github/workflows`, `workflows/`) | declarative | deploy | out of scope | |

## 2. What is modelled

| Module | Models |
|---|---|
| `ContributionLedger` | abstract: what submission and recovery promise together |
| `ContributionServer` | the submit handler, the vault and the recover call, statement by statement |
| `OutboxDelivery` | the outbox of the contribute page; extends `ContributionServer`, so it runs against the real handler |
| `PhraseServing` | next, skip, report, reset-skips and the expiry of locks, with what submissions and deletions do to the same rows |
| `ValidationConsensus` | grades and votes, the consensus trigger, and the moderation calls that rewrite what it decided |
| `Sessions` | login, refresh, logout, password resets and the purge of one account, with the cookies of its devices |
| `ProfileCache` | the profile cached by every worker, and who is admitted by it |
| `CreditMeter` | heartbeats, pauses, resumes and adjustments of one plan |
| `MediaStudio` | ingest jobs over crashing workers, and the requests on the clips they make |
| `Detections` | executions of the realtime detector and of the enrich job |
| `MC...` | the instances TLC checks, one for each of the modules above but the ledger |
| `ContributionProofs` | the theorems about `ContributionServer`, `ContributionLedger` and `OutboxDelivery` |
| `PhraseServingProofs`, `ValidationConsensusProofs`, `SessionsProofs`, `ProfileCacheProofs`, `CreditMeterProofs`, `MediaStudioProofs`, `DetectionsProofs` | the theorems about the module each is named after |

In every module a definition named `X_Y` is `X` with the plausible bug `Y`: a
dropped check, a missing write, a wrong order. It is used by no behaviour of the
model; substituting it for `X` must make a run fail, which is how each property is
shown to depend on the code.

The pattern of all modules is the same. A request (or a run, or an execution) is a
process with a program counter `pc` and a record `call` of its locals; each action
is what the code does from one `await` to the next, so the statements of others can
come in between. Variables marked *history* in the declarations belong to no
program; they remember what a property talks about and no guard reads them, but
for the counters that bound a run.

### 2.1 ContributionServer

A request is a process with a program counter. Each action is what the handler
does from one `await` to the next, so the statements of other requests can come in
between:

| `pc` | Action | Code (`routes/phrases.ts`) |
|---|---|---|
| `idle` | `Receive`, `Refuse` | the gates in front of the handler (343-368), then the body is parsed (370-399) |
| `saved?` | `CheckSaved` | the idempotent resubmit check (401-417) |
| `audio?` | `CheckAudio`, `Unreadable` | magic bytes, SHA-256 of the user's other recordings, size, duration (419-490) |
| `text?` | `CheckText` | lock (logged only) and text checks (496-515) |
| `duplicate?` | `CheckDuplicate` | the second look at contributions, a 409 (517-523) |
| `active?` | `CheckActive` | is the phrase still active (525-531) |
| `store` | `StoreAudio` | silence check and storage (533-592) |
| `begin` | `ReadPoints` | BEGIN and `pointsBefore` (599-608) |
| `insert` | `InsertRow` | the INSERT that two unique indexes guard, the tagging of flash tournaments (610-653) |
| `award` | `AwardAndCommit` | pay, write points back inside a flash tournament, COMMIT, answer (655-725) |
| any | `Fail` | a statement throws or the worker dies |

A rejected work passes through `VaultAndAnswer` (`vaultFailedSubmission`, 318-341) in
the same step: the audio moves under `failed/`, a vault row points at it, then the
client is told. `Blocked` is PostgreSQL's rule for unique indexes: an INSERT whose
key another transaction has inserted and not committed waits for that transaction.
The lock the phrase was served under is not needed by this handler and not relied
on: its absence is logged (496-506) and nothing more; what the transaction
guarantees comes from the indexes.

The recover call (`users.ts` 331-386) has the steps `RecoverRead`, `RecoverCheck`,
`RecoverMove` (the audio leaves `failed/`) and `RecoverCommit` (one transaction that
claims the row, inserts, pays), and `RecoverFail` anywhere.

Variables are the tables and the storage (`rows`, `points`, `vault`, `storage`,
`phraseActive`), the clock-driven `flashOn`, and the locals of the handlers (`pc`,
`work`, `before` = `pointsBefore`, `inFlash`, `recPc`, `recRow`). `reply` is what the
client hears.

### 2.2 ContributionLedger

Two variables: the set of (user, phrase) pairs that hold a contribution, and what
each user was paid. One action: a pair that holds none gets one and its user one
award. `ContributionServer` implements it under
`saved <- {Key(c.item) : c \in rows}`, `paid <- points`, outside flash tournaments
(inside one the code writes back points, finding 2 below).

### 2.3 OutboxDelivery

Per tab: `queue` (`outboxRef.current`), `attempts`, `flush` (where `flushOutbox` is:
`off`, top of the `loop`, `sent`, `removing`, `finally`), `flight` (the request it
awaits), `adding` (an `outboxAdd` still running). Per browser: `disk` (IndexedDB).
`recorded` and `persisted` remember what the user has done. Actions: `Tap` (put into
memory first, as `handleSubmit` does), `Persist`, `Send`, `Settle` (2xx and the final
4xx), `Removed`, `Retry` (any other status or no answer; the last attempt parks),
`StopLoop`, `Finally`, `Drain` (focus, online, the Retry button), `CloseTab`,
`OpenTab` (load what is on disk). The server's steps are those of
`ContributionServer`; a lost answer is `Retry` while the request runs on.

### 2.4 PhraseServing

The handlers hold no transaction, so each statement is an action: `Expire`
(`expire_stale_locks()`), `Choose` (the candidate queries and the ranking), `Lock`
(INSERT .. ON CONFLICT); `Skip` (the limit is counted), `Unlock`, `LogSkip`; `Report`
(cap, and for administrators whether the phrase is active), `InsertReport`, `Count`,
`Hide`, `Release` (`releaseLock`). Every statement commits by itself, so `Fail` may cut a
call off between any two of them: what was written stays, and the call is never
counted. Locks are rows by their unique key (phrase,
user, status); `stale` are those past `expires_at`. Counts over a sliding window
are counters (`recent`, `today`) that `SkipAges` and `ReportAges` let run down.
`Submit` and `DeleteContribution` are what the COMMIT of the submit transaction and
the admin's deletion do to these tables; `ContributionServer` takes the submission
itself apart.

History: `counted`, the reports whose call went past the hiding; `since`, for each call of
`/next`, who has locked its phrase since it chose it.

### 2.5 ValidationConsensus

| Actions | Code |
|---|---|
| `CheckGrade` | the gate `evalGate` and the reads of `POST /validate/submit` (`validate.ts` 34-51, 302-372) |
| `InsertGrade`, `CountGrades`, `Decide` | the INSERT (374-386) with the trigger of migration v35 (24-143) in one transaction: up to its first read, its counts and averages, its writes and the COMMIT |
| `AwardGrade`, `RestoreBefore` | tag and pay, write the points back inside an evaluation tournament (388-434), each committing by itself |
| `CheckVote`, `InsertVote`, `PayVote` | `POST /validate/vote` (470-524) |
| `Ban`, `Unban`, `Hide` | `users.ts` 1782-1864, 2909-2921 |
| `ReadDisqualify`, `Rejudge` | disqualify and re-qualify (1877-1959) with `dq_recompute_contribution` (migration v30, 188-274) |
| `ReadDelete`, `Delete` | 2935-2991 |
| `Fail` | a statement throws or the worker dies; what committed stays |

The tables are `live` (contributions), `verdict` (their three statuses), `grades`, `votes`,
`hidden`, `points`; `dq` and `snapshot` are the disqualification. A trigger sees the rows
that have committed and its own: two INSERTs on one contribution count without each
other. `Open(c)` are the INSERTs under way; a second grade of one evaluator waits there
for the first (the unique key), and so does a DELETE (the foreign key). `raced` remembers
the contributions on which such transactions overlapped. Trust weights are abstract:
the weighted average of marks is any value between the lowest and the highest of them.

### 2.6 Sessions

One account. The tabs of a device share its cookie (`jar`); a call runs one statement
at a time and then its answer travels: `Deliver` applies the cookie it sets to whatever
is in the jar by then, `Lose` drops it.

| Actions | Code |
|---|---|
| `Login`, `StartSession`, `IssueRefreshToken` | the password and `is_active` (`routes/auth.ts` 406-441), `startSession` with its revocation of all tokens (59-68), the new token |
| `Refresh`, `Lookup`, `Alarm`, `CheckUser`, `Rotate` | the session check, the token's row, the reuse alarm with its three hours of grace, the second look at the account, the rotation (`auth.ts` 500-601) |
| `AnswerWithoutCommit` | the answer leaves inside the transaction (576-601) and the COMMIT fails |
| `Logout`, `Revoke` | logout by the cookie's token |
| `ResetPassword` | the revocation on a reset |
| `Deactivate`, `Reactivate` | `users.is_active` (`users.ts` 1782-1864): the ban revokes the tokens, the block of the starter quota does not; the unban |
| `Purge`, `Expire` | the deletion of revoked rows by `server.ts`; a token's seven days are over, and `Lookup` finds it no more (`auth.ts` 517-527) |

A token is a device and a name; names nobody holds any more are used again, which keeps
the model finite without a bound on refreshes. `settled` remembers the session a device
has logged in to while its other tabs were quiet.

A refresh is turned down in three places: before the lookup (another session, or none), at
the lookup (no row) and at the second look at the account. Each of them clears the cookie,
whichever the jar holds when the answer arrives. `RefusedForAReason` names the
reasons, `KeepsSession` the events that may end a session.

### 2.7 ProfileCache

`store` is the entry `profile:<user>` of every worker. A request is judged on it (`Hit`),
or reads the profile (`Miss`) and stores what it read in a later step (`Store`): the gap
in `cache.ts` 30-31. A login commits (`Start`), drops the entry of its worker and tells the
primary (`Invalidate`), which tells every worker (`Relay`, `Receive`; `server.ts`), and hands
out its access token (`LoggedIn`). `Ban` flips `is_active` and drops one worker's entry only
(`users.ts:1861`). `Expire` is the end of an entry's ten seconds. `overtaken` remembers workers
that stored a profile read before a login that has happened since.

### 2.8 CreditMeter

The row of one plan (`exists`, `consumed`, `lastPing`, `paused`, `started`) and the flag
`blocked`. A heartbeat or an adjustment creates the row if need be (`Create`), reads it
(`Read`) and writes sums computed from what it read (`WritePing`, `WriteAdjust`), while
pauses and resumes are one upsert (`Upsert`); `credit-active.ts` 94-223. The clock counts
half seconds, so that `Math.round` is `Seconds`; `Cap` is the longest gap that is billed,
`Slots` the times at which a scheduled slot makes work free. History: `charged` (the half
seconds billed), `frozen` (those the meter was paused in), `rewound` (by how much a write that
was overtaken has set `last_ping_at` back).

### 2.9 MediaStudio

| Actions | Code |
|---|---|
| `Ingest`, `Begin`, `Cut`, `Conclude`, `StatusLost` | the upload routes and `runIngest` (`media-ingest.ts` 108-206), which nobody awaits |
| `Crash`, `NextWindow`, `Boot`, `Resume` | workers die with their runs; the first to boot in a window of five minutes resumes the open jobs one by one, deleting their clips first (213-237, `server.ts`) |
| `ResumeFails` | a statement of the resume loop outside its `try` fails (`media-ingest.ts` 229, 232) and ends the loop |
| `Honeypot` | a clip becomes a trap, or is one no more (`media.ts` 292-305) |
| `Submit`, `InsertWork`, `Pay` | `POST /submit` (`media.ts` 538-580) |
| `Grade` | the answer to a trap: graded once, paid each time (552-562) |
| `Clean`, `Listen`, `CleanRow` | `POST /clean`: the list is read once, then clip by clip (259-290) |
| `Recut`, `RecutParts`, `DropClip`, `Delete` | re-cutting and deletion (`media.ts` 336-372, `media-ingest.ts` 251-290) |
| `Fail` | a request stops anywhere |

`todo` is what a worker still has to resume, `staged` the uploaded files. History:
`contested` (jobs resumed while somebody still worked on them), `touched` (an administrator
changed their clips), `skipped`, `stranded` (a failure left them open and nobody took them up),
`wiped` (the file went, the row not yet), `sprung` (whose answer met a trap on which clip).

### 2.10 Detections

Executions of the realtime detector: `List` (the log), `Deduplicate` (the messages in the
table), `Insert` (`realtime-detector/main.py` 44-131); of the enrich job: `FetchEnriched`,
`FetchPending`, `Embed`, `Write` (`enrich-job/main.py` 33-77, 181-280). `Block` and `Answers` are the
firewall's log and the embedding service, modelled from how the jobs use them. `met`
remembers which executions overlapped; `late` is how long after its time a detection was
compared with the table.

## 3. The runs

Few runs, each with a question of its own. Values of the constants are in the
`.cfg` files; model values are used for everything the code only compares.

| Run | Asks | Instance | Shows |
|---|---|---|---|
| `server_safety` | can retries, races, failures and recovery pay twice, clash, lose acknowledged work, leave a contribution without audio or lose vaulted audio? | one user, two phrases, two items with the same bytes (the second with an invalid text), three requests, one recover call; failures anywhere, failing vault, flash tournaments, phrases hidden | `TypeOK`, `NeverOverpaid`, `NoTwoClash`, `AckMeansSaved`, `RowsHaveAudio`, `VaultAudioSurvives` |
| `server_recover` | is rejected work kept and recoverable, is every request answered, does the server implement the ledger? | two requests, two recover calls, same bytes, no failures, fairness | `OpenRowsRecoverable`, `RejectMeansVaulted`, `LedgerSpec`, `EveryRequestAnswered` |
| `outbox_safety` | can two tabs, a crash, a lost answer or a refusal lose recorded work? | two tabs, two recordings of one phrase, the second silent, three requests, one fault, one recover call | `NoWorkLost` |
| `outbox_delivered` | is everything delivered in the end? | one tab, two recordings, three requests, one fault, items parked after one failure, fairness | `Delivered` |
| `serving_shared` | does the quorum take effect and do the limits nearly hold when calls overlap and fail? | two users, two calls at once, one phrase, limits 1, quorum 2, failing calls | `TypeOK`, `QuorumHides`, `LimitsNearlyHold` |
| `serving_locks` | when may two users hold live locks on one phrase? | a contributor with an assigned phrase and an administrator, two calls at once, quorum 1, submissions, deletions and failing calls | `OnlyRacesCollide` |
| `consensus` | what can overlapping grades, failures, tournaments and moderation do to decisions and points? | an author, three evaluators, one contribution, two calls at once, quorum 2, good and bad marks, one administrator's call or fault after one (or none) in the initial state | `TypeOK`, `BonusBound`, `DecidedByQuorum`, `NeverOverpaid`, `DecisionStands` |
| `sessions` | can tabs that refresh at once, lost answers, alarms, resets, bans and purges end a session, or pass it on? | one device with two tabs, one with one, two calls at once, two logins, one reset, ban, purge, expiry or fault | `TypeOK`, `KeepsSession`, `RefusedForAReason`, `SessionsStayApart` |
| `profile_cache` | when may a worker admit by a superseded session, and does it end? | two clients, two workers, two logins, one ban and unban, fairness | `TypeOK`, `StaleOnlyIfOvertaken`, `OutsidersSignedOut` |
| `credit_meter` | how much can overlapping calls overcharge? | two calls at once, three half seconds, a budget of 2, gifts and fines of 1, a free slot | `TypeOK`, `ChargeIsBounded`, `PausedTimeIsFree` |
| `media` | do crashes and resumes leave jobs open or incomplete, and do requests on clips break them? | two workers, one job, one segment, three clips, two requests on clips, one crash, lost status or change of a trap, failing resumes, fairness | `TypeOK`, `DoneIsComplete`, `ClipHasFile`, `PaidOnce`, `JobsEnd` |
| `detections` | do executions that follow or overlap each other duplicate, mix up or overlook? | two executions of each job, two messages, two requests, three instants | `TypeOK`, `DetectionsAreSpaced`, `EnrichedOnce`, `OnlyOlderOnesWait` |

Why the bounds are enough.

- *Server, outbox.* Three requests over two items contain every pair of relations between
  requests that the code distinguishes: a replay of the same item, a different item
  that clashes through the phrase or through the bytes, and one more request that
  changes the tables between two statements of another. Two users never share a key of
  `contributions`, so a second user adds interleavings and no interaction (and the
  theorems hold for any number of users). Two recover calls suffice for the race for one
  vault row. In the outbox, one fault with items parked at their first failure makes the
  case "parked at the head, fresh behind it", which three attempts and three faults
  reach too.
- *Serving.* For the limits, the interesting case is a user at the limit with a second
  call under way, so 1 stands for 20 and 5; a quorum of 2 with two users stands for 3
  with three, the last two of which count while each other's report arrives. For the locks,
two calls of two users are a race, and an administrator's own lock beside an assigned phrase
is every way to a lock; the limits play no part there.
- *Consensus.* With a quorum of 2 and three evaluators there is a grade before the
  quorum, one that completes it and one that arrives afterwards or at the same time,
  and two calls make every pair of statements overlap. `Plenty` = 3 reaches the
  branch that always decides. What two administrators' calls after each other do is
  reached with one of them in the initial state (`Before`): a disqualified evaluator who
  comes back, a hidden contribution that is shown again.
- *Sessions.* Two tabs of one device are the smallest race for a cookie, the third tab is
  the other device that takes the session over. Two logins give a session that
  supersedes another. A ban, an expiry and the others share one budget (`MaxUpsets`), so
  each meets every interleaving of two calls; the unban is free. `Names` must exceed twice
  the number of tabs, as the assumption says: no token is ever missing.
- *Profile cache.* One worker where the login runs and one that must hear of it; two
  logins, so that a fill can be overtaken by the second; a ban and its unban.
- *Credit meter.* Two calls overlap at every pair of statements; three half seconds hold a
  billed gap (`Cap` = 2), an unbilled one and a rounding. The theorems hold for all values.
- *Media.* Two workers are the one that crashes (or still runs) and the one that resumes;
  one segment and three clip rows hold a clip of the first attempt, of the second and a
  part cut by an administrator; two requests on clips race with each other and with a
  resume. A resume that fails needs no bound: it ends a loop that only a boot after a crash
  starts. A clip that turns into a trap between two answers of one user, or is one for the
  first of them, is within the budget they share with crashes.
- *Detections.* Two executions follow each other or overlap; a window of 2 and a
  lookback of 1 in three instants have rows inside, at the border and outside. The batch
  of 2 can be full and leave one detection waiting.

Bounds, by name: `Requests` (each identity is used once, so also the number of HTTP
requests of a run), `Recoverers`, `Calls`, `MaxCalls` in `Sessions` (at once; they may be used
again), `MaxCalls` in `MediaStudio` (in all), `MaxFaults`, `MaxUpsets` (faults, the
administrators' calls in `ValidationConsensus`, resets, bans, purges and expiries in `Sessions`,
changes of traps in `MediaStudio`), `MaxLogins`, `MaxBans`, `MaxAdjusts`, `MaxTime`,
`MaxRequests`, `MaxClips`, `SkipLimit`, `ReportCap`, `Quorum`, `MaxAttempts`. No state constraint
is used.

Symmetry is declared over requests, tabs, calls, users, executions and URLs only in runs
without liveness properties, never over administrators and contributors together, and in
`consensus` over the two evaluators that no constant and no initial state distinguishes.

Deadlock. `ContributionServer`, `PhraseServing`, `Sessions` and `CreditMeter` are checked for
it: the server ends in `Idle`, where every request is answered and every recover call
finished, and nowhere else; the others go on for ever. The remaining runs switch the check off,
because their requests, logins, clips or executions are used up at some point and
nothing is left to do; that calls do not hang there is what the liveness properties of
`outbox_delivered`, `profile_cache` and `media` say.

## 4. Fairness

`Fairness` of `ContributionServer` is weak fairness of the steps of each request and of
each recover call. The handlers are asynchronous functions of one Node process, which
keeps running a function whose promise is settled, and PostgreSQL answers a statement
unless it waits for another transaction, which is the waiting the model keeps. A
statement that throws is `Fail`, which is possible and never assumed. Nothing is
assumed of who sends what, of the administrators starting recover calls, of the clock or
of the hiding of phrases.

`OutboxFairness` adds weak fairness of the page's own steps (the same argument, in the
browser), of `Drain` (the user looks at the page again, or the network returns: the
page listens for both, and shows a Retry button) and of `OpenTab` (the user comes back).
Without the last two nothing can be delivered from a parked queue or a closed tab, and
the code does not pretend otherwise. No fairness is assumed of `Tap` and of faults, whose
number is bounded: delivery needs the network to work in the end.

`Fairness` of `ProfileCache` is weak fairness of the answers of handlers, of the messages
between processes, of the expiry of entries (the clock) and of requests: a client that
holds an access token goes on using it, as the pages' timers do (`Navigation.tsx:331`). Logins and bans are
never assumed.

`Fairness` of `MediaStudio` is weak fairness of the steps of a run and of the resume loop, which
Node keeps running while the worker is up. Boots are not assumed: a job may stay
stranded for ever, and `JobsEnd` says so.

`PhraseServing`, `ValidationConsensus`, `Sessions`, `CreditMeter` and `Detections` state no
liveness: whether a contributor is served, a work is graded or a browser refreshes depends on
what people do, and in the detector and the enrich job an execution may always fail.

## 5. The proofs

Every safety invariant and every action property that the runs check is a theorem of its
specification, for every value of the constants; the four liveness properties are not (end
of this section). The proofs are checked by TLAPS 1.4.5 with Z3, Zenon and LS4:
`ContributionProofs` (1497 obligations), `PhraseServingProofs` (753),
`ValidationConsensusProofs` (2226), `SessionsProofs` (1507), `ProfileCacheProofs` (184),
`CreditMeterProofs` (626), `MediaStudioProofs` (1915) and `DetectionsProofs` (1037).

They assume what the named ASSUMEs of the modules say of the constants (`ItemAssumption`,
`ParameterAssumption`, `OutboxAssumption`, `ServingAssumption`, `ConsensusAssumption`,
`SessionsAssumption`, `ProfileCacheAssumption`, `CreditMeterAssumption`,
`MediaStudioAssumption`, `DetectionsAssumption`), which TLC evaluates in the runs. What
these say for the sake of the counting arguments holds of any installation: finitely many
users, contributions, calls, tabs and segments, and in `Sessions` more names for tokens than
the tabs can hold at one time. No value of a bound is assumed: `MaxCalls`, `MaxUpsets`,
`MaxFaults` and the others are any numbers. Four theorems have a hypothesis of their own,
shown in the table; each is a constant of the model that the corresponding run sets the same
way.

| Theorem | States | Inductive invariant |
|---|---|---|
| **`ContributionProofs`** | | |
| `TypeCorrect` | `[]TypeOK` | `TypeInv`: `TypeOK`, and a request or recover call that is under way knows its item or vault row (`WorkKnown`) |
| `PaidAtMostOnce`, `OneContributionEach` | `[]NeverOverpaid`, `[]NoTwoClash` | `CreditInv` |
| `AcknowledgedIsSaved` | `[]AckMeansSaved` | `AckInv`; contributions are never deleted by these handlers |
| `ContributionsHaveAudio` | `[]RowsHaveAudio` | `StoredInv`: who is about to insert has its file in the storage, and only keys under `failed/` are ever removed |
| `VaultedAudioIsKept` | `[]VaultAudioSurvives` | itself: files under a user's prefix are never removed, and the one action that removes a file under `failed/` puts it there first |
| `RejectedIsVaulted` | `[]RejectMeansVaulted` if archiving works (`~VaultMayFail`) | itself, by what a step leaves to the vault (`VaultKept`) |
| `OpenRowsCanBeRecovered` | `[]OpenRowsRecoverable` if nothing fails half-way (`~FaultsAllowed`) | itself |
| `ImplementsLedger` | the server implements `ContributionLedger` outside flash tournaments (`~FlashAllowed`) | `CreditInv` and `NoFlash` |
| `OutboxRefinesServer` | `OutboxSpec => Spec`: tabs and server together implement the server's specification | `OutboxInv` |
| `NoWorkIsLost` | `[]NoWorkLost` behind any number of tabs (`~VaultMayFail`) | `OutboxInv`, `RejectMeansVaulted` and itself |
| **`PhraseServingProofs`** | | |
| `TypeCorrect` | `[]TypeOK` | `TypeInv`: `TypeOK` and `CallsKnow` |
| `QuorumTakesEffect` | `[]QuorumHides` | `PastInv`: a report is inserted before it is counted, so the last to insert of those that are not cut off counts them all |
| `LimitsHoldUpToCalls` | `[]LimitsNearlyHold` | itself, split by user and by kind of call: a call that passed its check pays for its row by being counted as under way |
| `CollisionsAreRaces` | `OnlyRacesCollide` | an action property, from `OthersLockedSince` |
| **`ValidationConsensusProofs`** | | |
| `TypeCorrect` | `[]TypeOK` | `TypeInv`: `TypeOK` and `CallsKnow` |
| `BonusesBounded` | `[]BonusBound` | itself with `GradeInv` |
| `DecisionsRestOnGrades` | `[]DecidedByQuorum` | `DecidedInv` with `GradeInv` |
| `DecisionsStandUntilRejudged` | `DecisionStands` | an action property, from `DecidedInv` |
| `PointsWithinWork` | `[]NeverOverpaid` | `Funded` with `GradeInv` |
| **`SessionsProofs`** | | |
| `TypeCorrect` | `[]TypeOK` | `TypeInv`: `TypeOK`, and calls and cookies hold tokens of their own device (`CallsFit`, `JarsFit`) |
| `SessionsKeptApart` | `[]SessionsStayApart` | `Owned` with `SidsKnown` |
| `RefusedOnlyForAReason` | `RefusedForAReason` | an action property, from `ReadHolds` |
| `SessionIsKept` | `[]KeepsSession` | `SettledLives` |
| **`ProfileCacheProofs`** | | |
| `TypeCorrect` | `[]TypeOK` | `TypeInv`: `TypeOK`, and a call under way knows its worker, what it read or its session (`CallsKnow`) |
| `StaleEntriesExplained` | `[]StaleOnlyIfOvertaken` | itself: the news passes from the login to the primary to every worker without a gap |
| **`CreditMeterProofs`** | | |
| `TypeCorrect` | `[]TypeOK`: the sum stays within the budget | `TypeInv`: `TypeOK` and what calls know |
| `ChargeBounded` | `[]ChargeIsBounded` | `ChargeInv` |
| `PausedIsFree` | `[]PausedTimeIsFree` | `RunningInv` and `BilledInv` |
| **`MediaStudioProofs`** | | |
| `TypeCorrect` | `[]TypeOK` | `TypeInv`: `TypeOK`, ids of clips are unique and below the next one, a request on a clip knows it |
| `ClipsHaveFiles` | `[]ClipHasFile` | itself |
| `TranscriptionsPaidOnce` | `[]PaidOnce` | `PayInv`, but for the answers that met a trap |
| `DoneJobsAreComplete` | `[]DoneIsComplete` | `JobInv` |
| **`DetectionsProofs`** | | |
| `TypeCorrect` | `[]TypeOK` | `MetTypes`, `DetInv` and `EnrInv` |
| `DetectionsSpaced` | `[]DetectionsAreSpaced` | `DetInv` |
| `DetectionsEnrichedOnce` | `[]EnrichedOnce` | `EnrInv` |
| `OlderOnesWait` | `OnlyOlderOnesWait` | an action property, from `EnrInv` |

Most of these properties are not inductive: they speak of what is committed, and what breaks
them is a call that has read and not yet written. What the strengthenings say of such calls
is the argument why the code is right.

*Submission.* `NeverOverpaid` does not say that the transaction about to commit will add a
row. `CreditInv` adds that a request at `award` has an item that clashes with no row
(`AwardFresh`), that no two requests at `award` clash with each other (`AwardExclusive`),
and that the points a request has read are owed to its author still (`SnapshotOwed`). The
first two are what the unique indexes give, as `Saved`, `Heard` and `Blocked` in
`InsertRow`; the third is why even the write-back inside a flash tournament can only take
points away. Each step that neither adds a row nor touches points is `Quiet` and keeps all
of it by one lemma; the three that do (`InsertRow`, `AwardAndCommit`, `RecoverCommit`) have
a lemma each.

*Vault.* That a row stays recoverable needs that the recover call that has moved the audio
either finishes the row or finds its work stored: that is where `~FaultsAllowed` is used,
and only there (finding 3 below is what happens otherwise). That a rejection is vaulted
needs that the archive does not fail (finding 7), and nothing else.

*Outbox.* To the server a tab is one more source of requests. `ServerBehind` shows that each
step of the composition is one of the server or leaves it alone, so `AcknowledgedIsSaved`
and `RejectedIsVaulted` hold behind the tabs. `OutboxInv` adds that a tab that gives an item
up has the answer for the request it names (`TabsKnow`), and `NeverTakenBack` that the
server takes back no contribution, vault row or answer. The order of the queue, the attempts
and the other tabs play no part: no order of sending, parking or removing can lose work.

*Serving.* Reports arrive while others are counted, and any call may stop between its
statements. `PastInv` therefore speaks of the calls that are past the hiding (`Past`): when they
are a quorum, the last of them to insert has counted all of them, for a report is never
withdrawn and a phrase never shown again. `OthersLockedSince` says of a call about to lock that
whoever holds a live lock on its phrase has taken it since the choice: the candidates leave out
phrases others hold, and a lock becomes live in one step only.

*Consensus.* A trigger decides by what it read, and grades commit meanwhile. `GradesKept`
says that an evaluator has one grade of a contribution, committed or under way, and that
what a trigger has seen is among what is committed and its own. For `DecidedByQuorum` an
INSERT that nothing overlapped is `Alone`: it has seen exactly the grades that count now,
and no verdict has changed since it began. `Funded` bounds the points by what has been
*paid*, not by what exists: grades whose award is outstanding are subtracted, and so every
snapshot that a tournament may write back is bounded too.

*Sessions.* `Owned` says that a session belongs to one device, by the rows of its tokens and
by the logins about to insert one; a new token is held by nobody because there are more
names than cookies and calls (`NewTokenIsFresh`). For `KeepsSession` it is not enough that
the jar holds a token of the session: `SettledLives` says that every call of the device's
tabs is `Harmless`, wherever it is, for each of them may be about to replace the cookie. A
deactivation makes calls harmful that may clear the cookie long after the account is active
again, so it unsettles every device; so does a row that vanishes, for the devices that use it.

*Credit meter.* The bound on what is consumed says nothing of calls that have read and not
yet written, and these may write long after the row has changed. `ReadAllowed`, a part of
`ChargeInv`, says that what a call has read was within the bound of its time and that
`last_ping_at`, plus all by which it was ever set back, has not fallen since; a late write
is then paid for by the amount it sets the ping back. `BilledInv` says where the paused half
seconds can lie: before the last ping of a running meter, and before what a heartbeat read
or after it arrived.

*Media.* `PayInv`: a payment under way belongs to a transcription that is stored, or whose
clip is gone for good, and no other payment is under way for it. It says nothing of the pairs of
user and clip in `sprung`, and these cannot reach a pair that is not: an answer that meets a
trap is in `sprung` before it is paid. `JobInv` follows a job
through its lives: before it begins it has no clips (`NotBegun`), at most one worker has it
in a run or on its list (`OneWorker`), and the clips of a run are those of the segments it
no longer has to cut, but for those it skipped (`RunFits`). A crash, a resume that ends early or
a resume of another job leaves all of this alone (`Leaves`).

*Detections.* An execution that did not overlap an earlier one has seen all its rows:
`Spaced` and `Fetched` say this of the messages, and of the enriched ids, an execution holds
between its reads and its write. `TakesNewest` says what the batch leaves out, and
`Answered` that texts and ids keep the same order.

Only model-checked: `EveryRequestAnswered`, `Delivered`, `OutsidersSignedOut` and `JobsEnd`.
They hold under fairness, whose ENABLED is out of the prover's reach. They stay with the
runs `server_recover`, `outbox_delivered`, `profile_cache` and `media`.

## 6. Where the code and its comments disagree

What follows was found while the code was modelled. The models follow the code, and
the passing properties are stated as strongly as the code allows. None of
these has a run of its own.

Submission, outbox, serving:

1. `phrases.ts:406`, `:518`. A replay that passes the first look at contributions before the
   other request commits, and looks again after it, is answered 409 and vaulted
   although the work is saved. The client drops its copy with an error; no work is
   lost, but a row of the vault is left that can never be recovered.
2. `phrases.ts:602`, `:692`. Inside a flash tournament the points read at the start of the
   transaction are written back, over an award another request was paid meanwhile, so
   the tournament is not "net zero". It takes points away and never adds any: `NeverOverpaid`.
3. `users.ts:351`, migration v46. The recover call moves the audio before the transaction
   that claims the row; when it fails in between, the row stays open and points at
   nothing. The file itself is never lost: `VaultAudioSurvives`.
4. `page.tsx:247-250`. A parked item at the head and a fresh one behind it make the
   `finally` block call `flushOutbox` again and again without an await, until the stack is
   exhausted. Nothing is lost: the next `Drain` resets the attempts, and `Delivered` holds.
5. `init.sql:213-223`, `phrases.ts:499`. `expire_stale_locks()` turns a stale row into a second
   `expired` row of the same phrase and user, which the unique key forbids; the
   statement, and every call of `/next`, then fails.
6. `phrases.ts:699-702`, `users.ts:2930`. After a deletion the author may be served the phrase
   again, and cannot submit it: the lock would be `completed` twice.
7. `phrases.ts:340`. `vaultFailedSubmission` swallows its errors and the rejection goes out:
   `RejectMeansVaulted` fails when archiving may fail (`VaultMayFail = TRUE`).
8. `phrase-pipeline.ts:131`, `:296`. Two calls choose a phrase before either locks it, and the
   INSERT of a lock conflicts with one's own locks only: both then hold a live lock, though
   "the lock only prevents two users colliding on the same phrase" (`phrases.ts:497`).
   `OnlyRacesCollide` says that there is no other way to it.
9. `phrases.ts:266`, `:282`, `:287`. A report, its count and the hiding commit one by one. When the
   call whose report completes the quorum stops after the first, the phrase stays
   visible until one more report of it counts them; `QuorumHides` speaks of the calls that
   were not cut off.

Consensus and moderation:

10. Migration v35:117. Grades inserted at once each see the verdict pending, and each pays the
    approval bonus; `BonusBound` says how many can. At 106 a trigger may write "pending" over
    the verdict of one that committed meanwhile; hence `raced` in two properties.
11. `users.ts:1905`. Two overlapping disqualifications of one user both pass the check; the
    second overwrites the snapshot of points with the zero of the first. At 1920-1926 a
    re-qualification judges contributions while the user's trust is still zero, and then
    writes the snapshot over what consensus paid meanwhile, though the comment (1875) says
    "exact inverse".
12. `users.ts:1828`, `:1786`. A ban claws points back to zero at most; the unban gives back the full
    amount. A contribution hidden by hand (2914) and shown again by an unban (1806) pays points
    that were never clawed back.
13. `users.ts:2943`. Two deletions of one contribution both claw its points back.
14. `validate.ts:422`, `:433`. The grade commits before the award: a failure in between leaves the
    evaluator unpaid for good. The write-back of a tournament restores points read before the
    grade, over whatever was paid since.
15. Migration v30:226. A disqualified author's audio is hidden, and a contribution of theirs that
    is judged again meanwhile gets the audio verdict "missing", which the trigger (v35:84) never
    judges again when the audio is back. The function ignores `eval_exclude`.
16. Migration v5:47. The streak trigger reads `NEW.user_id` also on `validations`, which has
    `validator_id` only: on the schema of the repository every INSERT of a grade would raise. The
    model assumes that the trigger works.

Sessions, credits:

17. `server.ts:795`, `auth.ts:545`. The purge deletes revoked rows of the current session too; a
    browser that still presents one (its answer was lost) is logged out, whatever the grace.
18. `auth.ts:576-601`. The answer is sent inside the transaction; when the COMMIT fails the
    browser holds a cookie without a row.
19. `lib/api.ts`. The late answer of a refresh replaces or clears the cookie a login of another tab
    has set meanwhile. Hence `Alone` in what `KeepsSession` promises.
20. `auth.ts:908`. A password reset says "force re-login everywhere", but keeps the session id: a
    token of the current session that is presented after it is rotated, not refused.
21. `auth.ts:53-57`, `cache.ts:30-31`. A fill that began before a login re-installs the old session after
    the invalidation: there is a stale window of up to ten seconds.
22. `credit-active.ts:130`, `:217`. Overlapping heartbeats set `last_ping_at` back and bill time twice; an
    adjustment and a heartbeat lose each other's sum. `ChargeIsBounded` says how far this goes.

Media, SIEM:

23. `media-ingest.ts:216-237`. A worker forked again more than five minutes after the boot resumes jobs that
    other workers still run (`contested`); one that crashes in the same window as its boot leaves
    its jobs stranded until another boots in a later one. At 229 and 232 a statement that fails
    is outside the `try`: it ends the loop, and the jobs still listed stay open (`stranded`) though
    nothing crashed.
24. `media.ts:264`. "We never touch clips already transcribed" holds for the list read at the start; a
    transcription that arrives while clips are listened to is deleted with its clip.
25. `media-ingest.ts:251-290`. A re-cut whose second half fails loses that footage; re-cuts and
    resumes delete transcriptions that were paid.
26. `media.ts:552-562`. The answer to a trapped clip is graded once (ON CONFLICT DO NOTHING) and paid
    each time it is sent, also to somebody already paid for the clip's transcription;
    "Idempotent: a single transcription per (clip,user)" (564) holds of the other clips only.
    Hence `sprung` in `PaidOnce`.
27. `realtime-detector/main.py:87-96`. The message of rule R2 contains the number of requests, so each
    new number is a new detection. At 102 the table is read some time after the log, so a slow
    execution may repeat a detection: `DetectionsAreSpaced` allows for that time.
28. `enrich-job/main.py:77`. The newest detections are taken first; under load the oldest leave the
    lookback without ever being enriched.

## 7. Abstractions and limits

- A work item stands for its phrase, its author, the identity of its bytes and at most
  one defect. Texts, tags, sizes and durations appear only as that defect.
- Points are what submission and recovery pay, in `ValidationConsensus` what grades, votes
  and bonuses pay on top. The streak bonus of the trigger on `contributions` (migration v5)
  is left out, and with it the row lock it takes on the profile at the INSERT on the
  first contribution of a day: the model lets two transactions of a user go on where the
  database would make one wait, so it has more behaviours than the code and the safety
  properties carry over. As each transaction takes its unique keys before that row lock,
  the lock adds no cycle of waiting.
- An award and its COMMIT are one step: the row lock on the profile is held between them.
- The sidecar file, the tags, the audit log and `times_contributed` are left out;
  their failures inside the transaction are `Fail`, and so is the refusal of a second
  `completed` lock, which `PhraseServing` models.
- A worker that dies loses the locals of its requests (`Fail`, `RecoverFail`); what was
  moved or stored stays. Only `MediaStudio` has state that a restart reads.
- In `ContributionServer` request identities are used once. A replay is another request with
  the same item. Hidden phrases stay hidden: no code shows one again.
- In `OutboxDelivery` items are loaded in any fixed order, backoff is a nondeterministic
  delay of `Drain`, and a new recording is not made while the last one is still being
  written to disk (the page shows the next phrase only afterwards).
- In `PhraseServing` the score of the candidates is left open: any candidate may be
  chosen. Phrases are of one language; the import of phrases and the assignment of phrases
  to users are constants. A skip or report needs a phrase the user was once served, as
  the pages do; the routes themselves do not ask.
- In `ValidationConsensus` the reads of a gate are one step. `eval_exclude`, quality points,
  `POST /validate/correct`, `/next` and the role of the caller are left out. A re-judgement is
  one step, as it is one transaction whose rows are locked one by one; its floor at zero
  is applied once.
- In `Sessions` the access token and what it admits are left to `ProfileCache`, and the three hours of
  grace are a choice: a rotated token may be within them or not. The expiry of a token is its
  row's; that the browser drops the cookie at that time is not modelled, and such a cookie is
  turned down as one without a row. No route deletes an account, and the secret of the tokens
  stays the same. One-time codes and registration are left out.
- In `ProfileCache` a client that is turned down loses its access token at once; that it may be
  refreshed instead is `Sessions`. A worker does not crash between a login's commit and its
  invalidation.
- In `CreditMeter` one plan is active; hourly samples, plan boundaries and the statistics are
  left out.
- In `MediaStudio` the status `cutting` stands for `downloading` too; what a trap's answer scores,
  chunked upload, the locks of `/next`, drafts, statistics and the deletion of datasets are left
  out. A boot whose list of open jobs cannot be read is as one that finds the window claimed.
- In `Detections` all requests come from one address; the SQL rules of the batch, the technique
  search, the mock guard and the metrics are left out.
- One database: no replicas, no READ COMMITTED anomalies inside one statement beyond
  those of the unique indexes, and of triggers that count what has committed.

Not modelled, and why: levels and badges (monotone counters inside other transactions),
the migrator (its races depend on each SQL file being repeatable, which is data), the
schedule (read-only decisions but for one guarded UPDATE), community, news, reviews,
export and the SIEM API (one statement per request). Not to be modelled: rendering, mail,
WhatsApp, ffmpeg, embeddings, Terraform (external or without state of their own).

## 8. The plan

Proofs:

1. The abstract specifications still to be stated and refined: what grading promises (a
   decision and its bonus as one step, when nothing overlaps), and what a session is (one
   holder, from login to login), each with its mapping and its step-by-step proof.
2. The outbox's queue: that an item whose copy is on disk is in the queue of every tab that
   has loaded it until it is settled, which `Delivered` needs and `NoWorkLost` does not.
3. The step lemmas behind the liveness properties, without fairness: that a request not
   answered always has a step or waits for one that has (`EveryRequestAnswered`).

Modelling left: one-time codes (counters read, then written), the automatic switch of the
schedule against its cached phase, `validate/correct`, the serving of clips with its locks, and
the life of credit plans around the meter.

## Running

    tlc -workers 2 -config ServerSafety.cfg MCContributionServer
    tlapm ContributionProofs.tla

from this directory, and likewise for the other configurations: `Server*` with
`MCContributionServer`, `Outbox*` with `MCOutboxDelivery`, `Serving*` with `MCPhraseServing`,
`Consensus` with `MCValidationConsensus`, `Sessions` with `MCSessions`, `ProfileCache` with
`MCProfileCache`, `CreditMeter` with `MCCreditMeter`, `Media` with `MCMediaStudio`, `Detections`
with `MCDetections`. The longest runs are `Consensus` (2.2 million states), `Sessions` (2.1
million) and `CreditMeter` (4.9 million), two to three minutes each with two workers; the
largest proof module, `ValidationConsensusProofs`, takes three minutes from nothing, the others two at most.
