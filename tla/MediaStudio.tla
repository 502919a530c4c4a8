---------------------------- MODULE MediaStudio ----------------------------
(***************************************************************************)
(* Media annotation: an upload or a link is cut into clips in the          *)
(* background (services/media-ingest.ts), contributors transcribe the      *)
(* clips for points and administrators re-cut, clean and delete them       *)
(* (routes/media.ts).                                                      *)
(*                                                                         *)
(* Several workers; each may crash, with the runs it hosts, and is forked  *)
(* again.  A worker that boots may resume the jobs it finds open, if it is *)
(* the first to boot in a window of five minutes.                          *)
(***************************************************************************)
EXTENDS Integers, FiniteSets, FiniteSetsExt

CONSTANTS
    Workers, Jobs, Users,
    Calls,       \* requests on clips that may be under way at once
    Segments,    \* numbers of the segments the cutting finds
    MaxClips,    \* bound: rows of video_clips ever inserted
    MaxUpsets,   \* bound: crashes, lost status updates and changes of traps
    MaxCalls     \* bound: requests on clips

ASSUME MediaStudioAssumption ==
    /\ IsFiniteSet(Segments) /\ Segments \subseteq Nat /\ Segments # {}
    /\ MaxClips \in Nat /\ MaxUpsets \in Nat /\ MaxCalls \in Nat

VARIABLES
    up,           \* workers that run
    claimed,      \* 'ingest_resume_boot' of competition_config holds this window
    job,          \* rows of media_ingest_jobs
    staged,       \* jobs whose uploaded file is in the staging directory
    run,          \* run[w][j]: runIngest of j on w
    todo,         \* todo[w]: jobs that resumeOrphanedIngests of w has still to do
    clips, nextId, \* rows of video_clips
    files,        \* clips whose file is in the storage
    work,         \* rows of media_transcriptions: <<user, clip id>>
    traps,        \* rows of media_honeypots: clip ids
    pc, call,     \* requests on clips
    paid,         \* history: payments per user and clip
    sprung,       \* history: whose answer met a trap: <<user, clip id>>
    contested,    \* history: jobs resumed while somebody still ran or resumed them
    touched,      \* history: jobs of which an administrator changed clips
    skipped,      \* history: segments the last run of a job skipped
    stranded,     \* history: jobs a failure left open, that nobody took up yet
    wiped,        \* history: clips of which /clean has removed the file
    upsets, calls

ingest == <<up, claimed, job, staged, run, todo, contested, skipped, stranded, upsets>>
studio == <<clips, nextId, files, work, traps, pc, call, paid, sprung, touched,
            wiped, calls>>
vars   == <<ingest, studio>>

Open     == {"pending", "cutting"}   \* "cutting" stands for "downloading" too
Ended    == {"done", "error"}
RunPcs   == {"none", "begin", "cut"}
CallPcs  == {"idle", "insert", "trap", "pay", "clean", "cleanrow", "recut", "droprow"}
ClipIds  == 1..MaxClips
JobRow   == [status : Open \cup Ended \cup {"none"}, url : BOOLEAN,
             path : BOOLEAN, made : Nat]
Clip     == [id : ClipIds, job : Jobs, seg : Segments]
RunState == [pc : RunPcs, left : SUBSET Segments, made : Nat, resumed : BOOLEAN]
Entry    == [job : Jobs, path : BOOLEAN]
CallState == [user : Users \cup {"none"}, clip : ClipIds \cup {0},
              row : SUBSET Clip, batch : SUBSET ClipIds]

NoRun    == [pc |-> "none", left |-> {}, made |-> 0, resumed |-> FALSE]
NoCall   == [user |-> "none", clip |-> 0, row |-> {}, batch |-> {}]

Init ==
    /\ up = Workers /\ claimed = TRUE
    /\ job = [j \in Jobs |-> [status |-> "none", url |-> FALSE, path |-> FALSE, made |-> 0]]
    /\ staged = {} /\ run = [w \in Workers |-> [j \in Jobs |-> NoRun]]
    /\ todo = [w \in Workers |-> {}]
    /\ clips = {} /\ nextId = 1 /\ files = {} /\ work = {} /\ traps = {}
    /\ pc = [k \in Calls |-> "idle"] /\ call = [k \in Calls |-> NoCall]
    /\ paid = [t \in Users \X ClipIds |-> 0] /\ sprung = {}
    /\ contested = {} /\ touched = {} /\ skipped = [j \in Jobs |-> {}]
    /\ stranded = {} /\ wiped = {} /\ upsets = 0 /\ calls = 0

ClipsOf(j) == {c \in clips : c.job = j}
Ids(cs)    == {c.id : c \in cs}

DeleteClips_NoCascade(cs) == clips' = clips \ cs /\ UNCHANGED <<work, traps>>

\* Rows of video_clips are deleted, and by cascade their transcriptions and traps.
DeleteClips(cs) ==
    /\ clips' = clips \ cs
    /\ traps' = traps \ Ids(cs)
    /\ work' = {t \in work : t[2] \notin Ids(cs)}

----------------------------------------------------------------------------
(* runIngest                                                               *)

SetRun(w, j, r)  == run' = [run EXCEPT ![w][j] = r]
Goto(w, j, to)   == run' = [run EXCEPT ![w][j].pc = to]

Entered(resumed) ==
    [pc |-> "begin", left |-> Segments, made |-> 0, resumed |-> resumed]

\* POST /ingest, /ingest-file, /ingest-chunked: the row, then the run, which
\* nobody awaits.
Ingest(w, j, url) ==
    /\ w \in up /\ job[j].status = "none"
    /\ job' = [job EXCEPT ![j].status = "pending", ![j].url = url]
    /\ staged' = IF url THEN staged ELSE staged \cup {j}
    /\ SetRun(w, j, Entered(FALSE))
    /\ UNCHANGED <<up, claimed, todo, contested, skipped, stranded, upsets, studio>>

HasSource(j) == job[j].url \/ j \in staged

\* The path of an uploaded file is saved for a resume, a link is downloaded;
\* the duration is read and the segments are computed.
Begin(w, j) ==
    /\ run[w][j].pc = "begin" /\ HasSource(j)
    /\ job' = [job EXCEPT ![j].status = "cutting", ![j].path = ~job[j].url]
    /\ Goto(w, j, "cut")
    /\ skipped' = [skipped EXCEPT ![j] = {}]
    /\ UNCHANGED <<up, claimed, staged, todo, contested, stranded, upsets, studio>>

\* The next segment becomes a file and a row, or is skipped.
Cut(w, j) ==
    LET r == run[w][j]
        s == Min(r.left)
    IN
    /\ r.pc = "cut" /\ r.left # {}
    /\ \/ /\ HasSource(j) /\ nextId \in ClipIds
          /\ clips' = clips \cup {[id |-> nextId, job |-> j, seg |-> s]}
          /\ files' = files \cup {nextId} /\ nextId' = nextId + 1
          /\ SetRun(w, j, [r EXCEPT !.left = @ \ {s}, !.made = @ + 1])
          /\ UNCHANGED skipped
       \/ /\ SetRun(w, j, [r EXCEPT !.left = @ \ {s}])
          /\ skipped' = [skipped EXCEPT ![j] = @ \cup {s}]
          /\ UNCHANGED <<clips, files, nextId>>
    /\ UNCHANGED <<up, claimed, job, staged, todo, contested, stranded, upsets,
                   work, traps, pc, call, paid, sprung, touched, wiped, calls>>

\* The status is set; then (finally) the uploaded file is removed and the saved
\* path cleared.
End(w, j, status, made) ==
    /\ job' = [job EXCEPT ![j].status = status, ![j].path = FALSE, ![j].made = made]
    /\ staged' = staged \ {j}
    /\ SetRun(w, j, NoRun)

Conclude_Silent(w, j) ==
    LET r == run[w][j] IN
    /\ \/ r.pc = "cut" /\ r.left = {} /\ r.made > 0 /\ End(w, j, "done", r.made)
       \/ (r.pc = "begin" \/ (r.pc = "cut" /\ r.left = {})) /\ End(w, j, job[j].status, job[j].made)
    /\ UNCHANGED <<up, claimed, todo, contested, skipped, stranded, upsets, studio>>

\* The job is done when something was cut; nothing, or a statement that
\* fails, is an error.
Conclude(w, j) ==
    LET r == run[w][j] IN
    /\ \/ r.pc = "cut" /\ r.left = {} /\ r.made > 0 /\ End(w, j, "done", r.made)
       \/ (r.pc = "begin" \/ (r.pc = "cut" /\ r.left = {})) /\ End(w, j, "error", job[j].made)
    /\ UNCHANGED <<up, claimed, todo, contested, skipped, stranded, upsets, studio>>

\* The database is away: the run fails, and setting the status fails too.
StatusLost(w, j) ==
    /\ upsets < MaxUpsets /\ upsets' = upsets + 1
    /\ run[w][j].pc = "begin" \/ (run[w][j].pc = "cut" /\ run[w][j].left = {})
    /\ End(w, j, job[j].status, job[j].made)
    /\ stranded' = stranded \cup {j}
    /\ UNCHANGED <<up, claimed, todo, contested, skipped, studio>>

----------------------------------------------------------------------------
(* Crashes, boots and resumeOrphanedIngests                                *)

\* Five minutes are over, which matters while a worker is down.
NextWindow ==
    /\ up # Workers /\ claimed' = FALSE
    /\ UNCHANGED <<up, job, staged, run, todo, contested, skipped, stranded, upsets, studio>>

Resumed(w)    == {e.job : e \in todo[w]}
Handled(w)    == {j \in Jobs : run[w][j].pc # "none"} \cup Resumed(w)
OpenJobs      == {j \in Jobs : job[j].status \in Open}

\* Some workers die; with all of them the staging directory may go.
Crash(ws) ==
    /\ upsets < MaxUpsets /\ upsets' = upsets + 1
    /\ ws # {} /\ ws \subseteq up /\ (Cardinality(ws) = 1 \/ ws = Workers)
    /\ up' = up \ ws
    /\ run' = [w \in Workers |-> IF w \in ws THEN [j \in Jobs |-> NoRun] ELSE run[w]]
    /\ todo' = [w \in Workers |-> IF w \in ws THEN {} ELSE todo[w]]
    /\ stranded' = stranded \cup (OpenJobs \cap UNION {Handled(w) : w \in ws})
    /\ \/ UNCHANGED staged
       \/ ws = Workers /\ staged' = {}
    /\ UNCHANGED <<claimed, job, contested, skipped, studio>>

\* A worker is forked again.  The first of a window lists the open jobs.
Boot(w) ==
    /\ w \notin up /\ up' = up \cup {w}
    /\ claimed' = TRUE
    /\ IF claimed THEN UNCHANGED <<todo, contested, stranded>>
       ELSE /\ todo' = [todo EXCEPT ![w] =
                   {[job |-> j, path |-> job[j].path] : j \in OpenJobs}]
            /\ contested' = contested \cup
                   (OpenJobs \cap UNION {Handled(v) : v \in Workers})
            /\ stranded' = stranded \ OpenJobs
    /\ UNCHANGED <<job, staged, run, skipped, upsets, studio>>

Resume_KeepsClips(w, e) ==
    LET j == e.job IN
    /\ w \in up /\ e \in todo[w] /\ \A i \in Jobs : ~run[w][i].resumed
    /\ todo' = [todo EXCEPT ![w] = @ \ {e}]
    /\ IF ~job[j].url /\ ~(e.path /\ j \in staged)
       THEN job' = [job EXCEPT ![j].status = "error"] /\ UNCHANGED run
       ELSE SetRun(w, j, Entered(TRUE)) /\ UNCHANGED job
    /\ UNCHANGED <<up, claimed, staged, contested, skipped, stranded, upsets, studio>>

\* The next listed job: an error if its source is gone, else its clips are
\* deleted and it runs again, one job after the other.
Resume(w, e) ==
    LET j == e.job IN
    /\ w \in up /\ e \in todo[w] /\ \A i \in Jobs : ~run[w][i].resumed
    /\ todo' = [todo EXCEPT ![w] = @ \ {e}]
    /\ IF ~job[j].url /\ ~(e.path /\ j \in staged)
       THEN job' = [job EXCEPT ![j].status = "error"]
            /\ UNCHANGED <<run, clips, work, traps>>
       ELSE /\ DeleteClips(ClipsOf(j))
            /\ SetRun(w, j, Entered(TRUE))
            /\ UNCHANGED job
    /\ UNCHANGED <<up, claimed, staged, contested, skipped, stranded, upsets,
                   nextId, files, pc, call, paid, sprung, touched, wiped, calls>>

\* A statement of the loop fails outside the try, and with it the whole loop:
\* the jobs that are still listed stay open.
ResumeFails(w) ==
    /\ w \in up /\ todo[w] # {} /\ \A i \in Jobs : ~run[w][i].resumed
    /\ todo' = [todo EXCEPT ![w] = {}]
    /\ stranded' = stranded \cup (OpenJobs \cap Resumed(w))
    /\ UNCHANGED <<up, claimed, job, staged, run, contested, skipped, upsets, studio>>

----------------------------------------------------------------------------
(* Requests on clips                                                       *)

Step(k, to, r) ==
    /\ pc' = [pc EXCEPT ![k] = to] /\ call' = [call EXCEPT ![k] = r]
Finish(k)      == Step(k, "idle", NoCall)

Arrive(k, to, r) ==
    /\ pc[k] = "idle" /\ calls < MaxCalls /\ calls' = calls + 1
    /\ Step(k, to, r)

\* POST and DELETE /honeypot: a clip becomes a trap, or is one no more.
Honeypot(c) ==
    /\ upsets < MaxUpsets /\ upsets' = upsets + 1
    /\ traps' \in {traps \cup {c.id}, traps \ {c.id}}
    /\ UNCHANGED <<up, claimed, job, staged, run, todo, contested, skipped, stranded, clips,
                   nextId, files, work, pc, call, paid, sprung, touched, wiped, calls>>

\* POST /submit: the clip is there, and may be a trap.
Submit(k, u, c) ==
    /\ Arrive(k, IF c.id \in traps THEN "trap" ELSE "insert",
              [NoCall EXCEPT !.user = u, !.clip = c.id])
    /\ UNCHANGED <<ingest, clips, nextId, files, work, traps, paid, sprung, touched, wiped>>

\* The answer to a trap is graded, if its clip is still there, and then paid,
\* also when it was graded before.
Grade(k) ==
    /\ pc[k] = "trap"
    /\ IF call[k].clip \in Ids(clips)
       THEN sprung' = sprung \cup {<<call[k].user, call[k].clip>>} /\ Step(k, "pay", call[k])
       ELSE Finish(k) /\ UNCHANGED sprung
    /\ UNCHANGED <<ingest, clips, nextId, files, work, traps, paid, touched, wiped, calls>>

Fresh_Always(t) == t[2] \in Ids(clips)

\* The row can be inserted: its clip is still there and it is the first.
Fresh(t) == t[2] \in Ids(clips) /\ t \notin work

InsertWork(k) ==
    LET t == <<call[k].user, call[k].clip>> IN
    /\ pc[k] = "insert"
    /\ IF Fresh(t) THEN work' = work \cup {t} /\ Step(k, "pay", call[k])
       ELSE Finish(k) /\ UNCHANGED work
    /\ UNCHANGED <<ingest, clips, nextId, files, traps, paid, sprung, touched, wiped, calls>>

\* points + 15, and the counters.
Pay(k) ==
    /\ pc[k] = "pay"
    /\ paid' = [paid EXCEPT ![<<call[k].user, call[k].clip>>] = @ + 1]
    /\ Finish(k)
    /\ UNCHANGED <<ingest, clips, nextId, files, work, traps, sprung, touched, wiped, calls>>

Untranscribed(j) == {i \in Ids(ClipsOf(j)) : \A t \in work : t[2] # i}

\* POST /clean reads the clips of a job that nobody has transcribed.
Clean(k, j) ==
    /\ Arrive(k, "clean", [NoCall EXCEPT !.batch = Untranscribed(j)])
    /\ UNCHANGED <<ingest, clips, nextId, files, work, traps, paid, sprung, touched, wiped>>

\* Clip by clip it listens for speech, which takes long.
Listen(k) ==
    LET c == Min(call[k].batch)
        rest == [call[k] EXCEPT !.batch = @ \ {c}]
    IN
    /\ pc[k] = "clean"
    /\ \/ /\ call[k].batch = {} /\ Finish(k) /\ UNCHANGED <<files, wiped>>
       \/ /\ call[k].batch # {} /\ Step(k, "clean", rest) /\ UNCHANGED <<files, wiped>>
       \/ /\ call[k].batch # {} /\ Step(k, "cleanrow", [rest EXCEPT !.clip = c])
          /\ files' = files \ {c} /\ wiped' = wiped \cup {c}
    /\ UNCHANGED <<ingest, clips, nextId, work, traps, paid, sprung, touched, calls>>

\* The clip has no speech: its row follows its file.
CleanRow(k) ==
    LET cs == {c \in clips : c.id = call[k].clip} IN
    /\ pc[k] = "cleanrow"
    /\ DeleteClips(cs)
    /\ touched' = touched \cup {c.job : c \in cs}
    /\ Step(k, "clean", [call[k] EXCEPT !.clip = 0])
    /\ UNCHANGED <<ingest, nextId, files, paid, sprung, wiped, calls>>

\* POST /clips/:id/recut reads the clip.
Recut(k, c) ==
    /\ Arrive(k, "recut", [NoCall EXCEPT !.clip = c.id, !.row = {c}])
    /\ UNCHANGED <<ingest, clips, nextId, files, work, traps, paid, sprung, touched, wiped>>

\* DELETE /clips/:id and POST /clips/delete: the row, then its file.
Delete(k, c) ==
    /\ pc[k] = "idle" /\ calls < MaxCalls /\ calls' = calls + 1
    /\ DeleteClips({c}) /\ files' = files \ {c.id}
    /\ touched' = touched \cup {c.job}
    /\ UNCHANGED <<ingest, nextId, pc, call, paid, sprung, wiped>>

\* The parts that could be cut become clips of their own; if there is one at
\* all, the original goes.
Parts(c, n) == {[c EXCEPT !.id = i] : i \in nextId..(nextId + n - 1)}

RecutParts_RowsOnly(k) ==
    /\ pc[k] = "recut"
    /\ \E c \in call[k].row, n \in 0..2 :
        /\ n > 0 => c.id \in files /\ nextId + n - 1 \in ClipIds
        /\ clips' = clips \cup Parts(c, n)
        /\ nextId' = nextId + n
        /\ touched' = IF n > 0 THEN touched \cup {c.job} ELSE touched
        /\ IF n = 0 THEN Finish(k) ELSE Step(k, "droprow", [call[k] EXCEPT !.row = {}])
    /\ UNCHANGED <<ingest, files, work, traps, paid, sprung, wiped, calls>>

RecutParts(k) ==
    /\ pc[k] = "recut"
    /\ \E c \in call[k].row, n \in 0..2 :
        /\ n > 0 => c.id \in files /\ nextId + n - 1 \in ClipIds
        /\ clips' = clips \cup Parts(c, n)
        /\ files' = files \cup Ids(Parts(c, n))
        /\ nextId' = nextId + n
        /\ touched' = IF n > 0 THEN touched \cup {c.job} ELSE touched
        /\ IF n = 0 THEN Finish(k) ELSE Step(k, "droprow", [call[k] EXCEPT !.row = {}])
    /\ UNCHANGED <<ingest, work, traps, paid, sprung, wiped, calls>>

DropClip(k) ==
    /\ pc[k] = "droprow"
    /\ DeleteClips({c \in clips : c.id = call[k].clip})
    /\ files' = files \ {call[k].clip}
    /\ Finish(k)
    /\ UNCHANGED <<ingest, nextId, paid, sprung, touched, wiped, calls>>

\* A statement of a request fails, or its worker dies.
Fail(k) ==
    /\ pc[k] # "idle" /\ Finish(k)
    /\ UNCHANGED <<ingest, clips, nextId, files, work, traps, paid, sprung, touched, wiped, calls>>

----------------------------------------------------------------------------
RunStep(w, j) ==
    Begin(w, j) \/ Cut(w, j) \/ Conclude(w, j)

ResumeStep(w) == \E e \in todo[w] : Resume(w, e)

Request(k) ==
    \/ \E c \in clips : Recut(k, c) \/ Delete(k, c) \/ \E u \in Users : Submit(k, u, c)
    \/ \E j \in Jobs : Clean(k, j)
    \/ RecutParts(k) \/ InsertWork(k) \/ Grade(k) \/ Pay(k) \/ Listen(k)
    \/ CleanRow(k) \/ DropClip(k) \/ Fail(k)

Next ==
    \/ \E w \in Workers, j \in Jobs :
        RunStep(w, j) \/ StatusLost(w, j) \/ \E url \in BOOLEAN : Ingest(w, j, url)
    \/ \E w \in Workers : ResumeStep(w) \/ ResumeFails(w) \/ Boot(w)
    \/ \E ws \in SUBSET Workers : Crash(ws)
    \/ NextWindow
    \/ \E c \in clips : Honeypot(c)
    \/ \E k \in Calls : Request(k)

\* A run and a resume go on; requests may stop anywhere.
Fairness == \A w \in Workers :
    WF_vars(ResumeStep(w)) /\ \A j \in Jobs : WF_vars(RunStep(w, j))

Spec == Init /\ [][Next]_vars /\ Fairness

----------------------------------------------------------------------------
(* Properties                                                              *)

\* Every variable keeps its type, and clip ids are unique.
TypeOK ==
    /\ up \subseteq Workers /\ claimed \in BOOLEAN
    /\ job \in [Jobs -> JobRow] /\ staged \subseteq Jobs
    /\ run \in [Workers -> [Jobs -> RunState]] /\ todo \in [Workers -> SUBSET Entry]
    /\ clips \subseteq Clip /\ Cardinality(clips) = Cardinality(Ids(clips))
    /\ nextId \in Nat /\ files \subseteq 1..(nextId - 1)
    /\ work \subseteq Users \X Ids(clips) /\ traps \subseteq Ids(clips)
    /\ pc \in [Calls -> CallPcs] /\ call \in [Calls -> CallState]
    /\ paid \in [Users \X ClipIds -> Nat] /\ sprung \subseteq Users \X ClipIds
    /\ contested \cup touched \cup stranded \subseteq Jobs /\ wiped \subseteq ClipIds
    /\ skipped \in [Jobs -> SUBSET Segments]
    /\ upsets \in Nat /\ calls \in Nat

\* A job that is done has every segment as a clip exactly once, but for those
\* its last run skipped, and says so in clips_created: whatever crashed and
\* was resumed, unless it was resumed while somebody still worked on it or an
\* administrator changed its clips (media-ingest.ts:213-214).
DoneIsComplete ==
    \A j \in Jobs \ (contested \cup touched) : job[j].status = "done" =>
        /\ job[j].made = Cardinality(ClipsOf(j))
        /\ \A s \in Segments :
            Cardinality({c \in ClipsOf(j) : c.seg = s}) = IF s \in skipped[j] THEN 0 ELSE 1

\* A clip that can be served has its file, unless /clean removed it and has
\* not removed the row yet, or stopped in between (media.ts:287).
ClipHasFile == \A i \in Ids(clips) : i \in files \/ i \in wiped

\* A user is paid once at most for a clip, however often the transcription is
\* sent and whatever is re-cut or deleted meanwhile (media.ts:564-571), unless
\* an answer of the user met a trap: such an answer is paid every time it is
\* sent (media.ts:552-562).
PaidOnce == \A t \in Users \X ClipIds : t \in sprung \/ paid[t] <= 1

\* A job that was started ends, as done or as an error, unless it was left open
\* and no boot has taken it up since: by the crash of the worker that had it, by
\* a run that lost its status (media-ingest.ts:188-191), or by a resume that
\* ended with a failing statement before it came to it (media-ingest.ts:229-232).
JobsEnd ==
    \A j \in Jobs : job[j].status \in Open ~> (job[j].status \in Ended \/ j \in stranded)
=============================================================================
