------------------------- MODULE MediaStudioProofs -------------------------
(***************************************************************************)
(* Theorems about MediaStudio, for any workers, jobs, users, requests and  *)
(* segments, any number of clips, crashes, lost status updates and boots.  *)
(***************************************************************************)
EXTENDS MediaStudio, FiniteSetTheorems, WellFoundedInduction, TLAPS

----------------------------------------------------------------------------
(* Types.                                                                  *)

IngestTypes ==
    /\ up \subseteq Workers /\ claimed \in BOOLEAN
    /\ job \in [Jobs -> JobRow] /\ staged \subseteq Jobs
    /\ run \in [Workers -> [Jobs -> RunState]] /\ todo \in [Workers -> SUBSET Entry]
    /\ contested \subseteq Jobs /\ stranded \subseteq Jobs
    /\ skipped \in [Jobs -> SUBSET Segments] /\ upsets \in Nat

\* Clips have ids of their own, older than the next one.
ClipsFit ==
    /\ clips \subseteq Clip
    /\ nextId \in Nat \ {0}
    /\ \A c \in clips : c.id < nextId
    /\ \A c, d \in clips : c.id = d.id => c = d

StudioTypes ==
    /\ files \subseteq 1..(nextId - 1)
    /\ work \subseteq Users \X Ids(clips) /\ traps \subseteq Ids(clips)
    /\ pc \in [Calls -> CallPcs] /\ call \in [Calls -> CallState]
    /\ paid \in [Users \X ClipIds -> Nat] /\ sprung \subseteq Users \X ClipIds
    /\ touched \subseteq Jobs /\ wiped \subseteq ClipIds /\ calls \in Nat

\* A request knows whom it is for and which clip, an older one; a re-cut has
\* the row of the clip, and an administrator's change is known when its row goes.
CallFits(k) ==
    /\ pc[k] \in {"insert", "trap", "pay"} => call[k].user \in Users
    /\ pc[k] \in {"insert", "trap", "pay", "recut", "droprow"}
           => call[k].clip \in ClipIds /\ call[k].clip < nextId
    /\ pc[k] = "recut" =>
           \E c \in Clip : /\ call[k].row = {c} /\ c.id = call[k].clip
                           /\ \A d \in clips : d.id = c.id => d = c
    /\ pc[k] = "droprow" => \A d \in clips : d.id = call[k].clip => d.job \in touched

TypeInv ==
    /\ IngestTypes /\ ClipsFit /\ StudioTypes
    /\ \A k \in Calls : CallFits(k)

----------------------------------------------------------------------------
(* Numbers and sets.                                                       *)

LEMMA MinExists ==
    ASSUME NEW T \in SUBSET Nat, T # {}
    PROVE  Min(T) \in T /\ \A y \in T : Min(T) <= y
<1>1. PICK x \in T : \A y \in T : ~(<<y, x>> \in OpToRel(<, Nat))
    BY NatLessThanWellFounded, WFMin
<1>2. ASSUME NEW y \in T, y < x PROVE FALSE
    <2>1. <<y, x>> \in {ss \in Nat \X Nat : ss[1] < ss[2]}
        BY <1>2
    <2>2. <<y, x>> \in OpToRel(<, Nat)
        BY <2>1, Zenon DEF OpToRel
    <2> QED
        BY <1>1, <2>2
<1>3. \A y \in T : x <= y
    BY <1>2
<1> QED
    BY <1>3 DEF Min

LEMMA FiniteClips ==
    ASSUME ClipsFit, NEW S \in SUBSET clips
    PROVE  /\ IsFiniteSet(S) /\ Cardinality(S) \in Nat
           /\ Cardinality(S) = Cardinality(Ids(S))
<1> DEFINE f == [c \in S |-> c.id]
<1>1. IsFiniteSet(ClipIds)
    <2>1. 1 \in Int /\ MaxClips \in Int
        BY MediaStudioAssumption
    <2> QED
        BY <2>1, FS_Interval, Zenon DEF ClipIds
<1>2. f \in [S -> ClipIds]
    BY DEF ClipsFit, Clip
<1>3. \A c, d \in S : f[c] = f[d] => c = d
    BY DEF ClipsFit
<1>4. f \in Injection(S, ClipIds)
    BY <1>2, <1>3 DEF Injection, IsInjective
<1>5. IsFiniteSet(S)
    BY <1>1, <1>4, FS_Injection
<1>6. f \in Bijection(S, Ids(S))
    BY <1>3 DEF Ids, Bijection, Injection, IsInjective, Surjection
<1>7. Cardinality(Ids(S)) = Cardinality(S)
    BY <1>5, <1>6, FS_Bijection DEF ExistsBijection
<1> QED
    BY <1>5, <1>7, FS_CardinalityType

LEMMA TypeInvIsTypeOK == TypeInv => TypeOK
<1> SUFFICES ASSUME TypeInv PROVE TypeOK
    OBVIOUS
<1>1. Cardinality(clips) = Cardinality(Ids(clips))
    BY FiniteClips DEF TypeInv
<1>2. contested \cup touched \cup stranded \subseteq Jobs
    BY DEF TypeInv, IngestTypes, StudioTypes
<1> QED
    BY <1>1, <1>2 DEF TypeInv, TypeOK, IngestTypes, ClipsFit, StudioTypes

----------------------------------------------------------------------------
(* The records.                                                            *)

LEMMA NoRecords ==
    /\ NoRun \in RunState /\ NoRun.pc = "none"
    /\ NoCall \in CallState /\ NoCall.user = "none" /\ NoCall.clip = 0
    /\ NoCall.row = {} /\ NoCall.batch = {}
BY DEF NoRun, NoCall, RunState, RunPcs, CallState

LEMMA SetRunMoves ==
    ASSUME IngestTypes, NEW w \in Workers, NEW j \in Jobs, NEW r \in RunState, SetRun(w, j, r)
    PROVE  /\ run' \in [Workers -> [Jobs -> RunState]]
           /\ run'[w][j] = r
           /\ \A v \in Workers, i \in Jobs : v # w \/ i # j => run'[v][i] = run[v][i]
BY DEF SetRun, IngestTypes

LEMMA EndMoves ==
    ASSUME IngestTypes, NEW w \in Workers, NEW j \in Jobs,
           NEW status \in Open \cup Ended \cup {"none"}, NEW made \in Nat,
           End(w, j, status, made)
    PROVE  /\ job' \in [Jobs -> JobRow] /\ staged' \subseteq Jobs
           /\ job'[j].status = status /\ job'[j].made = made
           /\ \A i \in Jobs \ {j} : job'[i] = job[i]
           /\ run' \in [Workers -> [Jobs -> RunState]]
           /\ run'[w][j] = NoRun
           /\ \A v \in Workers, i \in Jobs : v # w \/ i # j => run'[v][i] = run[v][i]
<1> DEFINE r == [job[j] EXCEPT !.status = status, !.path = FALSE, !.made = made]
<1>1. job[j] \in JobRow
    BY DEF IngestTypes
<1>2. r \in JobRow /\ r.status = status /\ r.made = made
    BY <1>1 DEF JobRow
<1>3. job' = [job EXCEPT ![j] = r]
    BY DEF End, IngestTypes
<1>4. job' \in [Jobs -> JobRow] /\ job'[j] = r /\ \A i \in Jobs \ {j} : job'[i] = job[i]
    BY <1>2, <1>3 DEF IngestTypes
<1>5. staged' \subseteq Jobs
    BY DEF End, IngestTypes
<1> HIDE DEF r
<1> QED
    BY <1>2, <1>4, <1>5, SetRunMoves, NoRecords DEF End

LEMMA RunTypes ==
    ASSUME IngestTypes, NEW w \in Workers, NEW j \in Jobs
    PROVE  /\ run[w][j] \in RunState /\ run[w][j].left \subseteq Segments
           /\ run[w][j].made \in Nat /\ run[w][j].pc \in RunPcs
           /\ job[j] \in JobRow /\ job[j].status \in Open \cup Ended \cup {"none"}
           /\ job[j].made \in Nat /\ job[j].path \in BOOLEAN
BY DEF IngestTypes, RunState, JobRow

\* The run of a job, when it starts and when it goes on.
LEMMA EnteredTypes ==
    ASSUME NEW resumed \in BOOLEAN
    PROVE  /\ Entered(resumed) \in RunState /\ Entered(resumed).pc = "begin"
           /\ Entered(resumed).left = Segments /\ Entered(resumed).made = 0
BY DEF Entered, RunState, RunPcs

----------------------------------------------------------------------------
(* The steps of a job.                                                     *)

\* Only the run of j on w changes, and the row of j.
Touches(w, j) ==
    /\ \A v \in Workers, i \in Jobs : v # w \/ i # j => run'[v][i] = run[v][i]
    /\ \A i \in Jobs \ {j} : job'[i] = job[i]

LEMMA IngestMoves ==
    ASSUME IngestTypes, NEW w \in Workers, NEW j \in Jobs, NEW url \in BOOLEAN, Ingest(w, j, url)
    PROVE  /\ IngestTypes' /\ Touches(w, j)
           /\ job[j].status = "none" /\ job'[j].status = "pending"
           /\ run'[w][j] = Entered(FALSE)
           /\ UNCHANGED <<todo, contested, skipped, studio>>
<1> DEFINE r == [job[j] EXCEPT !.status = "pending", !.url = url]
<1>1. r \in JobRow /\ r.status = "pending"
    BY RunTypes DEF JobRow, Open
<1>2. job' = [job EXCEPT ![j] = r]
    BY DEF Ingest, IngestTypes
<1>3. job' \in [Jobs -> JobRow] /\ job'[j] = r /\ \A i \in Jobs \ {j} : job'[i] = job[i]
    BY <1>1, <1>2 DEF IngestTypes
<1> HIDE DEF r
<1>4. /\ run' \in [Workers -> [Jobs -> RunState]] /\ run'[w][j] = Entered(FALSE)
      /\ \A v \in Workers, i \in Jobs : v # w \/ i # j => run'[v][i] = run[v][i]
    BY EnteredTypes, SetRunMoves DEF Ingest
<1>5. /\ UNCHANGED <<up, claimed, todo, contested, skipped, stranded, upsets, studio>>
      /\ job[j].status = "none" /\ staged' \subseteq Jobs
    BY DEF Ingest, IngestTypes
<1> QED
    BY <1>1, <1>3, <1>4, <1>5 DEF IngestTypes, Touches

LEMMA BeginMoves ==
    ASSUME IngestTypes, NEW w \in Workers, NEW j \in Jobs, Begin(w, j)
    PROVE  /\ IngestTypes' /\ Touches(w, j)
           /\ run[w][j].pc = "begin" /\ job'[j].status = "cutting"
           /\ run'[w][j].pc = "cut" /\ run'[w][j].left = run[w][j].left
           /\ run'[w][j].made = run[w][j].made
           /\ skipped'[j] = {} /\ \A i \in Jobs \ {j} : skipped'[i] = skipped[i]
           /\ UNCHANGED <<todo, contested, studio>>
<1> DEFINE r == [job[j] EXCEPT !.status = "cutting", !.path = ~job[j].url]
           s == [run[w][j] EXCEPT !.pc = "cut"]
<1>1. r \in JobRow /\ r.status = "cutting"
    BY RunTypes DEF JobRow, Open
<1>2. s \in RunState /\ s.pc = "cut" /\ s.left = run[w][j].left /\ s.made = run[w][j].made
    BY RunTypes DEF RunState, RunPcs
<1>3. job' = [job EXCEPT ![j] = r] /\ SetRun(w, j, s)
    BY DEF Begin, Goto, SetRun, IngestTypes
<1>4. job' \in [Jobs -> JobRow] /\ job'[j] = r /\ \A i \in Jobs \ {j} : job'[i] = job[i]
    BY <1>1, <1>3 DEF IngestTypes
<1> HIDE DEF r, s
<1>5. /\ run' \in [Workers -> [Jobs -> RunState]] /\ run'[w][j] = s
      /\ \A v \in Workers, i \in Jobs : v # w \/ i # j => run'[v][i] = run[v][i]
    BY <1>2, <1>3, SetRunMoves
<1>6. /\ skipped' \in [Jobs -> SUBSET Segments]
      /\ skipped'[j] = {} /\ \A i \in Jobs \ {j} : skipped'[i] = skipped[i]
    BY DEF Begin, IngestTypes
<1>7. /\ UNCHANGED <<up, claimed, staged, todo, contested, stranded, upsets, studio>>
      /\ run[w][j].pc = "begin"
    BY DEF Begin
<1> QED
    BY <1>1, <1>2, <1>4, <1>5, <1>6, <1>7 DEF IngestTypes, Touches

NewClip(j, s) == [id |-> nextId, job |-> j, seg |-> s]

LEMMA CutRecords ==
    ASSUME NEW r \in RunState, NEW s
    PROVE  LET made == [r EXCEPT !.left = r.left \ {s}, !.made = r.made + 1]
               idle == [r EXCEPT !.left = r.left \ {s}]
           IN
           /\ made \in RunState /\ made.pc = r.pc
           /\ made.left = r.left \ {s} /\ made.made = r.made + 1
           /\ idle \in RunState /\ idle.pc = r.pc
           /\ idle.left = r.left \ {s} /\ idle.made = r.made
<1>1. PICK left, n : left = r.left \ {s} /\ n = r.made + 1
    OBVIOUS
<1>2. left \in SUBSET Segments /\ n \in Nat
    BY <1>1 DEF RunState
<1>3. LET made == [r EXCEPT !.left = left, !.made = n]
          idle == [r EXCEPT !.left = left]
      IN  /\ made \in RunState /\ made.pc = r.pc /\ made.left = left /\ made.made = n
          /\ idle \in RunState /\ idle.pc = r.pc /\ idle.left = left /\ idle.made = r.made
    BY <1>2 DEF RunState
<1> QED
    BY <1>1, <1>3

LEMMA CutMoves ==
    ASSUME IngestTypes, NEW w \in Workers, NEW j \in Jobs, Cut(w, j)
    PROVE  /\ IngestTypes' /\ Touches(w, j) /\ job' = job
           /\ run[w][j].pc = "cut" /\ run'[w][j].pc = "cut"
           /\ \E s \in run[w][j].left :
                  /\ run'[w][j].left = run[w][j].left \ {s}
                  /\ \/ /\ run'[w][j].made = run[w][j].made + 1 /\ nextId \in ClipIds
                        /\ clips' = clips \cup {NewClip(j, s)}
                        /\ files' = files \cup {nextId} /\ nextId' = nextId + 1
                        /\ UNCHANGED skipped
                     \/ /\ run'[w][j].made = run[w][j].made
                        /\ skipped'[j] = skipped[j] \cup {s}
                        /\ \A i \in Jobs \ {j} : skipped'[i] = skipped[i]
                        /\ UNCHANGED <<clips, files, nextId>>
           /\ UNCHANGED <<todo, contested, work, traps, pc, call, paid, sprung, touched, wiped, calls>>
<1> DEFINE r == run[w][j]
           s == Min(r.left)
           made  == [r EXCEPT !.left = r.left \ {s}, !.made = r.made + 1]
           idle  == [r EXCEPT !.left = r.left \ {s}]
<1>1. r \in RunState /\ r.pc = "cut" /\ r.left \subseteq Segments /\ r.left # {} /\ r.made \in Nat
    BY RunTypes DEF Cut
<1>2. s \in r.left /\ s \in Segments
    BY <1>1, MinExists, MediaStudioAssumption
<1> HIDE DEF s
<1>3. /\ made \in RunState /\ made.pc = "cut" /\ made.left = r.left \ {s} /\ made.made = r.made + 1
      /\ idle \in RunState /\ idle.pc = "cut" /\ idle.left = r.left \ {s} /\ idle.made = r.made
    BY <1>1, CutRecords
<1>4. /\ UNCHANGED <<up, claimed, job, staged, todo, contested, stranded, upsets,
                     work, traps, pc, call, paid, sprung, touched, wiped, calls>>
    BY DEF Cut
<1>5. \/ /\ SetRun(w, j, made) /\ nextId \in ClipIds
         /\ clips' = clips \cup {NewClip(j, s)}
         /\ files' = files \cup {nextId} /\ nextId' = nextId + 1
         /\ UNCHANGED skipped
      \/ /\ SetRun(w, j, idle)
         /\ skipped' = [skipped EXCEPT ![j] = skipped[j] \cup {s}]
         /\ UNCHANGED <<clips, files, nextId>>
    BY DEF Cut, s, NewClip
<1> HIDE DEF made, idle
<1>6. CASE /\ SetRun(w, j, made) /\ nextId \in ClipIds
           /\ clips' = clips \cup {NewClip(j, s)}
           /\ files' = files \cup {nextId} /\ nextId' = nextId + 1
           /\ UNCHANGED skipped
    <2>1. /\ run' \in [Workers -> [Jobs -> RunState]] /\ run'[w][j] = made
          /\ \A v \in Workers, i \in Jobs : v # w \/ i # j => run'[v][i] = run[v][i]
        BY <1>3, <1>6, SetRunMoves
    <2> QED
        BY <1>1, <1>2, <1>3, <1>4, <1>6, <2>1 DEF IngestTypes, Touches
<1>7. CASE /\ SetRun(w, j, idle)
           /\ skipped' = [skipped EXCEPT ![j] = skipped[j] \cup {s}]
           /\ UNCHANGED <<clips, files, nextId>>
    <2>1. /\ run' \in [Workers -> [Jobs -> RunState]] /\ run'[w][j] = idle
          /\ \A v \in Workers, i \in Jobs : v # w \/ i # j => run'[v][i] = run[v][i]
        BY <1>3, <1>7, SetRunMoves
    <2>2. /\ skipped' \in [Jobs -> SUBSET Segments]
          /\ skipped'[j] = skipped[j] \cup {s}
          /\ \A i \in Jobs \ {j} : skipped'[i] = skipped[i]
        BY <1>2, <1>7 DEF IngestTypes
    <2> QED
        BY <1>1, <1>2, <1>3, <1>4, <1>7, <2>1, <2>2 DEF IngestTypes, Touches
<1> QED
    BY <1>5, <1>6, <1>7

LEMMA ConcludeMoves ==
    ASSUME IngestTypes, NEW w \in Workers, NEW j \in Jobs, Conclude(w, j) \/ StatusLost(w, j)
    PROVE  /\ IngestTypes' /\ Touches(w, j)
           /\ run[w][j].pc \in {"begin", "cut"} /\ run'[w][j] = NoRun
           /\ \/ /\ job'[j].status = "done" /\ job'[j].made = run[w][j].made
                 /\ run[w][j].pc = "cut" /\ run[w][j].left = {}
              \/ job'[j].status = "error"
              \/ job'[j].status = job[j].status /\ job'[j].made = job[j].made
           /\ UNCHANGED <<todo, contested, skipped, studio>>
<1>1. PICK status \in Open \cup Ended \cup {"none"}, made \in Nat :
          /\ End(w, j, status, made)
          /\ \/ /\ status = "done" /\ made = run[w][j].made
                /\ run[w][j].pc = "cut" /\ run[w][j].left = {}
             \/ status = "error"
             \/ status = job[j].status /\ made = job[j].made
    BY RunTypes DEF Conclude, StatusLost, Ended
<1>2. /\ job' \in [Jobs -> JobRow] /\ staged' \subseteq Jobs
      /\ job'[j].status = status /\ job'[j].made = made
      /\ \A i \in Jobs \ {j} : job'[i] = job[i]
      /\ run' \in [Workers -> [Jobs -> RunState]]
      /\ run'[w][j] = NoRun
      /\ \A v \in Workers, i \in Jobs : v # w \/ i # j => run'[v][i] = run[v][i]
    BY <1>1, EndMoves
<1>3. /\ UNCHANGED <<up, claimed, todo, contested, skipped, studio>>
      /\ run[w][j].pc \in {"begin", "cut"}
      /\ stranded' \in {stranded, stranded \cup {j}} /\ upsets' \in {upsets, upsets + 1}
    BY DEF Conclude, StatusLost
<1> QED
    BY <1>1, <1>2, <1>3 DEF IngestTypes, Touches

\* The jobs a boot lists.
Listed == {[job |-> j, path |-> job[j].path] : j \in OpenJobs}

LEMMA BootMoves ==
    ASSUME IngestTypes, NEW w \in Workers, Boot(w)
    PROVE  /\ IngestTypes' /\ UNCHANGED <<job, run, skipped, studio>>
           /\ \/ UNCHANGED <<todo, contested>>
              \/ /\ todo' = [todo EXCEPT ![w] = Listed]
                 /\ contested' = contested \cup
                        (OpenJobs \cap UNION {Handled(v) : v \in Workers})
<1>1. Listed \in SUBSET Entry
    BY RunTypes DEF Listed, Entry, OpenJobs, IngestTypes, JobRow
<1>2. /\ UNCHANGED <<job, staged, run, skipped, upsets, studio>>
      /\ up' = up \cup {w} /\ claimed' = TRUE
      /\ \/ UNCHANGED <<todo, contested, stranded>>
         \/ /\ todo' = [todo EXCEPT ![w] = Listed]
            /\ contested' = contested \cup (OpenJobs \cap UNION {Handled(v) : v \in Workers})
            /\ stranded' = stranded \ OpenJobs
    BY DEF Boot, Listed
<1>3. OpenJobs \subseteq Jobs
    BY DEF OpenJobs
<1>4. /\ todo' \in [Workers -> SUBSET Entry] /\ contested' \subseteq Jobs /\ stranded' \subseteq Jobs
    BY <1>1, <1>2, <1>3 DEF IngestTypes
<1> QED
    BY <1>2, <1>4 DEF IngestTypes

LEMMA CrashMoves ==
    ASSUME IngestTypes, NEW ws \in SUBSET Workers, Crash(ws)
    PROVE  /\ IngestTypes' /\ UNCHANGED <<job, contested, skipped, studio>>
           /\ \A w \in Workers : \/ run'[w] = run[w] /\ todo'[w] = todo[w]
                                 \/ todo'[w] = {} /\ \A j \in Jobs : run'[w][j] = NoRun
<1>1. /\ UNCHANGED <<claimed, job, contested, skipped, studio>>
      /\ up' \subseteq up /\ staged' \subseteq staged /\ upsets' = upsets + 1
      /\ stranded' \subseteq stranded \cup OpenJobs
      /\ run' = [w \in Workers |-> IF w \in ws THEN [j \in Jobs |-> NoRun] ELSE run[w]]
      /\ todo' = [w \in Workers |-> IF w \in ws THEN {} ELSE todo[w]]
    BY DEF Crash
<1>2. OpenJobs \subseteq Jobs
    BY DEF OpenJobs
<1>3. [j \in Jobs |-> NoRun] \in [Jobs -> RunState]
    BY NoRecords
<1>4. run' \in [Workers -> [Jobs -> RunState]] /\ todo' \in [Workers -> SUBSET Entry]
    BY <1>1, <1>3 DEF IngestTypes
<1> QED
    BY <1>1, <1>2, <1>4 DEF IngestTypes

LEMMA ResumeFailsMoves ==
    ASSUME IngestTypes, NEW w \in Workers, ResumeFails(w)
    PROVE  /\ IngestTypes' /\ UNCHANGED <<job, run, contested, skipped, studio>>
           /\ \A v \in Workers : todo'[v] = todo[v] \/ todo'[v] = {}
<1>1. /\ UNCHANGED <<up, claimed, job, staged, run, contested, skipped, studio>>
      /\ upsets' = upsets /\ stranded' \subseteq stranded \cup OpenJobs
      /\ todo' = [todo EXCEPT ![w] = {}]
    BY DEF ResumeFails
<1>2. OpenJobs \subseteq Jobs
    BY DEF OpenJobs
<1>3. todo' \in [Workers -> SUBSET Entry] /\ \A v \in Workers : todo'[v] = todo[v] \/ todo'[v] = {}
    BY <1>1 DEF IngestTypes
<1> QED
    BY <1>1, <1>2, <1>3 DEF IngestTypes

LEMMA ResumeMoves ==
    ASSUME IngestTypes, NEW w \in Workers, NEW e \in todo[w], Resume(w, e)
    PROVE  LET j == e.job IN
           /\ IngestTypes' /\ j \in Jobs
           /\ todo' = [todo EXCEPT ![w] = todo[w] \ {e}]
           /\ UNCHANGED <<contested, skipped, nextId, files, pc, call, paid, sprung, touched, wiped, calls>>
           /\ \/ /\ UNCHANGED <<run, clips, work, traps>> /\ job'[j].status = "error"
                 /\ \A i \in Jobs \ {j} : job'[i] = job[i]
              \/ /\ DeleteClips(ClipsOf(j)) /\ job' = job /\ run'[w][j] = Entered(TRUE)
                 /\ \A v \in Workers, i \in Jobs : v # w \/ i # j => run'[v][i] = run[v][i]
<1> DEFINE j == e.job
           r == [job[j] EXCEPT !.status = "error"]
<1>1. e \in Entry /\ j \in Jobs
    BY DEF IngestTypes, Entry
<1>2. r \in JobRow /\ r.status = "error"
    BY <1>1, RunTypes DEF JobRow, Ended
<1>3. /\ todo' = [todo EXCEPT ![w] = todo[w] \ {e}]
      /\ UNCHANGED <<up, claimed, staged, contested, skipped, stranded, upsets,
                     nextId, files, pc, call, paid, sprung, touched, wiped, calls>>
    BY DEF Resume
<1>4. \/ job' = [job EXCEPT ![j] = r] /\ UNCHANGED <<run, clips, work, traps>>
      \/ DeleteClips(ClipsOf(j)) /\ SetRun(w, j, Entered(TRUE)) /\ UNCHANGED job
    BY <1>1 DEF Resume, IngestTypes
<1> HIDE DEF r
<1>5. todo' \in [Workers -> SUBSET Entry]
    BY <1>3 DEF IngestTypes
<1>6. CASE job' = [job EXCEPT ![j] = r] /\ UNCHANGED <<run, clips, work, traps>>
    BY <1>1, <1>2, <1>3, <1>5, <1>6 DEF IngestTypes
<1>7. CASE DeleteClips(ClipsOf(j)) /\ SetRun(w, j, Entered(TRUE)) /\ UNCHANGED job
    <2>1. /\ run' \in [Workers -> [Jobs -> RunState]] /\ run'[w][j] = Entered(TRUE)
          /\ \A v \in Workers, i \in Jobs : v # w \/ i # j => run'[v][i] = run[v][i]
        BY <1>1, <1>7, EnteredTypes, SetRunMoves
    <2> QED
        BY <1>1, <1>3, <1>5, <1>7, <2>1 DEF IngestTypes
<1> QED
    BY <1>4, <1>6, <1>7

----------------------------------------------------------------------------
(* The steps of a request.                                                 *)

\* No id is used again, and what an administrator has changed stays known.
Grows ==
    /\ nextId' \in Nat /\ nextId <= nextId' /\ touched \subseteq touched'
    /\ \A d \in clips' : d \in clips \/ ~(d.id < nextId)

LEMMA CallKept ==
    ASSUME TypeInv, Grows, NEW k \in Calls, pc'[k] = pc[k], call'[k] = call[k]
    PROVE  CallFits(k)'
<1>1. /\ CallFits(k) /\ nextId \in Nat /\ \A d \in clips' : d \in clips \/ ~(d.id < nextId)
    BY DEF TypeInv, ClipsFit, Grows
<1>2. \A n \in ClipIds : n < nextId => n < nextId'
    BY DEF ClipIds, TypeInv, ClipsFit, Grows
<1> QED
    BY <1>1, <1>2 DEF CallFits, Grows

LEMMA DeleteClipsMoves ==
    ASSUME TypeInv, NEW cs, DeleteClips(cs), nextId' = nextId
    PROVE  /\ clips' = clips \ cs /\ ClipsFit' /\ work' \subseteq work
           /\ work' \subseteq Users \X Ids(clips') /\ traps' \subseteq Ids(clips')
<1>1. /\ clips' = clips \ cs /\ work' = {t \in work : t[2] \notin Ids(cs)}
      /\ traps' = traps \ Ids(cs)
    BY DEF DeleteClips
<1>2. \A i \in Ids(clips) : i \notin Ids(cs) => i \in Ids(clips')
    BY <1>1 DEF Ids
<1> QED
    BY <1>1, <1>2 DEF TypeInv, ClipsFit, StudioTypes

LEMMA CallTypes ==
    ASSUME TypeInv, NEW k \in Calls
    PROVE  /\ pc[k] \in CallPcs /\ call[k] \in CallState /\ CallFits(k)
           /\ call[k].batch \in SUBSET ClipIds /\ call[k].clip \in ClipIds \cup {0}
           /\ call[k].row \in SUBSET Clip
           /\ nextId \in Nat /\ nextId >= 1
BY DEF TypeInv, StudioTypes, ClipsFit, CallState

\* The call records of requests.
LEMMA CallRecords ==
    /\ \A u \in Users, i \in ClipIds : LET r == [NoCall EXCEPT !.user = u, !.clip = i] IN
           r \in CallState /\ r.user = u /\ r.clip = i
    /\ \A b \in SUBSET ClipIds : [NoCall EXCEPT !.batch = b] \in CallState
    /\ \A c \in Clip : LET r == [NoCall EXCEPT !.clip = c.id, !.row = {c}] IN
           r \in CallState /\ r.clip = c.id /\ r.row = {c}
    /\ \A r \in CallState : \A x : [r EXCEPT !.batch = r.batch \ {x}] \in CallState
    /\ \A r \in CallState, i \in ClipIds : \A x :
           [[r EXCEPT !.batch = r.batch \ {x}] EXCEPT !.clip = i] \in CallState
    /\ \A r \in CallState : [r EXCEPT !.clip = 0] \in CallState
    /\ \A r \in CallState : LET q == [r EXCEPT !.row = {}] IN
           q \in CallState /\ q.clip = r.clip
<1> USE NoRecords DEF CallState
<1>1. \A u \in Users, i \in ClipIds : LET r == [NoCall EXCEPT !.user = u, !.clip = i] IN
          r \in CallState /\ r.user = u /\ r.clip = i
    OBVIOUS
<1>2. \A b \in SUBSET ClipIds : [NoCall EXCEPT !.batch = b] \in CallState
    OBVIOUS
<1>3. \A c \in Clip : LET r == [NoCall EXCEPT !.clip = c.id, !.row = {c}] IN
          r \in CallState /\ r.clip = c.id /\ r.row = {c}
    <2> SUFFICES ASSUME NEW c \in Clip
                 PROVE  LET r == [NoCall EXCEPT !.clip = c.id, !.row = {c}] IN
                        r \in CallState /\ r.clip = c.id /\ r.row = {c}
        OBVIOUS
    <2>1. c.id \in ClipIds /\ {c} \in SUBSET Clip
        BY DEF Clip
    <2> QED
        BY <2>1
<1>4. \A r \in CallState : \A x : [r EXCEPT !.batch = r.batch \ {x}] \in CallState
    <2> SUFFICES ASSUME NEW r \in CallState, NEW x
                 PROVE  [r EXCEPT !.batch = r.batch \ {x}] \in CallState
        OBVIOUS
    <2>1. r.batch \ {x} \in SUBSET ClipIds
        OBVIOUS
    <2> QED
        BY <2>1
<1>5. \A r \in CallState, i \in ClipIds : \A x :
          [[r EXCEPT !.batch = r.batch \ {x}] EXCEPT !.clip = i] \in CallState
    <2>1. \A q \in CallState, i \in ClipIds : [q EXCEPT !.clip = i] \in CallState
        OBVIOUS
    <2> QED
        BY <1>4, <2>1
<1>6. \A r \in CallState : [r EXCEPT !.clip = 0] \in CallState
    OBVIOUS
<1>7. \A r \in CallState : LET q == [r EXCEPT !.row = {}] IN
          q \in CallState /\ q.clip = r.clip
    OBVIOUS
<1> QED
    BY <1>1, <1>2, <1>3, <1>4, <1>5, <1>6, <1>7

LEMMA StepTypes ==
    ASSUME TypeInv, NEW k \in Calls, NEW to \in CallPcs, NEW r \in CallState, Step(k, to, r)
    PROVE  /\ pc' \in [Calls -> CallPcs] /\ call' \in [Calls -> CallState]
           /\ pc'[k] = to /\ call'[k] = r
           /\ \A l \in Calls \ {k} : pc'[l] = pc[l] /\ call'[l] = call[l]
BY DEF Step, TypeInv, StudioTypes

LEMMA FinishTypes ==
    ASSUME TypeInv, NEW k \in Calls, Finish(k)
    PROVE  /\ pc' \in [Calls -> CallPcs] /\ call' \in [Calls -> CallState]
           /\ pc'[k] = "idle" /\ call'[k] = NoCall
           /\ \A l \in Calls \ {k} : pc'[l] = pc[l] /\ call'[l] = call[l]
BY NoRecords, StepTypes DEF Finish, CallPcs

\* Requests that start.
LEMMA ArriveMoves ==
    ASSUME TypeInv, NEW k \in Calls,
           \/ \E c \in clips : Recut(k, c) \/ \E u \in Users : Submit(k, u, c)
           \/ \E j \in Jobs : Clean(k, j)
    PROVE  /\ TypeInv' /\ UNCHANGED <<ingest, clips, nextId, files, work, traps, paid, sprung, touched, wiped>>
           /\ pc[k] = "idle" /\ pc'[k] \in {"insert", "trap", "recut", "clean"}
           /\ \A l \in Calls \ {k} : pc'[l] = pc[l] /\ call'[l] = call[l]
<1>1. /\ UNCHANGED <<ingest, clips, nextId, files, work, traps, paid, sprung, touched, wiped>>
      /\ pc[k] = "idle" /\ calls' = calls + 1
    BY DEF Recut, Submit, Clean, Arrive
<1>2. ASSUME NEW c \in clips PROVE c \in Clip /\ c.id \in ClipIds /\ c.id < nextId
    BY DEF TypeInv, ClipsFit, Clip
<1> DEFINE Arrived ==
        /\ pc' \in [Calls -> CallPcs] /\ call' \in [Calls -> CallState]
        /\ pc'[k] \in {"insert", "trap", "recut", "clean"} /\ CallFits(k)'
        /\ \A l \in Calls \ {k} : pc'[l] = pc[l] /\ call'[l] = call[l]
<1>3. Arrived
    <2>1. ASSUME NEW c \in clips, NEW u \in Users, Submit(k, u, c) PROVE Arrived
        <3> DEFINE r == [NoCall EXCEPT !.user = u, !.clip = c.id]
        <3>1. r \in CallState /\ r.user = u /\ r.clip = c.id
            BY <1>2, CallRecords
        <3>2. PICK to \in {"insert", "trap"} : Step(k, to, r)
            BY <2>1 DEF Submit, Arrive
        <3> HIDE DEF r
        <3>3. /\ pc' \in [Calls -> CallPcs] /\ call' \in [Calls -> CallState]
              /\ pc'[k] = to /\ call'[k] = r
              /\ \A l \in Calls \ {k} : pc'[l] = pc[l] /\ call'[l] = call[l]
            BY <3>1, <3>2, StepTypes DEF CallPcs
        <3> QED
            BY <1>1, <1>2, <3>1, <3>3 DEF CallFits
    <2>2. ASSUME NEW c \in clips, Recut(k, c) PROVE Arrived
        <3> DEFINE r == [NoCall EXCEPT !.clip = c.id, !.row = {c}]
        <3>1. r \in CallState /\ r.clip = c.id /\ r.row = {c}
            BY <1>2, CallRecords
        <3>2. Step(k, "recut", r)
            BY <2>2 DEF Recut, Arrive
        <3> HIDE DEF r
        <3>3. /\ pc' \in [Calls -> CallPcs] /\ call' \in [Calls -> CallState]
              /\ pc'[k] = "recut" /\ call'[k] = r
              /\ \A l \in Calls \ {k} : pc'[l] = pc[l] /\ call'[l] = call[l]
            BY <3>1, <3>2, StepTypes DEF CallPcs
        <3>4. \A d \in clips' : d.id = c.id => d = c
            BY <1>1 DEF TypeInv, ClipsFit
        <3> QED
            BY <1>1, <1>2, <3>1, <3>3, <3>4 DEF CallFits
    <2>3. ASSUME NEW j \in Jobs, Clean(k, j) PROVE Arrived
        <3> DEFINE r == [NoCall EXCEPT !.batch = Untranscribed(j)]
        <3>1. Untranscribed(j) \in SUBSET ClipIds
            BY <1>2 DEF Untranscribed, Ids, ClipsOf
        <3>2. r \in CallState
            BY <3>1, CallRecords
        <3>3. Step(k, "clean", r)
            BY <2>3 DEF Clean, Arrive
        <3> HIDE DEF r
        <3>4. /\ pc' \in [Calls -> CallPcs] /\ call' \in [Calls -> CallState]
              /\ pc'[k] = "clean"
              /\ \A l \in Calls \ {k} : pc'[l] = pc[l] /\ call'[l] = call[l]
            BY <3>2, <3>3, StepTypes DEF CallPcs
        <3> QED
            BY <3>4 DEF CallFits
    <2> QED
        BY <2>1, <2>2, <2>3
<1>4. Grows
    BY <1>1 DEF Grows, TypeInv, ClipsFit
<1>5. \A l \in Calls : CallFits(l)'
    BY <1>3, <1>4, CallKept
<1>6. IngestTypes' /\ ClipsFit' /\ StudioTypes'
    BY <1>1, <1>3 DEF TypeInv, IngestTypes, ClipsFit, StudioTypes, ingest, Ids
<1> QED
    BY <1>1, <1>3, <1>5, <1>6 DEF TypeInv

\* The clips of a job change only when an administrator is known to have
\* changed them.
Untouched == \A j \in Jobs \ touched' : ClipsOf(j)' = ClipsOf(j)

LEMMA DropMoves ==
    ASSUME TypeInv, NEW cs \in SUBSET clips, DeleteClips(cs), nextId' = nextId,
           touched' = touched \cup {c.job : c \in cs}
    PROVE  /\ Grows /\ Untouched /\ ClipsFit' /\ touched' \subseteq Jobs
           /\ work' \subseteq work /\ work' \subseteq Users \X Ids(clips')
           /\ traps' \subseteq Ids(clips')
<1>1. /\ clips' = clips \ cs /\ ClipsFit' /\ work' \subseteq work
      /\ work' \subseteq Users \X Ids(clips') /\ traps' \subseteq Ids(clips')
    BY DeleteClipsMoves
<1>2. \A c \in clips : c.job \in Jobs
    BY DEF TypeInv, ClipsFit, Clip
<1>3. Grows
    BY <1>1 DEF Grows, TypeInv, ClipsFit
<1>4. Untouched
    BY <1>1 DEF Untouched, ClipsOf
<1> QED
    BY <1>1, <1>2, <1>3, <1>4 DEF TypeInv, StudioTypes

LEMMA DeleteMoves ==
    ASSUME TypeInv, NEW k \in Calls, NEW c \in clips, Delete(k, c)
    PROVE  TypeInv' /\ Grows /\ Untouched
<1>1. /\ DeleteClips({c}) /\ files' = files \ {c.id} /\ touched' = touched \cup {d.job : d \in {c}}
      /\ calls' = calls + 1 /\ UNCHANGED <<ingest, nextId, pc, call, paid, sprung, wiped>>
    BY DEF Delete
<1>2. /\ Grows /\ Untouched /\ ClipsFit' /\ touched' \subseteq Jobs
      /\ work' \subseteq Users \X Ids(clips') /\ traps' \subseteq Ids(clips')
    BY <1>1, DropMoves
<1>3. \A l \in Calls : CallFits(l)'
    BY <1>1, <1>2, CallKept
<1>4. IngestTypes'
    BY <1>1 DEF TypeInv, IngestTypes, ingest
<1>5. files' \subseteq 1..(nextId' - 1) /\ calls' \in Nat
    <2>1. files' \subseteq files /\ nextId' = nextId /\ calls' = calls + 1
        BY <1>1
    <2> QED
        BY <2>1 DEF TypeInv, StudioTypes
<1>6. StudioTypes'
    BY <1>1, <1>2, <1>5 DEF TypeInv, StudioTypes
<1> QED
    BY <1>2, <1>3, <1>4, <1>6 DEF TypeInv

LEMMA CleanRowMoves ==
    ASSUME TypeInv, NEW k \in Calls, CleanRow(k)
    PROVE  TypeInv' /\ Grows /\ Untouched
<1> DEFINE cs == {c \in clips : c.id = call[k].clip}
           r  == [call[k] EXCEPT !.clip = 0]
<1>1. /\ DeleteClips(cs) /\ touched' = touched \cup {c.job : c \in cs}
      /\ Step(k, "clean", r) /\ UNCHANGED <<ingest, nextId, files, paid, sprung, wiped, calls>>
    BY DEF CleanRow
<1>2. r \in CallState
    BY CallTypes, CallRecords
<1> HIDE DEF r
<1>3. /\ Grows /\ Untouched /\ ClipsFit' /\ touched' \subseteq Jobs
      /\ work' \subseteq Users \X Ids(clips') /\ traps' \subseteq Ids(clips')
    BY <1>1, DropMoves
<1>4. /\ pc' \in [Calls -> CallPcs] /\ call' \in [Calls -> CallState] /\ pc'[k] = "clean"
      /\ \A l \in Calls \ {k} : pc'[l] = pc[l] /\ call'[l] = call[l]
    BY <1>1, <1>2, StepTypes DEF CallPcs
<1>5. CallFits(k)'
    BY <1>4 DEF CallFits
<1>6. \A l \in Calls : CallFits(l)'
    BY <1>3, <1>4, <1>5, CallKept
<1>7. IngestTypes' /\ StudioTypes'
    BY <1>1, <1>3, <1>4 DEF TypeInv, IngestTypes, StudioTypes, ingest
<1> QED
    BY <1>3, <1>6, <1>7 DEF TypeInv

LEMMA DropClipMoves ==
    ASSUME TypeInv, NEW k \in Calls, DropClip(k)
    PROVE  TypeInv' /\ Grows /\ Untouched
<1> DEFINE cs == {c \in clips : c.id = call[k].clip}
<1>1. /\ DeleteClips(cs) /\ files' = files \ {call[k].clip} /\ Finish(k) /\ pc[k] = "droprow"
      /\ UNCHANGED <<ingest, nextId, paid, sprung, touched, wiped, calls>>
    BY DEF DropClip
<1>2. \A c \in cs : c.job \in touched
    BY <1>1, CallTypes DEF CallFits
<1>3. touched' = touched \cup {c.job : c \in cs}
    BY <1>1, <1>2
<1>4. /\ Grows /\ Untouched /\ ClipsFit'
      /\ work' \subseteq Users \X Ids(clips') /\ traps' \subseteq Ids(clips')
    BY <1>1, <1>3, DropMoves
<1>5. /\ pc' \in [Calls -> CallPcs] /\ call' \in [Calls -> CallState] /\ pc'[k] = "idle"
      /\ \A l \in Calls \ {k} : pc'[l] = pc[l] /\ call'[l] = call[l]
    BY <1>1, FinishTypes
<1>6. CallFits(k)'
    BY <1>5 DEF CallFits
<1>7. \A l \in Calls : CallFits(l)'
    BY <1>4, <1>5, <1>6, CallKept
<1>8. IngestTypes' /\ StudioTypes'
    BY <1>1, <1>4, <1>5 DEF TypeInv, IngestTypes, StudioTypes, ingest
<1> QED
    BY <1>4, <1>7, <1>8 DEF TypeInv

\* The parts of a clip have ids of their own.
LEMMA PartsFit ==
    ASSUME TypeInv, NEW c \in Clip, NEW n \in 0..2, n > 0 => nextId + n - 1 \in ClipIds,
           clips' = clips \cup Parts(c, n), nextId' = nextId + n
    PROVE  /\ ClipsFit' /\ Ids(Parts(c, n)) \subseteq 1..(nextId' - 1)
           /\ Ids(clips) \subseteq Ids(clips')
           /\ \A d \in Parts(c, n) : d.job = c.job /\ ~(d.id < nextId)
<1>1. nextId \in Nat /\ nextId >= 1 /\ nextId' \in Nat /\ MaxClips \in Nat
    BY MediaStudioAssumption DEF TypeInv, ClipsFit
<1>2. \A d \in Parts(c, n) : \E i \in nextId..(nextId + n - 1) : d = [c EXCEPT !.id = i]
    BY DEF Parts
<1>3. ASSUME NEW i \in nextId..(nextId + n - 1)
      PROVE  i \in ClipIds /\ i < nextId' /\ ~(i < nextId) /\ i \in Nat \ {0}
    BY <1>1, <1>3 DEF ClipIds
<1>4. ASSUME NEW i \in nextId..(nextId + n - 1)
      PROVE  LET d == [c EXCEPT !.id = i] IN d \in Clip /\ d.id = i /\ d.job = c.job
    BY <1>3, <1>4 DEF Clip
<1>5. \A d \in Parts(c, n) : /\ d \in Clip /\ d.job = c.job /\ d.id \in Nat \ {0}
                             /\ d.id < nextId' /\ ~(d.id < nextId)
    <2> SUFFICES ASSUME NEW d \in Parts(c, n)
                 PROVE  /\ d \in Clip /\ d.job = c.job /\ d.id \in Nat \ {0}
                        /\ d.id < nextId' /\ ~(d.id < nextId)
        OBVIOUS
    <2>1. PICK i \in nextId..(nextId + n - 1) : d = [c EXCEPT !.id = i]
        BY <1>2
    <2>2. d \in Clip /\ d.id = i /\ d.job = c.job
        BY <1>4, <2>1
    <2> QED
        BY <1>3, <2>2
<1>6. \A d, e \in Parts(c, n) : d.id = e.id => d = e
    BY <1>2, <1>4
<1>7. \A d \in clips : d.id < nextId /\ d \in Clip /\ d.id \in Nat
    BY DEF TypeInv, ClipsFit, Clip, ClipIds
<1>8. ClipsFit'
    <2>1. clips' \subseteq Clip /\ nextId' \in Nat \ {0}
        BY <1>1, <1>5, <1>7
    <2>2. \A d \in clips' : d.id < nextId'
        BY <1>1, <1>5, <1>7
    <2>3. \A d, e \in clips' : d.id = e.id => d = e
        BY <1>5, <1>6, <1>7 DEF TypeInv, ClipsFit
    <2> QED
        BY <2>1, <2>2, <2>3 DEF ClipsFit
<1>9. Ids(Parts(c, n)) \subseteq 1..(nextId' - 1)
    BY <1>1, <1>5 DEF Ids
<1> QED
    BY <1>5, <1>8, <1>9 DEF Ids

LEMMA RecutPartsMoves ==
    ASSUME TypeInv, NEW k \in Calls, RecutParts(k)
    PROVE  TypeInv' /\ Grows /\ Untouched
<1>1. CallFits(k) /\ pc[k] = "recut" /\ nextId \in Nat
    BY CallTypes DEF RecutParts
<1>2. PICK c \in call[k].row, n \in 0..2 :
          /\ n > 0 => nextId + n - 1 \in ClipIds
          /\ clips' = clips \cup Parts(c, n)
          /\ files' = files \cup Ids(Parts(c, n))
          /\ nextId' = nextId + n
          /\ touched' = IF n > 0 THEN touched \cup {c.job} ELSE touched
          /\ IF n = 0 THEN Finish(k) ELSE Step(k, "droprow", [call[k] EXCEPT !.row = {}])
    BY DEF RecutParts
<1>3. /\ c \in Clip /\ c.job \in Jobs /\ c.id = call[k].clip /\ call[k].clip < nextId
      /\ call[k].clip \in ClipIds
      /\ \A d \in clips : d.id = c.id => d = c
    BY <1>1, <1>2 DEF CallFits, Clip
<1>4. UNCHANGED <<ingest, work, traps, paid, sprung, wiped, calls>>
    BY DEF RecutParts
<1>5. /\ ClipsFit' /\ Ids(Parts(c, n)) \subseteq 1..(nextId' - 1) /\ Ids(clips) \subseteq Ids(clips')
      /\ \A d \in Parts(c, n) : d.job = c.job /\ ~(d.id < nextId)
    BY <1>2, <1>3, PartsFit
<1>6. n = 0 => Parts(c, n) = {}
    BY <1>1 DEF Parts
<1>7. Grows
    BY <1>1, <1>2, <1>5 DEF Grows
<1>8. Untouched
    BY <1>2, <1>5, <1>6 DEF Untouched, ClipsOf
<1> DEFINE r == [call[k] EXCEPT !.row = {}]
<1>9. r \in CallState /\ r.clip = call[k].clip
    BY CallTypes, CallRecords
<1> DEFINE Moved ==
        /\ pc' \in [Calls -> CallPcs] /\ call' \in [Calls -> CallState] /\ CallFits(k)'
        /\ \A l \in Calls \ {k} : pc'[l] = pc[l] /\ call'[l] = call[l]
<1>10. ASSUME n = 0 PROVE Moved
    <2>1. /\ pc' \in [Calls -> CallPcs] /\ call' \in [Calls -> CallState] /\ pc'[k] = "idle"
          /\ \A l \in Calls \ {k} : pc'[l] = pc[l] /\ call'[l] = call[l]
        BY <1>2, <1>10, FinishTypes
    <2> QED
        BY <2>1 DEF CallFits
<1>11. ASSUME n # 0 PROVE Moved
    <2>1. Step(k, "droprow", r)
        BY <1>2, <1>11
    <2> HIDE DEF r
    <2>2. /\ pc' \in [Calls -> CallPcs] /\ call' \in [Calls -> CallState]
          /\ pc'[k] = "droprow" /\ call'[k] = r
          /\ \A l \in Calls \ {k} : pc'[l] = pc[l] /\ call'[l] = call[l]
        BY <1>9, <2>1, StepTypes DEF CallPcs
    <2>3. touched' = touched \cup {c.job}
        BY <1>2, <1>11
    <2>4. \A d \in clips' : d.id = call[k].clip => d = c
        BY <1>2, <1>3, <1>5
    <2>5. call[k].clip < nextId'
        BY <1>1, <1>2, <1>3 DEF ClipIds
    <2> QED
        BY <1>3, <1>9, <2>2, <2>3, <2>4, <2>5 DEF CallFits
<1>12. Moved
    BY <1>10, <1>11
<1>13. \A l \in Calls : CallFits(l)'
    BY <1>7, <1>12, CallKept
<1>14. files' \subseteq 1..(nextId' - 1)
    BY <1>1, <1>2, <1>5 DEF TypeInv, StudioTypes
<1>15. /\ touched' \subseteq Jobs
       /\ work' \subseteq Users \X Ids(clips') /\ traps' \subseteq Ids(clips')
    BY <1>2, <1>3, <1>4, <1>5 DEF TypeInv, StudioTypes
<1>16. IngestTypes' /\ StudioTypes'
    BY <1>4, <1>12, <1>14, <1>15 DEF TypeInv, IngestTypes, StudioTypes, ingest
<1> QED
    BY <1>5, <1>7, <1>8, <1>13, <1>16 DEF TypeInv

\* The requests that leave the clips alone.
LEMMA QuietMoves ==
    ASSUME TypeInv, NEW k \in Calls, InsertWork(k) \/ Grade(k) \/ Pay(k) \/ Listen(k) \/ Fail(k)
    PROVE  TypeInv' /\ UNCHANGED <<ingest, clips, nextId, touched>>
<1>1. UNCHANGED <<ingest, clips, nextId, traps, touched>>
    BY DEF InsertWork, Grade, Pay, Listen, Fail
<1>2. IngestTypes' /\ ClipsFit'
    BY <1>1 DEF TypeInv, IngestTypes, ClipsFit, ingest
<1>3. Grows
    BY <1>1 DEF Grows, TypeInv, ClipsFit
<1> DEFINE Moved ==
        /\ pc' \in [Calls -> CallPcs] /\ call' \in [Calls -> CallState] /\ CallFits(k)'
        /\ \A l \in Calls \ {k} : pc'[l] = pc[l] /\ call'[l] = call[l]
    Typed ==
        /\ files' \subseteq files /\ work' \subseteq Users \X Ids(clips)
        /\ paid' \in [Users \X ClipIds -> Nat] /\ sprung' \subseteq Users \X ClipIds
        /\ wiped' \subseteq ClipIds /\ calls' \in Nat
<1>4. CallFits(k) /\ call[k] \in CallState
    BY CallTypes
<1>5. ASSUME Finish(k) PROVE Moved
    BY <1>5, FinishTypes DEF CallFits
<1>6. ASSUME NEW to \in {"clean", "cleanrow"}, NEW r \in CallState, Step(k, to, r) PROVE Moved
    <2>1. to \in CallPcs
        BY DEF CallPcs
    <2> QED
        BY <1>6, <2>1, StepTypes DEF CallFits
<1>7. ASSUME InsertWork(k) PROVE Moved /\ Typed
    <2> DEFINE t == <<call[k].user, call[k].clip>>
    <2>1. /\ pc[k] = "insert" /\ UNCHANGED <<files, paid, sprung, wiped, calls>>
          /\ \/ Fresh(t) /\ work' = work \cup {t} /\ Step(k, "pay", call[k])
             \/ Finish(k) /\ UNCHANGED work
        BY <1>7 DEF InsertWork
    <2>2. Typed
        BY <1>4, <2>1 DEF CallFits, Fresh, TypeInv, StudioTypes
    <2>3. ASSUME Step(k, "pay", call[k]) PROVE Moved
        BY <1>1, <1>4, <2>1, <2>3, StepTypes DEF CallFits, CallPcs
    <2> QED
        BY <1>5, <2>1, <2>2, <2>3
<1>8. ASSUME Pay(k) PROVE Moved /\ Typed
    <2>1. PICK t : t = <<call[k].user, call[k].clip>>
        OBVIOUS
    <2>2. /\ pc[k] = "pay" /\ paid' = [paid EXCEPT ![t] = @ + 1] /\ Finish(k)
          /\ UNCHANGED <<files, work, sprung, wiped, calls>>
        BY <1>8, <2>1 DEF Pay
    <2>3. t \in Users \X ClipIds
        BY <1>4, <2>1, <2>2 DEF CallFits
    <2>4. paid' \in [Users \X ClipIds -> Nat]
        BY <2>2, <2>3 DEF TypeInv, StudioTypes
    <2> QED
        BY <1>5, <2>2, <2>4 DEF TypeInv, StudioTypes
<1>9. ASSUME Listen(k) PROVE Moved /\ Typed
    <2> DEFINE c == Min(call[k].batch)
               rest == [call[k] EXCEPT !.batch = call[k].batch \ {c}]
    <2>1. /\ UNCHANGED <<work, traps, paid, sprung, calls>>
          /\ \/ Finish(k) /\ UNCHANGED <<files, wiped>>
             \/ Step(k, "clean", rest) /\ UNCHANGED <<files, wiped>>
             \/ /\ call[k].batch # {} /\ Step(k, "cleanrow", [rest EXCEPT !.clip = c])
                /\ files' = files \ {c} /\ wiped' = wiped \cup {c}
        BY <1>9 DEF Listen
    <2>2. rest \in CallState
        BY <1>4, CallRecords
    <2>3. ASSUME call[k].batch # {} PROVE c \in ClipIds /\ [rest EXCEPT !.clip = c] \in CallState
        <3>1. call[k].batch \in SUBSET ClipIds /\ call[k].batch \in SUBSET Nat
            BY CallTypes DEF ClipIds
        <3>2. c \in ClipIds
            BY <2>3, <3>1, MinExists
        <3> QED
            BY <1>4, <3>2, CallRecords
    <2> HIDE DEF rest, c
    <2>4. Moved
        BY <1>5, <1>6, <2>1, <2>2, <2>3
    <2>5. Typed
        BY <2>1, <2>3 DEF TypeInv, StudioTypes
    <2> QED
        BY <2>4, <2>5
<1>10. ASSUME Fail(k) PROVE Moved /\ Typed
    BY <1>5, <1>10 DEF Fail, TypeInv, StudioTypes
<1>11. ASSUME Grade(k) PROVE Moved /\ Typed
    <2> DEFINE t == <<call[k].user, call[k].clip>>
    <2>1. /\ pc[k] = "trap" /\ UNCHANGED <<files, work, paid, wiped, calls>>
          /\ \/ sprung' = sprung \cup {t} /\ Step(k, "pay", call[k])
             \/ Finish(k) /\ UNCHANGED sprung
        BY <1>11 DEF Grade
    <2>2. t \in Users \X ClipIds
        BY <1>4, <2>1 DEF CallFits
    <2>3. Typed
        BY <2>1, <2>2 DEF TypeInv, StudioTypes
    <2>4. ASSUME Step(k, "pay", call[k]) PROVE Moved
        BY <1>1, <1>4, <2>1, <2>4, StepTypes DEF CallFits, CallPcs
    <2> QED
        BY <1>5, <2>1, <2>3, <2>4
<1>12. Moved /\ Typed
    BY <1>7, <1>8, <1>9, <1>10, <1>11
<1>13. \A l \in Calls : CallFits(l)'
    BY <1>3, <1>12, CallKept
<1>14. StudioTypes'
    BY <1>1, <1>12 DEF TypeInv, StudioTypes, Ids
<1> QED
    BY <1>1, <1>2, <1>13, <1>14 DEF TypeInv

LEMMA RequestMoves ==
    ASSUME TypeInv, NEW k \in Calls, Request(k)
    PROVE  TypeInv' /\ Grows /\ Untouched /\ UNCHANGED ingest
<1>1. UNCHANGED ingest
    BY DEF Request, Recut, Delete, Submit, Clean, Arrive, RecutParts, InsertWork, Grade,
           Pay, Listen, CleanRow, DropClip, Fail
<1>2. ASSUME UNCHANGED <<clips, nextId, touched>> PROVE Grows /\ Untouched
    BY <1>2 DEF Grows, Untouched, ClipsOf, TypeInv, ClipsFit
<1>3. CASE \/ \E c \in clips : Recut(k, c) \/ \E u \in Users : Submit(k, u, c)
           \/ \E j \in Jobs : Clean(k, j)
    BY <1>1, <1>2, <1>3, ArriveMoves
<1>4. CASE \E c \in clips : Delete(k, c)
    BY <1>1, <1>4, DeleteMoves
<1>5. CASE InsertWork(k) \/ Grade(k) \/ Pay(k) \/ Listen(k) \/ Fail(k)
    BY <1>1, <1>2, <1>5, QuietMoves
<1>6. CASE RecutParts(k) \/ CleanRow(k) \/ DropClip(k)
    BY <1>1, <1>6, RecutPartsMoves, CleanRowMoves, DropClipMoves
<1> QED
    BY <1>3, <1>4, <1>5, <1>6 DEF Request

----------------------------------------------------------------------------
(* Type correctness.                                                       *)

LEMMA StudioKept ==
    ASSUME TypeInv, IngestTypes', UNCHANGED studio
    PROVE  TypeInv'
BY DEF TypeInv, ClipsFit, StudioTypes, CallFits, studio, Ids

LEMMA CutKeepsTypes ==
    ASSUME TypeInv, NEW w \in Workers, NEW j \in Jobs, Cut(w, j)
    PROVE  TypeInv' /\ Grows
<1>1. /\ IngestTypes' /\ UNCHANGED <<work, traps, pc, call, paid, sprung, touched, wiped, calls>>
      /\ \/ \E s \in run[w][j].left :
                /\ nextId \in ClipIds /\ clips' = clips \cup {NewClip(j, s)}
                /\ files' = files \cup {nextId} /\ nextId' = nextId + 1
         \/ UNCHANGED <<clips, files, nextId>>
    BY CutMoves DEF TypeInv
<1>2. CASE UNCHANGED <<clips, files, nextId>>
    <2>1. UNCHANGED studio
        BY <1>1, <1>2 DEF studio
    <2>2. Grows
        BY <2>1 DEF Grows, studio, TypeInv, ClipsFit
    <2> QED
        BY <1>1, <2>1, <2>2, StudioKept
<1>3. CASE \E s \in run[w][j].left :
                /\ nextId \in ClipIds /\ clips' = clips \cup {NewClip(j, s)}
                /\ files' = files \cup {nextId} /\ nextId' = nextId + 1
    <2>1. PICK s \in run[w][j].left :
                /\ nextId \in ClipIds /\ clips' = clips \cup {NewClip(j, s)}
                /\ files' = files \cup {nextId} /\ nextId' = nextId + 1
        BY <1>3
    <2>2. NewClip(j, s) \in Clip /\ NewClip(j, s).id = nextId
        BY <2>1, RunTypes DEF NewClip, Clip, TypeInv
    <2>3. nextId \in Nat /\ nextId >= 1 /\ \A d \in clips : d.id < nextId /\ d.id \in Nat
        BY DEF TypeInv, ClipsFit, Clip, ClipIds
    <2> HIDE DEF NewClip
    <2>4. ClipsFit'
        BY <2>1, <2>2, <2>3 DEF TypeInv, ClipsFit
    <2>5. Grows
        BY <1>1, <2>1, <2>2, <2>3 DEF Grows
    <2>6. \A k \in Calls : CallFits(k)'
        BY <1>1, <2>5, CallKept
    <2>7. Ids(clips) \subseteq Ids(clips')
        BY <2>1 DEF Ids
    <2>8. files' \subseteq 1..(nextId' - 1)
        <3>1. nextId \in 1..(nextId' - 1) /\ 1..(nextId - 1) \subseteq 1..(nextId' - 1)
            BY <2>1, <2>3
        <3> QED
            BY <2>1, <3>1 DEF TypeInv, StudioTypes
    <2>9. StudioTypes'
        BY <1>1, <2>7, <2>8 DEF TypeInv, StudioTypes
    <2> QED
        BY <1>1, <2>4, <2>5, <2>6, <2>9 DEF TypeInv
<1> QED
    BY <1>1, <1>2, <1>3

LEMMA ResumeKeepsTypes ==
    ASSUME TypeInv, NEW w \in Workers, NEW e \in todo[w], Resume(w, e)
    PROVE  TypeInv' /\ Grows
<1>1. /\ IngestTypes'
      /\ UNCHANGED <<nextId, files, pc, call, paid, sprung, touched, wiped, calls>>
      /\ UNCHANGED <<clips, work, traps>> \/ DeleteClips(ClipsOf(e.job))
    BY ResumeMoves DEF TypeInv
<1>2. CASE UNCHANGED <<clips, work, traps>>
    <2>1. UNCHANGED studio
        BY <1>1, <1>2 DEF studio
    <2>2. Grows
        BY <2>1 DEF Grows, studio, TypeInv, ClipsFit
    <2> QED
        BY <1>1, <2>1, <2>2, StudioKept
<1>3. CASE DeleteClips(ClipsOf(e.job))
    <2>1. /\ clips' \subseteq clips /\ ClipsFit'
          /\ work' \subseteq Users \X Ids(clips') /\ traps' \subseteq Ids(clips')
        BY <1>1, <1>3, DeleteClipsMoves
    <2>2. Grows
        BY <1>1, <2>1 DEF Grows, TypeInv, ClipsFit
    <2>3. \A k \in Calls : CallFits(k)'
        BY <1>1, <2>2, CallKept
    <2>4. StudioTypes'
        BY <1>1, <2>1 DEF TypeInv, StudioTypes
    <2> QED
        BY <1>1, <2>1, <2>2, <2>3, <2>4 DEF TypeInv
<1> QED
    BY <1>1, <1>2, <1>3

LEMMA InitTypes == Init => TypeInv
<1> SUFFICES ASSUME Init PROVE TypeInv
    OBVIOUS
<1>1. IngestTypes
    BY NoRecords DEF Init, IngestTypes, JobRow
<1>2. ClipsFit /\ StudioTypes
    BY NoRecords DEF Init, ClipsFit, StudioTypes, CallPcs
<1>3. \A k \in Calls : CallFits(k)
    BY DEF Init, CallFits
<1> QED
    BY <1>1, <1>2, <1>3 DEF TypeInv

\* The steps of the ingest that leave the clips alone.
QuietIngest ==
    \/ \E w \in Workers, j \in Jobs :
        \/ Begin(w, j) \/ Conclude(w, j) \/ StatusLost(w, j)
        \/ \E url \in BOOLEAN : Ingest(w, j, url)
    \/ \E w \in Workers : Boot(w) \/ ResumeFails(w)
    \/ \E ws \in SUBSET Workers : Crash(ws)
    \/ NextWindow

LEMMA QuietIngestKeepsTypes ==
    ASSUME TypeInv, QuietIngest
    PROVE  TypeInv' /\ UNCHANGED studio
<1>1. IngestTypes
    BY DEF TypeInv
<1>2. CASE \E w \in Workers, j \in Jobs :
            \/ Begin(w, j) \/ Conclude(w, j) \/ StatusLost(w, j)
            \/ \E url \in BOOLEAN : Ingest(w, j, url)
    BY <1>1, <1>2, BeginMoves, ConcludeMoves, IngestMoves, StudioKept
<1>3. CASE \E w \in Workers : Boot(w) \/ ResumeFails(w)
    BY <1>1, <1>3, BootMoves, ResumeFailsMoves, StudioKept
<1>4. CASE \E ws \in SUBSET Workers : Crash(ws)
    BY <1>1, <1>4, CrashMoves, StudioKept
<1>5. CASE NextWindow
    <2>1. IngestTypes' /\ UNCHANGED studio
        BY <1>1, <1>5 DEF NextWindow, IngestTypes
    <2> QED
        BY <2>1, StudioKept
<1> QED
    BY <1>2, <1>3, <1>4, <1>5 DEF QuietIngest

LEMMA HoneypotKeepsTypes ==
    ASSUME TypeInv, NEW c \in clips, Honeypot(c)
    PROVE  /\ TypeInv' /\ Grows
           /\ UNCHANGED <<job, run, todo, contested, skipped>>
           /\ UNCHANGED <<clips, files, work, pc, call, paid, sprung, touched, wiped>>
<1>1. /\ UNCHANGED <<up, claimed, job, staged, run, todo, contested, skipped, stranded>>
      /\ UNCHANGED <<clips, nextId, files, work, pc, call, paid, sprung, touched, wiped, calls>>
      /\ upsets' = upsets + 1 /\ traps' \subseteq traps \cup {c.id}
    BY DEF Honeypot
<1>2. IngestTypes' /\ ClipsFit' /\ Grows
    BY <1>1 DEF TypeInv, IngestTypes, ClipsFit, Grows
<1>3. traps' \subseteq Ids(clips)
    BY <1>1 DEF Ids, TypeInv, StudioTypes
<1>4. StudioTypes'
    BY <1>1, <1>3 DEF TypeInv, StudioTypes, Ids
<1>5. \A k \in Calls : CallFits(k)'
    BY <1>1, <1>2, CallKept
<1> QED
    BY <1>1, <1>2, <1>4, <1>5 DEF TypeInv

LEMMA StepCases ==
    ASSUME [Next]_vars
    PROVE  \/ \E w \in Workers, j \in Jobs : Cut(w, j)
           \/ \E w \in Workers : \E e \in todo[w] : Resume(w, e)
           \/ QuietIngest
           \/ \E c \in clips : Honeypot(c)
           \/ \E k \in Calls : Request(k)
           \/ UNCHANGED vars
BY DEF Next, RunStep, ResumeStep, QuietIngest

LEMMA TypesKept == TypeInv /\ [Next]_vars => TypeInv'
<1> SUFFICES ASSUME TypeInv, [Next]_vars PROVE TypeInv'
    OBVIOUS
<1>1. CASE UNCHANGED vars
    <2>1. IngestTypes' /\ UNCHANGED studio
        BY <1>1 DEF vars, ingest, TypeInv, IngestTypes
    <2> QED
        BY <2>1, StudioKept
<1> QED
    BY <1>1, StepCases, CutKeepsTypes, ResumeKeepsTypes, QuietIngestKeepsTypes,
       HoneypotKeepsTypes, RequestMoves

\* Every variable keeps its type, and no two clips have the same id (the
\* statements of routes/media.ts and services/media-ingest.ts).
THEOREM TypeCorrect == Spec => []TypeOK
<1>1. Spec => []TypeInv
    BY InitTypes, TypesKept, PTL DEF Spec
<1> QED
    BY <1>1, TypeInvIsTypeOK, PTL

----------------------------------------------------------------------------
(* A clip that can be served has its file.                                 *)

LEMMA FilesGrow ==
    ASSUME ClipHasFile, clips' \subseteq clips, files \subseteq files' \cup wiped',
           wiped \subseteq wiped'
    PROVE  ClipHasFile'
BY DEF ClipHasFile, Ids

LEMMA FilesKeptByRequests ==
    ASSUME TypeInv, ClipHasFile, NEW k \in Calls, Request(k)
    PROVE  ClipHasFile'
<1>1. CASE \/ \E c \in clips : Recut(k, c) \/ \E u \in Users : Submit(k, u, c)
           \/ \E j \in Jobs : Clean(k, j)
    <2>1. UNCHANGED <<clips, files, wiped>>
        BY <1>1 DEF Recut, Submit, Clean
    <2> QED
        BY <2>1, FilesGrow
<1>2. ASSUME NEW c \in clips, Delete(k, c) PROVE ClipHasFile'
    <2>1. clips' = clips \ {c} /\ files' = files \ {c.id} /\ wiped' = wiped
        BY <1>2 DEF Delete, DeleteClips
    <2>2. \A d \in clips' : d \in clips /\ d.id # c.id
        BY <2>1 DEF TypeInv, ClipsFit
    <2> QED
        BY <2>1, <2>2 DEF ClipHasFile, Ids
<1>3. CASE InsertWork(k) \/ Grade(k) \/ Pay(k) \/ Fail(k)
    <2>1. UNCHANGED <<clips, files, wiped>>
        BY <1>3 DEF InsertWork, Grade, Pay, Fail
    <2> QED
        BY <2>1, FilesGrow
<1>4. CASE Listen(k)
    <2>1. /\ clips' = clips
          /\ \/ UNCHANGED <<files, wiped>>
             \/ \E c : files' = files \ {c} /\ wiped' = wiped \cup {c}
        BY <1>4 DEF Listen
    <2> QED
        BY <2>1, FilesGrow
<1>5. CASE RecutParts(k)
    <2>1. PICK c, n : /\ clips' = clips \cup Parts(c, n)
                      /\ files' = files \cup Ids(Parts(c, n)) /\ wiped' = wiped
        BY <1>5 DEF RecutParts
    <2> QED
        BY <2>1 DEF ClipHasFile, Ids
<1>6. CASE CleanRow(k)
    <2>1. clips' \subseteq clips /\ UNCHANGED <<files, wiped>>
        BY <1>6 DEF CleanRow, DeleteClips
    <2> QED
        BY <2>1, FilesGrow
<1>7. CASE DropClip(k)
    <2>1. /\ clips' = clips \ {c \in clips : c.id = call[k].clip}
          /\ files' = files \ {call[k].clip} /\ wiped' = wiped
        BY <1>7 DEF DropClip, DeleteClips
    <2> QED
        BY <2>1 DEF ClipHasFile, Ids
<1> QED
    BY <1>1, <1>2, <1>3, <1>4, <1>5, <1>6, <1>7 DEF Request

LEMMA FilesKept == TypeInv /\ ClipHasFile /\ [Next]_vars => ClipHasFile'
<1> SUFFICES ASSUME TypeInv, ClipHasFile, [Next]_vars PROVE ClipHasFile'
    OBVIOUS
<1>1. CASE \E w \in Workers, j \in Jobs : Cut(w, j)
    <2>1. PICK w \in Workers, j \in Jobs : Cut(w, j)
        BY <1>1
    <2>2. /\ wiped' = wiped
          /\ \/ \E s : /\ clips' = clips \cup {NewClip(j, s)}
                       /\ files' = files \cup {nextId}
             \/ UNCHANGED <<clips, files>>
        BY <2>1, CutMoves DEF TypeInv
    <2>3. \A s : NewClip(j, s).id = nextId
        BY DEF NewClip
    <2> QED
        BY <2>2, <2>3 DEF ClipHasFile, Ids
<1>2. CASE \E w \in Workers : \E e \in todo[w] : Resume(w, e)
    <2>1. clips' \subseteq clips /\ UNCHANGED <<files, wiped>>
        BY <1>2 DEF Resume, DeleteClips
    <2> QED
        BY <2>1, FilesGrow
<1>3. CASE QuietIngest \/ UNCHANGED vars
    <2>1. UNCHANGED studio
        BY <1>3, QuietIngestKeepsTypes DEF vars
    <2> QED
        BY <2>1, FilesGrow DEF studio
<1>4. CASE \E c \in clips : Honeypot(c)
    BY <1>4, HoneypotKeepsTypes, FilesGrow
<1> QED
    BY <1>1, <1>2, <1>3, <1>4, StepCases, FilesKeptByRequests

\* A clip that can be served has its file, unless /clean has removed it
\* (routes/media.ts: a file is stored before its row is inserted, and a row is
\* deleted before its file, but in /clean).
THEOREM ClipsHaveFiles == Spec => []ClipHasFile
<1>1. Init => ClipHasFile
    BY DEF Init, ClipHasFile, Ids
<1>2. Spec => [](TypeInv /\ ClipHasFile)
    BY <1>1, InitTypes, TypesKept, FilesKept, PTL DEF Spec
<1> QED
    BY <1>2, PTL

----------------------------------------------------------------------------
(* A transcription is paid once.                                           *)

Transcriptions == Users \X ClipIds
Paying(k)  == <<call[k].user, call[k].clip>>

\* The row of a transcription is there, or its clip has gone for good.
Settled(t) == t \in work \/ ~(t[2] \in Ids(clips))

\* But for the answers that met a trap: what is being paid was not paid and by
\* nobody else, and cannot be sent again, nor can what was paid.
PayInv ==
    /\ \A k \in Calls : pc[k] = "pay" /\ Paying(k) \notin sprung =>
        /\ Settled(Paying(k)) /\ paid[Paying(k)] = 0
        /\ \A l \in Calls : pc[l] = "pay" /\ Paying(l) = Paying(k) => l = k
    /\ \A t \in Transcriptions \ sprung :
        \/ paid[t] = 0
        \/ paid[t] = 1 /\ t[2] < nextId /\ Settled(t)

LEMMA SettledKept ==
    ASSUME TypeInv, Grows, NEW t \in Transcriptions, t[2] < nextId, Settled(t),
           \/ work \subseteq work'
           \/ \E cs \in SUBSET clips : work' = {x \in work : x[2] \notin Ids(cs)} /\ clips' = clips \ cs
    PROVE  Settled(t)' /\ t[2] < nextId'
<1>1. t[2] \in Nat /\ nextId \in Nat
    BY DEF Transcriptions, ClipIds, TypeInv, ClipsFit
<1>2. t[2] < nextId'
    BY <1>1 DEF Grows
<1>3. \A d \in clips' : d.id = t[2] => d \in clips
    BY DEF Grows
<1>4. t[2] \in Ids(clips') => t[2] \in Ids(clips)
    BY <1>3 DEF Ids
<1>5. CASE work \subseteq work'
    BY <1>2, <1>4, <1>5 DEF Settled
<1>6. CASE \E cs \in SUBSET clips : work' = {x \in work : x[2] \notin Ids(cs)} /\ clips' = clips \ cs
    <2>1. PICK cs \in SUBSET clips : work' = {x \in work : x[2] \notin Ids(cs)} /\ clips' = clips \ cs
        BY <1>6
    <2>2. ASSUME t[2] \in Ids(cs) PROVE t[2] \notin Ids(clips')
        <3>1. PICK c \in cs : c.id = t[2]
            BY <2>2 DEF Ids
        <3>2. \A d \in clips' : d.id # t[2]
            BY <1>3, <2>1, <3>1 DEF TypeInv, ClipsFit
        <3> QED
            BY <3>2 DEF Ids
    <2> QED
        BY <1>2, <1>4, <2>1, <2>2 DEF Settled
<1> QED
    BY <1>5, <1>6

\* Transcriptions go with their clips only.
WorkGoesOn ==
    \/ work \subseteq work'
    \/ \E cs \in SUBSET clips : work' = {x \in work : x[2] \notin Ids(cs)} /\ clips' = clips \ cs

LEMMA PayKept ==
    ASSUME TypeInv, PayInv, Grows, WorkGoesOn, paid' = paid, sprung \subseteq sprung',
           \A k \in Calls : pc'[k] = "pay" =>
               (pc[k] = "pay" /\ call'[k] = call[k]) \/ Paying(k)' \in sprung'
    PROVE  PayInv'
<1>1. \A k \in Calls : pc[k] = "pay" => Paying(k) \in Transcriptions /\ Paying(k)[2] < nextId
    BY DEF TypeInv, CallFits, Paying, Transcriptions
<1>2. \A t \in Transcriptions : t[2] < nextId /\ Settled(t) => Settled(t)' /\ t[2] < nextId'
    BY SettledKept DEF WorkGoesOn
<1>3. \A k \in Calls : pc'[k] = "pay" /\ Paying(k)' \notin sprung' =>
          pc[k] = "pay" /\ Paying(k)' = Paying(k)
    BY DEF Paying
<1>4. ASSUME NEW k \in Calls, pc'[k] = "pay", Paying(k)' \notin sprung'
      PROVE  /\ Settled(Paying(k))' /\ paid'[Paying(k)'] = 0
             /\ \A l \in Calls : pc'[l] = "pay" /\ Paying(l)' = Paying(k)' => l = k
    <2>1. PICK t : t = Paying(k)
        OBVIOUS
    <2>2. Paying(k)' = t /\ t \notin sprung
        BY <1>3, <1>4, <2>1
    <2>3. /\ pc[k] = "pay" /\ Settled(t) /\ paid[t] = 0 /\ t \in Transcriptions /\ t[2] < nextId
          /\ \A l \in Calls : pc[l] = "pay" /\ Paying(l) = t => l = k
        BY <1>1, <1>3, <1>4, <2>1, <2>2 DEF PayInv
    <2>4. Settled(t)'
        BY <1>2, <2>3
    <2>5. Settled(Paying(k))'
        BY <2>2, <2>4 DEF Settled
    <2>6. paid'[Paying(k)'] = 0
        BY <2>2, <2>3
    <2>7. ASSUME NEW l \in Calls, pc'[l] = "pay", Paying(l)' = Paying(k)' PROVE l = k
        BY <1>3, <1>4, <2>2, <2>3, <2>7
    <2> QED
        BY <2>5, <2>6, <2>7
<1>5. \A t \in Transcriptions \ sprung' :
          \/ paid'[t] = 0
          \/ paid'[t] = 1 /\ t[2] < nextId' /\ Settled(t)'
    BY <1>2 DEF PayInv
<1>6. (\A k \in Calls : pc[k] = "pay" /\ Paying(k) \notin sprung =>
        /\ Settled(Paying(k)) /\ paid[Paying(k)] = 0
        /\ \A l \in Calls : pc[l] = "pay" /\ Paying(l) = Paying(k) => l = k)'
    BY <1>4
<1>7. (\A t \in Transcriptions \ sprung :
        \/ paid[t] = 0
        \/ paid[t] = 1 /\ t[2] < nextId /\ Settled(t))'
    BY <1>5 DEF Transcriptions
<1> QED
    BY <1>6, <1>7 DEF PayInv

\* An inserted transcription is paid for the first time.
LEMMA InsertWorkKeepsPays ==
    ASSUME TypeInv, PayInv, NEW k \in Calls, InsertWork(k), Grows
    PROVE  PayInv'
<1>1. PICK t : t = Paying(k)
    OBVIOUS
<1>2. /\ pc[k] = "insert" /\ UNCHANGED <<clips, nextId, paid, sprung>>
      /\ \/ Fresh(t) /\ work' = work \cup {t} /\ Step(k, "pay", call[k])
         \/ Finish(k) /\ UNCHANGED work
    BY <1>1 DEF InsertWork, Paying
<1>3. CASE Finish(k) /\ UNCHANGED work
    <2>1. /\ pc'[k] = "idle" /\ \A l \in Calls \ {k} : pc'[l] = pc[l] /\ call'[l] = call[l]
        BY <1>3, FinishTypes
    <2> QED
        BY <1>2, <1>3, <2>1, PayKept DEF WorkGoesOn
<1>4. CASE Fresh(t) /\ work' = work \cup {t} /\ Step(k, "pay", call[k])
    <2>1. /\ pc'[k] = "pay" /\ call'[k] = call[k]
          /\ \A l \in Calls \ {k} : pc'[l] = pc[l] /\ call'[l] = call[l]
        BY <1>4, CallTypes, StepTypes DEF CallPcs
    <2>2. t \in Transcriptions /\ ~Settled(t)
        BY <1>1, <1>2, <1>4 DEF TypeInv, CallFits, Paying, Transcriptions, Fresh, Settled
    <2>3. t \notin sprung =>
              paid[t] = 0 /\ \A l \in Calls : pc[l] = "pay" => Paying(l) # t
        BY <2>2 DEF PayInv
    <2>4. /\ \A l \in Calls : Paying(l)' = Paying(l)
          /\ \A l \in Calls : pc'[l] = "pay" => l = k \/ pc[l] = "pay"
        BY <2>1 DEF Paying
    <2>5. ASSUME NEW x, Settled(x) PROVE Settled(x)'
        BY <1>2, <1>4, <2>5 DEF Settled, Ids
    <2>6. ASSUME NEW l \in Calls, pc'[l] = "pay", Paying(l)' \notin sprung'
          PROVE  /\ Settled(Paying(l))' /\ paid'[Paying(l)'] = 0
                 /\ \A i \in Calls : pc'[i] = "pay" /\ Paying(i)' = Paying(l)' => i = l
        <3>1. PICK x : x = Paying(l)
            OBVIOUS
        <3>2. x \notin sprung /\ (l # k => pc[l] = "pay")
            BY <1>2, <2>4, <2>6, <3>1
        <3>3. x \in work' \/ Settled(x)'
            BY <1>1, <1>4, <2>5, <3>1, <3>2 DEF PayInv
        <3>4. Settled(Paying(l))'
            BY <2>4, <3>1, <3>3 DEF Settled
        <3>5. paid'[Paying(l)'] = 0
            BY <1>1, <1>2, <2>3, <2>4, <3>1, <3>2 DEF PayInv
        <3>6. \A i \in Calls : pc'[i] = "pay" /\ Paying(i)' = Paying(l)' => i = l
            BY <1>1, <2>3, <2>4, <3>1, <3>2 DEF PayInv
        <3> QED
            BY <3>4, <3>5, <3>6
    <2>7. (\A l \in Calls : pc[l] = "pay" /\ Paying(l) \notin sprung =>
            /\ Settled(Paying(l)) /\ paid[Paying(l)] = 0
            /\ \A i \in Calls : pc[i] = "pay" /\ Paying(i) = Paying(l) => i = l)'
        BY <2>6
    <2>8. (\A x \in Transcriptions \ sprung :
            \/ paid[x] = 0
            \/ paid[x] = 1 /\ x[2] < nextId /\ Settled(x))'
        BY <1>2, <2>5 DEF PayInv, Transcriptions
    <2> QED
        BY <2>7, <2>8 DEF PayInv
<1> QED
    BY <1>2, <1>3, <1>4

LEMMA PayKeepsPays ==
    ASSUME TypeInv, PayInv, NEW k \in Calls, Pay(k)
    PROVE  PayInv'
<1>1. PICK t : t = Paying(k)
    OBVIOUS
<1>2. /\ pc[k] = "pay" /\ Finish(k) /\ UNCHANGED <<clips, nextId, work, sprung>>
      /\ paid' = [paid EXCEPT ![t] = @ + 1]
    BY <1>1 DEF Pay, Paying
<1>3. t \in Transcriptions /\ t[2] < nextId
    BY <1>1, <1>2 DEF TypeInv, CallFits, Paying, Transcriptions
<1>4. t \notin sprung =>
      /\ Settled(t) /\ paid[t] = 0
      /\ \A l \in Calls : pc[l] = "pay" /\ Paying(l) = t => l = k
    BY <1>1, <1>2 DEF PayInv
<1>5. /\ t \notin sprung => paid'[t] = 1
      /\ \A x \in Transcriptions \ {t} : paid'[x] = paid[x]
    BY <1>2, <1>3, <1>4 DEF TypeInv, StudioTypes, Transcriptions
<1>6. /\ pc'[k] = "idle" /\ \A l \in Calls \ {k} : pc'[l] = pc[l] /\ call'[l] = call[l]
    BY <1>2, FinishTypes
<1>7. \A x : Settled(x)' = Settled(x)
    BY <1>2 DEF Settled, Ids
<1>8. ASSUME NEW l \in Calls, pc'[l] = "pay"
      PROVE  /\ pc[l] = "pay" /\ Paying(l)' = Paying(l) /\ Paying(l) \in Transcriptions
             /\ Paying(l) \in sprung \/ Paying(l) # t
    BY <1>4, <1>6, <1>8 DEF Paying, TypeInv, CallFits, Transcriptions
<1>9. ASSUME NEW l \in Calls, pc'[l] = "pay", Paying(l)' \notin sprung'
      PROVE  /\ Settled(Paying(l))' /\ paid'[Paying(l)'] = 0
             /\ \A i \in Calls : pc'[i] = "pay" /\ Paying(i)' = Paying(l)' => i = l
    <2>1. Paying(l) \notin sprung
        BY <1>2, <1>8, <1>9
    <2>2. Settled(Paying(l)) /\ paid[Paying(l)] = 0
        BY <1>8, <1>9, <2>1 DEF PayInv
    <2>3. paid'[Paying(l)'] = 0
        BY <1>5, <1>8, <1>9, <2>2, <2>1
    <2>4. Settled(Paying(l))'
        BY <1>2, <1>8, <1>9, <2>2 DEF Settled, Ids
    <2>5. \A i \in Calls : pc'[i] = "pay" /\ Paying(i)' = Paying(l)' => i = l
        BY <1>8, <1>9, <2>1 DEF PayInv
    <2> QED
        BY <2>3, <2>4, <2>5
<1>10. (\A l \in Calls : pc[l] = "pay" /\ Paying(l) \notin sprung =>
         /\ Settled(Paying(l)) /\ paid[Paying(l)] = 0
         /\ \A i \in Calls : pc[i] = "pay" /\ Paying(i) = Paying(l) => i = l)'
    BY <1>9
<1>11. (\A x \in Transcriptions \ sprung :
         \/ paid[x] = 0
         \/ paid[x] = 1 /\ x[2] < nextId /\ Settled(x))'
    BY <1>2, <1>3, <1>4, <1>5, <1>7 DEF PayInv, Transcriptions
<1> QED
    BY <1>10, <1>11 DEF PayInv

LEMMA PaysKeptByRequests ==
    ASSUME TypeInv, PayInv, NEW k \in Calls, Request(k)
    PROVE  PayInv'
<1>1. Grows
    BY RequestMoves
<1> DEFINE Others == \A l \in Calls \ {k} : pc'[l] = pc[l] /\ call'[l] = call[l]
<1>2. ASSUME Others, pc'[k] # "pay", WorkGoesOn, UNCHANGED <<paid, sprung>>
      PROVE  PayInv'
    BY <1>1, <1>2, PayKept
<1>3. CASE \/ \E c \in clips : Recut(k, c) \/ \E u \in Users : Submit(k, u, c)
           \/ \E j \in Jobs : Clean(k, j)
    BY <1>2, <1>3, ArriveMoves DEF WorkGoesOn
<1>4. ASSUME NEW c \in clips, Delete(k, c) PROVE PayInv'
    <2>1. /\ WorkGoesOn /\ UNCHANGED <<pc, call, paid, sprung>>
        <3>1. DeleteClips({c}) /\ {c} \in SUBSET clips /\ UNCHANGED <<pc, call, paid, sprung>>
            BY <1>4 DEF Delete
        <3> QED
            BY <3>1 DEF WorkGoesOn, DeleteClips
    <2> QED
        BY <1>1, <2>1, PayKept
<1>5. CASE InsertWork(k)
    BY <1>1, <1>5, InsertWorkKeepsPays
<1>6. CASE Pay(k)
    BY <1>6, PayKeepsPays
<1>7. CASE Fail(k)
    <2>1. Finish(k) /\ UNCHANGED <<work, traps, paid, sprung>>
        BY <1>7 DEF Fail
    <2> QED
        BY <1>2, <2>1, FinishTypes DEF WorkGoesOn
<1>8. CASE Listen(k) \/ RecutParts(k)
    <2>1. UNCHANGED <<work, traps, paid, sprung>>
        BY <1>8 DEF Listen, RecutParts
    <2>2. \/ Finish(k)
          \/ \E to \in {"clean", "cleanrow", "droprow"} : pc' = [pc EXCEPT ![k] = to]
                /\ \E r : call' = [call EXCEPT ![k] = r]
        BY <1>8 DEF Listen, RecutParts, Step
    <2>3. Others /\ pc'[k] # "pay"
        BY <2>2, FinishTypes DEF TypeInv, StudioTypes
    <2> QED
        BY <1>2, <2>1, <2>3 DEF WorkGoesOn
<1>9. CASE CleanRow(k) \/ DropClip(k)
    <2>1. PICK cs \in SUBSET clips : DeleteClips(cs)
        BY <1>9 DEF CleanRow, DropClip
    <2>2. WorkGoesOn
        BY <2>1 DEF WorkGoesOn, DeleteClips
    <2>3. /\ UNCHANGED <<paid, sprung>>
          /\ \/ Finish(k)
             \/ pc' = [pc EXCEPT ![k] = "clean"] /\ \E r : call' = [call EXCEPT ![k] = r]
        BY <1>9 DEF CleanRow, DropClip, Step
    <2>4. Others /\ pc'[k] # "pay"
        BY <2>3, FinishTypes DEF TypeInv, StudioTypes
    <2> QED
        BY <1>2, <2>2, <2>3, <2>4
<1>10. CASE Grade(k)
    <2>1. /\ UNCHANGED <<work, paid>> /\ sprung \subseteq sprung'
          /\ \/ Paying(k) \in sprung' /\ Step(k, "pay", call[k])
             \/ Finish(k)
        BY <1>10 DEF Grade, Paying
    <2>2. Others /\ (pc'[k] = "pay" => Paying(k)' \in sprung')
        <3>1. CASE Finish(k)
            BY <3>1, FinishTypes
        <3>2. CASE Paying(k) \in sprung' /\ Step(k, "pay", call[k])
            <4>1. Others /\ call'[k] = call[k]
                BY <3>2, CallTypes, StepTypes DEF CallPcs
            <4> QED
                BY <3>2, <4>1 DEF Paying
        <3> QED
            BY <2>1, <3>1, <3>2
    <2> QED
        BY <1>1, <2>1, <2>2, PayKept DEF WorkGoesOn
<1> QED
    BY <1>3, <1>4, <1>5, <1>6, <1>7, <1>8, <1>9, <1>10 DEF Request

LEMMA PaysKept == TypeInv /\ PayInv /\ [Next]_vars => PayInv'
<1> SUFFICES ASSUME TypeInv, PayInv, [Next]_vars PROVE PayInv'
    OBVIOUS
<1>1. CASE \E w \in Workers, j \in Jobs : Cut(w, j)
    <2>1. Grows /\ UNCHANGED <<work, traps, pc, call, paid, sprung>>
        BY <1>1, CutKeepsTypes, CutMoves DEF TypeInv
    <2> QED
        BY <2>1, PayKept DEF WorkGoesOn
<1>2. CASE \E w \in Workers : \E e \in todo[w] : Resume(w, e)
    <2>1. PICK w \in Workers : \E e \in todo[w] : Resume(w, e)
        BY <1>2
    <2>2. PICK e \in todo[w] : Resume(w, e)
        BY <2>1
    <2>3. Grows
        BY <2>2, ResumeKeepsTypes
    <2>4. UNCHANGED <<pc, call, paid, sprung>> /\ (UNCHANGED work \/ DeleteClips(ClipsOf(e.job)))
        BY <2>2 DEF Resume
    <2>5. WorkGoesOn
        BY <2>4 DEF WorkGoesOn, DeleteClips, ClipsOf
    <2> QED
        BY <2>3, <2>4, <2>5, PayKept
<1>3. CASE QuietIngest \/ UNCHANGED vars
    <2>1. UNCHANGED studio
        BY <1>3, QuietIngestKeepsTypes DEF vars
    <2>2. Grows /\ UNCHANGED <<work, traps, pc, call, paid, sprung>>
        BY <2>1 DEF studio, Grows, TypeInv, ClipsFit
    <2> QED
        BY <2>2, PayKept DEF WorkGoesOn
<1>4. CASE \E c \in clips : Honeypot(c)
    <2>1. Grows /\ UNCHANGED <<work, pc, call, paid, sprung>>
        BY <1>4, HoneypotKeepsTypes
    <2> QED
        BY <2>1, PayKept DEF WorkGoesOn
<1> QED
    BY <1>1, <1>2, <1>3, <1>4, StepCases, PaysKeptByRequests

\* A user is paid once at most for a clip, however often and from wherever the
\* transcription is sent, and whatever happens to the clip meanwhile, unless an
\* answer of the user met a trap (routes/media.ts: only the insert that makes the
\* row leads to a payment, and ids are not used again; the answer to a trap is
\* paid without a row).
THEOREM TranscriptionsPaidOnce == Spec => []PaidOnce
<1>1. Init => PayInv
    BY DEF Init, PayInv, Transcriptions
<1>2. Spec => [](TypeInv /\ PayInv)
    BY <1>1, InitTypes, TypesKept, PaysKept, PTL DEF Spec
<1>3. PayInv => PaidOnce
    BY DEF PayInv, PaidOnce, Transcriptions
<1> QED
    BY <1>2, <1>3, PTL

----------------------------------------------------------------------------
(* A job that is done is complete.                                         *)

Handles(w, j) == run[w][j].pc # "none" \/ \E e \in todo[w] : e.job = j

\* Job j has its segments as clips, once each, but for the gaps.
CutBut(j, gaps) ==
    /\ {c.seg : c \in ClipsOf(j)} = Segments \ gaps
    /\ \A c, d \in ClipsOf(j) : c.seg = d.seg => c = d

\* Nobody has begun a job that is not there.
NotBegun(j) == job[j].status = "none" =>
    /\ \A w \in Workers : ~Handles(w, j)
    /\ j \notin touched => ClipsOf(j) = {}

\* One worker at most has a job, which is open then: to resume it or to run it.
OneWorker(j) == j \notin contested =>
    /\ \A w \in Workers : Handles(w, j) =>
        /\ job[j].status \in Open
        /\ ~(run[w][j].pc # "none" /\ \E e \in todo[w] : e.job = j)
    /\ \A w, v \in Workers : Handles(w, j) /\ Handles(v, j) => w = v

\* A run begins without clips and knows what it has cut and skipped.
RunFits(j) == j \notin contested \cup touched =>
    \A w \in Workers :
        /\ run[w][j].pc = "begin" =>
            run[w][j].left = Segments /\ run[w][j].made = 0 /\ ClipsOf(j) = {}
        /\ run[w][j].pc = "cut" =>
            /\ run[w][j].made = Cardinality(ClipsOf(j))
            /\ run[w][j].left \cap skipped[j] = {}
            /\ CutBut(j, run[w][j].left \cup skipped[j])

Complete(j) == j \notin contested \cup touched /\ job[j].status = "done" =>
    job[j].made = Cardinality(ClipsOf(j)) /\ CutBut(j, skipped[j])

JobFits(j) == NotBegun(j) /\ OneWorker(j) /\ RunFits(j) /\ Complete(j)

\* A boot lists a job once.
ListedOnce == \A w \in Workers : \A e, f \in todo[w] : e.job = f.job => e = f

JobInv == ListedOnce /\ \A j \in Jobs : JobFits(j)

\* What a step has to leave alone for what is known of job j to stay true: a
\* worker may forget it.
Leaves(j) ==
    /\ job'[j] = job[j] /\ skipped'[j] = skipped[j]
    /\ \A w \in Workers :
        /\ run'[w][j] = run[w][j] \/ run'[w][j].pc = "none"
        /\ \A e \in todo'[w] : e.job = j => \E f \in todo[w] : f.job = j
    /\ contested \subseteq contested' /\ touched \subseteq touched'
    /\ j \notin touched' => ClipsOf(j)' = ClipsOf(j)

LEMMA JobKept ==
    ASSUME NEW j \in Jobs, JobFits(j), Leaves(j)
    PROVE  JobFits(j)'
<1>1. \A w \in Workers : Handles(w, j)' => Handles(w, j)
    BY DEF Handles, Leaves
<1>2. \A w \in Workers : run'[w][j].pc # "none" => run'[w][j] = run[w][j]
    BY DEF Leaves
<1>3. NotBegun(j)'
    BY <1>1 DEF NotBegun, JobFits, Leaves
<1>4. OneWorker(j)'
    <2> SUFFICES ASSUME j \notin contested' PROVE OneWorker(j)'
        BY DEF OneWorker
    <2>1. j \notin contested
        BY DEF Leaves
    <2>2. ASSUME NEW w \in Workers, Handles(w, j)'
          PROVE  /\ job'[j].status \in Open
                 /\ ~(run'[w][j].pc # "none" /\ \E e \in todo'[w] : e.job = j)
        BY <1>1, <1>2, <2>1, <2>2 DEF OneWorker, JobFits, Leaves
    <2>3. \A w, v \in Workers : Handles(w, j)' /\ Handles(v, j)' => w = v
        BY <1>1, <2>1 DEF OneWorker, JobFits
    <2> QED
        BY <2>2, <2>3 DEF OneWorker, Open
<1>5. ASSUME j \notin contested' \cup touched' PROVE j \notin contested \cup touched /\ ClipsOf(j)' = ClipsOf(j)
    BY <1>5 DEF Leaves
<1>6. RunFits(j)'
    <2> SUFFICES ASSUME j \notin contested' \cup touched' PROVE RunFits(j)'
        BY DEF RunFits
    <2>1. j \notin contested \cup touched /\ ClipsOf(j)' = ClipsOf(j) /\ skipped'[j] = skipped[j]
        BY <1>5 DEF Leaves
    <2>2. \A gaps : CutBut(j, gaps) => CutBut(j, gaps)'
        BY <2>1 DEF CutBut
    <2> QED
        BY <1>2, <2>1, <2>2 DEF RunFits, JobFits, CutBut
<1>7. Complete(j)'
    <2> SUFFICES ASSUME j \notin contested' \cup touched' PROVE Complete(j)'
        BY DEF Complete
    <2> QED
        BY <1>5 DEF Complete, JobFits, CutBut, Leaves
<1> QED
    BY <1>3, <1>4, <1>6, <1>7 DEF JobFits

\* A step of the run of job j leaves the other jobs alone.
LEMMA OthersKept ==
    ASSUME JobInv, NEW w \in Workers, NEW j \in Jobs, Touches(w, j), todo' = todo,
           UNCHANGED <<contested, touched>>, NEW i \in Jobs \ {j},
           skipped'[i] = skipped[i], ClipsOf(i)' = ClipsOf(i)
    PROVE  JobFits(i)'
<1>1. Leaves(i)
    BY DEF Leaves, Touches
<1> QED
    BY <1>1, JobKept DEF JobInv

LEMMA IngestKeepsJobs ==
    ASSUME IngestTypes, JobInv, NEW w \in Workers, NEW j \in Jobs, NEW url \in BOOLEAN,
           Ingest(w, j, url)
    PROVE  JobInv'
<1>1. /\ Touches(w, j) /\ job[j].status = "none" /\ job'[j].status = "pending"
      /\ run'[w][j] = Entered(FALSE)
      /\ UNCHANGED <<todo, contested, skipped, studio>>
    BY IngestMoves
<1>2. UNCHANGED <<clips, touched>> /\ \A i \in Jobs : ClipsOf(i)' = ClipsOf(i)
    BY <1>1 DEF studio, ClipsOf
<1>3. /\ run'[w][j].pc = "begin" /\ run'[w][j].left = Segments /\ run'[w][j].made = 0
      /\ \A v \in Workers \ {w} : run'[v][j] = run[v][j]
    BY <1>1, EnteredTypes DEF Touches
<1>4. /\ \A v \in Workers : ~Handles(v, j)
      /\ j \notin touched => ClipsOf(j) = {}
    BY <1>1 DEF JobInv, JobFits, NotBegun
<1>5. \A v \in Workers : Handles(v, j)' => v = w
    BY <1>1, <1>3, <1>4 DEF Handles
<1>6. ~ \E e \in todo'[w] : e.job = j
    BY <1>1, <1>4 DEF Handles
<1>7. JobFits(j)'
    <2>1. NotBegun(j)' /\ Complete(j)'
        BY <1>1 DEF NotBegun, Complete
    <2>2. OneWorker(j)'
        BY <1>1, <1>5, <1>6 DEF OneWorker, Open
    <2>3. \A v \in Workers \ {w} : run'[v][j].pc = "none"
        BY <1>3, <1>4 DEF Handles
    <2>4. RunFits(j)'
        BY <1>2, <1>3, <1>4, <2>3 DEF RunFits
    <2> QED
        BY <2>1, <2>2, <2>4 DEF JobFits
<1>8. \A i \in Jobs \ {j} : JobFits(i)'
    BY <1>1, <1>2, OthersKept
<1>9. ListedOnce'
    BY <1>1 DEF JobInv, ListedOnce
<1> QED
    BY <1>7, <1>8, <1>9 DEF JobInv

LEMMA BeginKeepsJobs ==
    ASSUME IngestTypes, JobInv, NEW w \in Workers, NEW j \in Jobs, Begin(w, j)
    PROVE  JobInv'
<1>1. /\ Touches(w, j) /\ run[w][j].pc = "begin" /\ job'[j].status = "cutting"
      /\ run'[w][j].pc = "cut" /\ run'[w][j].left = run[w][j].left
      /\ run'[w][j].made = run[w][j].made
      /\ skipped'[j] = {} /\ \A i \in Jobs \ {j} : skipped'[i] = skipped[i]
      /\ UNCHANGED <<todo, contested, studio>>
    BY BeginMoves
<1>2. UNCHANGED <<clips, touched>> /\ \A i \in Jobs : ClipsOf(i)' = ClipsOf(i)
    BY <1>1 DEF studio, ClipsOf
<1>3. \A v \in Workers \ {w} : run'[v][j] = run[v][j]
    BY <1>1 DEF Touches
<1>4. \A v \in Workers : Handles(v, j)' <=> Handles(v, j)
    BY <1>1, <1>3 DEF Handles
<1>5. Handles(w, j)
    BY <1>1 DEF Handles
<1>6. JobFits(j)
    BY DEF JobInv
<1>7. NotBegun(j)' /\ Complete(j)'
    BY <1>1 DEF NotBegun, Complete
<1>8. OneWorker(j)'
    <2> SUFFICES ASSUME j \notin contested PROVE OneWorker(j)'
        BY <1>1 DEF OneWorker
    <2>1. \A v \in Workers : Handles(v, j) => v = w
        BY <1>5, <1>6 DEF JobFits, OneWorker
    <2>2. ~ \E e \in todo'[w] : e.job = j
        BY <1>1, <1>5, <1>6 DEF JobFits, OneWorker
    <2> QED
        BY <1>1, <1>4, <2>1, <2>2 DEF OneWorker, Open
<1>9. RunFits(j)'
    <2> SUFFICES ASSUME j \notin contested \cup touched PROVE RunFits(j)'
        BY <1>1, <1>2 DEF RunFits
    <2>1. \A v \in Workers \ {w} : run'[v][j].pc = "none"
        BY <1>3, <1>5, <1>6 DEF JobFits, OneWorker, Handles
    <2>2. run'[w][j].left = Segments /\ run'[w][j].made = 0 /\ ClipsOf(j)' = {}
        BY <1>1, <1>2, <1>6 DEF JobFits, RunFits
    <2>3. CutBut(j, Segments)'
        BY <2>2 DEF CutBut
    <2>4. run'[w][j].made = Cardinality(ClipsOf(j)')
        BY <2>2, FS_EmptySet
    <2>5. run'[w][j].left \cup skipped'[j] = Segments /\ run'[w][j].left \cap skipped'[j] = {}
        BY <1>1, <2>2
    <2> QED
        BY <1>1, <2>1, <2>3, <2>4, <2>5 DEF RunFits, CutBut
<1>10. JobFits(j)'
    BY <1>7, <1>8, <1>9 DEF JobFits
<1>11. \A i \in Jobs \ {j} : JobFits(i)'
    BY <1>1, <1>2, OthersKept
<1>12. ListedOnce'
    BY <1>1 DEF JobInv, ListedOnce
<1> QED
    BY <1>10, <1>11, <1>12 DEF JobInv

LEMMA ConcludeKeepsJobs ==
    ASSUME IngestTypes, JobInv, NEW w \in Workers, NEW j \in Jobs,
           Conclude(w, j) \/ StatusLost(w, j)
    PROVE  JobInv'
<1>1. /\ Touches(w, j) /\ run[w][j].pc \in {"begin", "cut"} /\ run'[w][j] = NoRun
      /\ \/ /\ job'[j].status = "done" /\ job'[j].made = run[w][j].made
            /\ run[w][j].pc = "cut" /\ run[w][j].left = {}
         \/ job'[j].status = "error"
         \/ job'[j].status = job[j].status /\ job'[j].made = job[j].made
      /\ UNCHANGED <<todo, contested, skipped, studio>>
    BY ConcludeMoves
<1>2. UNCHANGED <<clips, touched>> /\ \A i \in Jobs : ClipsOf(i)' = ClipsOf(i)
    BY <1>1 DEF studio, ClipsOf
<1>3. /\ run'[w][j].pc = "none" /\ \A v \in Workers \ {w} : run'[v][j] = run[v][j]
    BY <1>1, NoRecords DEF Touches
<1>4. JobFits(j) /\ Handles(w, j)
    BY <1>1 DEF JobInv, Handles
<1>5. job[j].status # "none"
    BY <1>4 DEF JobFits, NotBegun
<1>6. NotBegun(j)'
    BY <1>1, <1>5 DEF NotBegun
<1>7. ASSUME j \notin contested PROVE \A v \in Workers : ~Handles(v, j)'
    <2>1. /\ \A v \in Workers : Handles(v, j) => v = w
          /\ ~ \E e \in todo[w] : e.job = j
        BY <1>1, <1>4, <1>7 DEF JobFits, OneWorker
    <2> QED
        BY <1>1, <1>3, <2>1 DEF Handles
<1>8. OneWorker(j)' /\ RunFits(j)'
    BY <1>1, <1>7 DEF OneWorker, RunFits, Handles
<1>9. Complete(j)'
    <2> SUFFICES ASSUME j \notin contested \cup touched, job'[j].status = "done"
                 PROVE  Complete(j)'
        BY <1>1, <1>2 DEF Complete
    <2>1. job[j].status \in Open
        BY <1>4 DEF JobFits, OneWorker
    <2>2. /\ job'[j].made = run[w][j].made /\ run[w][j].pc = "cut" /\ run[w][j].left = {}
        BY <1>1, <2>1 DEF Open
    <2>3. run[w][j].made = Cardinality(ClipsOf(j)) /\ CutBut(j, {} \cup skipped[j])
        BY <1>4, <2>2 DEF JobFits, RunFits
    <2>4. CutBut(j, skipped[j])'
        BY <1>1, <1>2, <2>3 DEF CutBut
    <2> QED
        BY <1>2, <2>2, <2>3, <2>4 DEF Complete
<1>10. JobFits(j)'
    BY <1>6, <1>8, <1>9 DEF JobFits
<1>11. \A i \in Jobs \ {j} : JobFits(i)'
    BY <1>1, <1>2, OthersKept
<1>12. ListedOnce'
    BY <1>1 DEF JobInv, ListedOnce
<1> QED
    BY <1>10, <1>11, <1>12 DEF JobInv

\* A segment that becomes a clip is a gap no longer; one that is skipped stays one.
LEMMA CutFills ==
    ASSUME ClipsFit, NEW j \in Jobs, NEW gaps, NEW s \in Segments, s \in gaps,
           CutBut(j, gaps), clips' = clips \cup {NewClip(j, s)}
    PROVE  /\ CutBut(j, gaps \ {s})'
           /\ Cardinality(ClipsOf(j)') = Cardinality(ClipsOf(j)) + 1
<1>1. PICK c : c = NewClip(j, s)
    OBVIOUS
<1>2. c.job = j /\ c.seg = s /\ c.id = nextId
    BY <1>1 DEF NewClip
<1>3. ClipsOf(j)' = ClipsOf(j) \cup {c}
    BY <1>1, <1>2 DEF ClipsOf
<1>4. nextId \in Nat /\ \A d \in clips : d.id # nextId
    BY DEF ClipsFit, Clip, ClipIds
<1>5. c \notin ClipsOf(j)
    BY <1>2, <1>4 DEF ClipsOf
<1>6. IsFiniteSet(ClipsOf(j))
    BY FiniteClips DEF ClipsOf
<1>7. Cardinality(ClipsOf(j)') = Cardinality(ClipsOf(j)) + 1
    BY <1>3, <1>5, <1>6, FS_AddElement
<1>8. \A d \in ClipsOf(j) : d.seg # s
    BY DEF CutBut
<1>9. {d.seg : d \in ClipsOf(j)'} = Segments \ (gaps \ {s})
    BY <1>2, <1>3 DEF CutBut
<1>10. \A d, e \in ClipsOf(j)' : d.seg = e.seg => d = e
    BY <1>2, <1>3, <1>8 DEF CutBut
<1> QED
    BY <1>7, <1>9, <1>10 DEF CutBut

LEMMA CutKeepsJobs ==
    ASSUME TypeInv, JobInv, NEW w \in Workers, NEW j \in Jobs, Cut(w, j)
    PROVE  JobInv'
<1> DEFINE r == run[w][j]
           q == run'[w][j]
<1>1. /\ Touches(w, j) /\ job' = job /\ r.pc = "cut" /\ q.pc = "cut"
      /\ UNCHANGED <<todo, contested, touched>>
      /\ r.left \subseteq Segments /\ ClipsFit
    BY CutMoves, RunTypes DEF TypeInv
<1>2. PICK s \in r.left :
          /\ q.left = r.left \ {s}
          /\ \/ /\ q.made = r.made + 1 /\ nextId \in ClipIds
                /\ clips' = clips \cup {NewClip(j, s)} /\ UNCHANGED skipped
             \/ /\ q.made = r.made
                /\ skipped'[j] = skipped[j] \cup {s}
                /\ \A i \in Jobs \ {j} : skipped'[i] = skipped[i]
                /\ UNCHANGED clips
    BY CutMoves DEF TypeInv
<1>3. \A v \in Workers \ {w} : run'[v][j] = run[v][j]
    BY <1>1 DEF Touches
<1>4. JobFits(j) /\ Handles(w, j) /\ \A v \in Workers : Handles(v, j)' <=> Handles(v, j)
    BY <1>1, <1>3 DEF JobInv, Handles
<1>5. NotBegun(j)'
    BY <1>1, <1>4 DEF JobFits, NotBegun
<1>6. OneWorker(j)'
    BY <1>1, <1>3, <1>4 DEF JobFits, OneWorker, Open
<1>7. Complete(j)'
    BY <1>1, <1>4 DEF JobFits, OneWorker, Complete, Open
<1>8. RunFits(j)'
    <2> SUFFICES ASSUME j \notin contested \cup touched PROVE RunFits(j)'
        BY <1>1 DEF RunFits
    <2>1. \A v \in Workers \ {w} : run'[v][j].pc = "none"
        BY <1>3, <1>4 DEF JobFits, OneWorker, Handles
    <2>2. PICK gaps : gaps = r.left \cup skipped[j]
        OBVIOUS
    <2>3. r.made = Cardinality(ClipsOf(j)) /\ r.left \cap skipped[j] = {} /\ CutBut(j, gaps)
        BY <1>1, <1>4, <2>2 DEF JobFits, RunFits
    <2> SUFFICES /\ q.made = Cardinality(ClipsOf(j)') /\ q.left \cap skipped'[j] = {}
                 /\ CutBut(j, run[w][j].left \cup skipped[j])'
        BY <1>1, <2>1 DEF RunFits
    <2>4. CASE /\ q.made = r.made + 1 /\ nextId \in ClipIds
               /\ clips' = clips \cup {NewClip(j, s)} /\ UNCHANGED skipped
        <3>1. s \in Segments /\ gaps \ {s} = q.left \cup skipped'[j]
            BY <1>1, <1>2, <2>2, <2>3, <2>4
        <3>2. /\ CutBut(j, gaps \ {s})'
              /\ Cardinality(ClipsOf(j)') = Cardinality(ClipsOf(j)) + 1
            BY <1>1, <2>2, <2>3, <2>4, <3>1, CutFills
        <3>3. CutBut(j, run[w][j].left \cup skipped[j])'
            BY <3>1, <3>2 DEF CutBut
        <3> QED
            BY <1>2, <2>3, <2>4, <3>2, <3>3
    <2>5. CASE /\ q.made = r.made /\ skipped'[j] = skipped[j] \cup {s} /\ UNCHANGED clips
        <3>1. gaps = q.left \cup skipped'[j] /\ q.left \cap skipped'[j] = {}
            BY <1>1, <1>2, <2>2, <2>3, <2>5
        <3>2. ClipsOf(j)' = ClipsOf(j)
            BY <2>5 DEF ClipsOf
        <3>3. CutBut(j, run[w][j].left \cup skipped[j])'
            BY <2>3, <3>1, <3>2 DEF CutBut
        <3> QED
            BY <2>3, <2>5, <3>1, <3>2, <3>3
    <2> QED
        BY <1>2, <2>4, <2>5
<1>9. JobFits(j)'
    BY <1>5, <1>6, <1>7, <1>8 DEF JobFits
<1>10. \A i \in Jobs \ {j} : skipped'[i] = skipped[i] /\ ClipsOf(i)' = ClipsOf(i)
    BY <1>2 DEF ClipsOf, NewClip
<1>11. \A i \in Jobs \ {j} : JobFits(i)'
    BY <1>1, <1>10, OthersKept
<1>12. ListedOnce'
    BY <1>1 DEF JobInv, ListedOnce
<1> QED
    BY <1>9, <1>11, <1>12 DEF JobInv

\* A boot takes up the open jobs; those somebody has are contested.
LEMMA BootKeepsJobs ==
    ASSUME IngestTypes, JobInv, NEW w \in Workers, Boot(w)
    PROVE  JobInv'
<1>1. /\ UNCHANGED <<job, run, skipped, clips, touched>>
      /\ \/ UNCHANGED <<todo, contested>>
         \/ /\ todo' = [todo EXCEPT ![w] = Listed]
            /\ contested' = contested \cup (OpenJobs \cap UNION {Handled(v) : v \in Workers})
    BY BootMoves DEF studio
<1>2. \A i \in Jobs : ClipsOf(i)' = ClipsOf(i)
    BY <1>1 DEF ClipsOf
<1>3. CASE UNCHANGED <<todo, contested>>
    <2>1. \A i \in Jobs : Leaves(i)
        BY <1>1, <1>2, <1>3 DEF Leaves
    <2> QED
        BY <1>3, <2>1, JobKept DEF JobInv, ListedOnce
<1>4. CASE /\ todo' = [todo EXCEPT ![w] = Listed]
           /\ contested' = contested \cup (OpenJobs \cap UNION {Handled(v) : v \in Workers})
    <2>1. /\ todo'[w] = Listed /\ \A v \in Workers \ {w} : todo'[v] = todo[v]
        BY <1>4 DEF IngestTypes
    <2>2. \A e \in Listed : e.job \in OpenJobs /\ e = [job |-> e.job, path |-> job[e.job].path]
        BY DEF Listed
    <2>3. ListedOnce'
        <3>1. \A e, f \in Listed : e.job = f.job => e = f
            BY <2>2
        <3> QED
            BY <2>1, <3>1 DEF JobInv, ListedOnce
    <2>4. ASSUME NEW i \in Jobs \ OpenJobs PROVE JobFits(i)'
        <3>1. Leaves(i)
            BY <1>1, <1>2, <1>4, <2>1, <2>2, <2>4 DEF Leaves
        <3> QED
            BY <3>1, JobKept DEF JobInv
    <2>5. ASSUME NEW i \in OpenJobs PROVE JobFits(i)'
        <3>1. job[i].status \in Open /\ i \in Jobs /\ JobFits(i)
            BY DEF OpenJobs, JobInv
        <3>2. NotBegun(i)' /\ Complete(i)'
            BY <1>1, <3>1 DEF NotBegun, Complete, Open
        <3>3. ASSUME i \notin contested' PROVE \A v \in Workers : ~Handles(v, i)
            BY <1>4, <2>5, <3>1, <3>3 DEF Handles, Handled, Resumed
        <3>4. ASSUME i \notin contested'
              PROVE  /\ \A v \in Workers : Handles(v, i)' => v = w
                     /\ \A v \in Workers : run'[v][i].pc = "none"
            BY <1>1, <2>1, <3>3, <3>4 DEF Handles
        <3>5. OneWorker(i)'
            BY <1>1, <3>1, <3>4 DEF OneWorker, Open
        <3>6. RunFits(i)'
            BY <1>1, <3>1, <3>4 DEF RunFits
        <3> QED
            BY <3>2, <3>5, <3>6 DEF JobFits
    <2> QED
        BY <2>3, <2>4, <2>5 DEF JobInv
<1> QED
    BY <1>1, <1>3, <1>4

LEMMA CrashKeepsJobs ==
    ASSUME IngestTypes, JobInv, NEW ws \in SUBSET Workers, Crash(ws)
    PROVE  JobInv'
<1>1. /\ UNCHANGED <<job, contested, skipped, studio>>
      /\ \A w \in Workers : \/ run'[w] = run[w] /\ todo'[w] = todo[w]
                            \/ todo'[w] = {} /\ \A j \in Jobs : run'[w][j] = NoRun
    BY CrashMoves
<1>2. touched' = touched /\ \A i \in Jobs : ClipsOf(i)' = ClipsOf(i)
    BY <1>1 DEF studio, ClipsOf
<1>3. \A i \in Jobs : Leaves(i)
    BY <1>1, <1>2, NoRecords DEF Leaves
<1>4. ListedOnce'
    BY <1>1 DEF JobInv, ListedOnce
<1> QED
    BY <1>3, <1>4, JobKept DEF JobInv

\* What a resume that ends early has not come to is forgotten.
LEMMA ResumeFailsKeepsJobs ==
    ASSUME IngestTypes, JobInv, NEW w \in Workers, ResumeFails(w)
    PROVE  JobInv'
<1>1. /\ UNCHANGED <<job, run, contested, skipped, studio>>
      /\ \A v \in Workers : todo'[v] = todo[v] \/ todo'[v] = {}
    BY ResumeFailsMoves
<1>2. touched' = touched /\ \A i \in Jobs : ClipsOf(i)' = ClipsOf(i)
    BY <1>1 DEF studio, ClipsOf
<1>3. \A i \in Jobs : Leaves(i)
    BY <1>1, <1>2 DEF Leaves
<1>4. ListedOnce'
    BY <1>1 DEF JobInv, ListedOnce
<1> QED
    BY <1>3, <1>4, JobKept DEF JobInv

\* The next listed job fails, or loses its clips and begins again.
LEMMA ResumeKeepsJobs ==
    ASSUME IngestTypes, JobInv, NEW w \in Workers, NEW e \in todo[w], Resume(w, e)
    PROVE  JobInv'
<1>1. PICK j : j = e.job
    OBVIOUS
<1>2. /\ j \in Jobs /\ todo' = [todo EXCEPT ![w] = todo[w] \ {e}]
      /\ UNCHANGED <<contested, skipped, touched>>
      /\ \/ /\ UNCHANGED <<run, clips>> /\ job'[j].status = "error"
            /\ \A i \in Jobs \ {j} : job'[i] = job[i]
         \/ /\ clips' = clips \ ClipsOf(j) /\ job' = job /\ run'[w][j] = Entered(TRUE)
            /\ \A v \in Workers, i \in Jobs : v # w \/ i # j => run'[v][i] = run[v][i]
    <2>1. /\ e.job \in Jobs /\ todo' = [todo EXCEPT ![w] = todo[w] \ {e}]
          /\ UNCHANGED <<contested, skipped, touched>>
          /\ \/ /\ UNCHANGED <<run, clips>> /\ job'[e.job].status = "error"
                /\ \A i \in Jobs \ {e.job} : job'[i] = job[i]
             \/ /\ DeleteClips(ClipsOf(e.job)) /\ job' = job /\ run'[w][e.job] = Entered(TRUE)
                /\ \A v \in Workers, i \in Jobs : v # w \/ i # e.job => run'[v][i] = run[v][i]
        BY ResumeMoves
    <2>2. DeleteClips(ClipsOf(j)) => clips' = clips \ ClipsOf(j)
        BY DEF DeleteClips
    <2> QED
        BY <1>1, <2>1, <2>2
<1>3. /\ todo'[w] = todo[w] \ {e} /\ \A v \in Workers \ {w} : todo'[v] = todo[v]
    BY <1>2 DEF IngestTypes
<1>4. /\ ListedOnce' /\ ~ \E f \in todo'[w] : f.job = j
    BY <1>1, <1>3 DEF JobInv, ListedOnce
<1>5. JobFits(j) /\ Handles(w, j) /\ job[j].status # "none"
    BY <1>1, <1>2 DEF JobInv, Handles, JobFits, NotBegun
<1>6. ASSUME NEW i \in Jobs \ {j} PROVE JobFits(i)'
    <2>1. ClipsOf(i)' = ClipsOf(i)
        BY <1>2 DEF ClipsOf
    <2>2. Leaves(i)
        BY <1>2, <1>3, <2>1 DEF Leaves
    <2> QED
        BY <2>2, JobKept DEF JobInv
<1>7. ASSUME j \notin contested
      PROVE  /\ job[j].status \in Open /\ run[w][j].pc = "none"
             /\ \A v \in Workers \ {w} : ~Handles(v, j)
    BY <1>1, <1>5, <1>7 DEF JobFits, OneWorker
<1>8. NotBegun(j)'
    BY <1>2, <1>5 DEF NotBegun
<1>9. CASE /\ UNCHANGED <<run, clips>> /\ job'[j].status = "error"
    <2>1. ASSUME j \notin contested' PROVE \A v \in Workers : ~Handles(v, j)'
        BY <1>2, <1>3, <1>4, <1>7, <1>9, <2>1 DEF Handles
    <2>2. OneWorker(j)' /\ RunFits(j)'
        BY <2>1 DEF OneWorker, RunFits, Handles
    <2>3. Complete(j)'
        BY <1>9 DEF Complete
    <2> QED
        BY <1>4, <1>6, <1>8, <2>2, <2>3 DEF JobInv, JobFits
<1>10. CASE /\ clips' = clips \ ClipsOf(j) /\ job' = job /\ run'[w][j] = Entered(TRUE)
            /\ \A v \in Workers, i \in Jobs : v # w \/ i # j => run'[v][i] = run[v][i]
    <2>1. /\ run'[w][j].pc = "begin" /\ run'[w][j].left = Segments /\ run'[w][j].made = 0
          /\ \A v \in Workers \ {w} : run'[v][j] = run[v][j]
        BY <1>2, <1>10, EnteredTypes
    <2>2. ASSUME j \notin contested' PROVE \A v \in Workers \ {w} : ~Handles(v, j)'
        BY <1>2, <1>3, <1>7, <2>1, <2>2 DEF Handles
    <2>3. OneWorker(j)'
        BY <1>2, <1>4, <1>7, <1>10, <2>2 DEF OneWorker, Open
    <2>4. ClipsOf(j)' = {}
        BY <1>10 DEF ClipsOf
    <2>5. RunFits(j)'
        BY <1>2, <2>1, <2>2, <2>4 DEF RunFits, Handles
    <2>6. Complete(j)'
        BY <1>2, <1>7, <1>10 DEF Complete, Open
    <2> QED
        BY <1>4, <1>6, <1>8, <2>3, <2>5, <2>6 DEF JobInv, JobFits
<1> QED
    BY <1>2, <1>9, <1>10

LEMMA RequestKeepsJobs ==
    ASSUME TypeInv, JobInv, NEW k \in Calls, Request(k)
    PROVE  JobInv'
<1>1. Grows /\ Untouched /\ UNCHANGED ingest
    BY RequestMoves
<1>2. \A i \in Jobs : Leaves(i)
    BY <1>1 DEF Leaves, Grows, Untouched, ingest
<1>3. ListedOnce'
    BY <1>1 DEF JobInv, ListedOnce, ingest
<1> QED
    BY <1>2, <1>3, JobKept DEF JobInv

LEMMA JobsKept == TypeInv /\ JobInv /\ [Next]_vars => JobInv'
<1> SUFFICES ASSUME TypeInv, JobInv, [Next]_vars PROVE JobInv'
    OBVIOUS
<1>1. IngestTypes
    BY DEF TypeInv
<1>2. CASE \E w \in Workers, j \in Jobs : Cut(w, j)
    BY <1>2, CutKeepsJobs
<1>3. CASE \E w \in Workers : \E e \in todo[w] : Resume(w, e)
    BY <1>1, <1>3, ResumeKeepsJobs
<1>4. CASE QuietIngest
    <2>1. CASE \E w \in Workers, j \in Jobs :
                \/ Begin(w, j) \/ Conclude(w, j) \/ StatusLost(w, j)
                \/ \E url \in BOOLEAN : Ingest(w, j, url)
        BY <1>1, <2>1, BeginKeepsJobs, ConcludeKeepsJobs, IngestKeepsJobs
    <2>2. CASE \E w \in Workers : Boot(w) \/ ResumeFails(w)
        BY <1>1, <2>2, BootKeepsJobs, ResumeFailsKeepsJobs
    <2>3. CASE \E ws \in SUBSET Workers : Crash(ws)
        BY <1>1, <2>3, CrashKeepsJobs
    <2>4. CASE NextWindow
        <3>1. UNCHANGED <<job, run, todo, skipped, contested, studio>>
            BY <2>4 DEF NextWindow
        <3>2. \A i \in Jobs : Leaves(i)
            BY <3>1 DEF Leaves, studio, ClipsOf
        <3> QED
            BY <3>1, <3>2, JobKept DEF JobInv, ListedOnce
    <2> QED
        BY <1>4, <2>1, <2>2, <2>3, <2>4 DEF QuietIngest
<1>5. CASE UNCHANGED vars
    <2>1. \A i \in Jobs : Leaves(i)
        BY <1>5 DEF Leaves, vars, ingest, studio, ClipsOf
    <2> QED
        BY <1>5, <2>1, JobKept DEF JobInv, ListedOnce, vars, ingest
<1>6. CASE \E c \in clips : Honeypot(c)
    <2>1. UNCHANGED <<job, run, todo, contested, skipped, clips, touched>>
        BY <1>6, HoneypotKeepsTypes
    <2>2. \A i \in Jobs : Leaves(i)
        BY <2>1 DEF Leaves, ClipsOf
    <2> QED
        BY <2>1, <2>2, JobKept DEF JobInv, ListedOnce
<1> QED
    BY <1>2, <1>3, <1>4, <1>5, <1>6, StepCases, RequestKeepsJobs

LEMMA InitJobs == Init => JobInv
<1> SUFFICES ASSUME Init PROVE JobInv
    OBVIOUS
<1>1. /\ \A w \in Workers : todo[w] = {} /\ \A j \in Jobs : run[w][j].pc = "none"
      /\ clips = {} /\ \A j \in Jobs : job[j].status = "none"
    BY NoRecords DEF Init
<1>2. ASSUME NEW j \in Jobs PROVE JobFits(j)
    <2>1. \A w \in Workers : ~Handles(w, j)
        BY <1>1 DEF Handles
    <2>2. ClipsOf(j) = {}
        BY <1>1 DEF ClipsOf
    <2> QED
        BY <1>1, <2>1, <2>2 DEF JobFits, NotBegun, OneWorker, RunFits, Complete
<1>3. ListedOnce
    BY <1>1 DEF ListedOnce
<1> QED
    BY <1>2, <1>3 DEF JobInv

LEMMA CutButCounts ==
    ASSUME NEW j \in Jobs, NEW gaps, CutBut(j, gaps), NEW s \in Segments
    PROVE  Cardinality({c \in ClipsOf(j) : c.seg = s}) = IF s \in gaps THEN 0 ELSE 1
<1> DEFINE cs == {c \in ClipsOf(j) : c.seg = s}
<1>1. CASE s \in gaps
    <2>1. cs = {}
        BY <1>1 DEF CutBut
    <2> QED
        BY <1>1, <2>1, FS_EmptySet
<1>2. CASE s \notin gaps
    <2>1. PICK c \in ClipsOf(j) : c.seg = s
        BY <1>2 DEF CutBut
    <2>2. cs = {c}
        BY <2>1 DEF CutBut
    <2> QED
        BY <1>2, <2>2, FS_Singleton
<1> QED
    BY <1>1, <1>2

\* A job that is done has every segment as a clip exactly once, but for those
\* its last run skipped, and counts its clips: however many workers crash, boot
\* and resume, unless it was resumed while somebody had it or an administrator
\* changed its clips (services/media-ingest.ts: a resume deletes the clips
\* before it cuts again, and runs what it lists one after the other).
THEOREM DoneJobsAreComplete == Spec => []DoneIsComplete
<1>1. Spec => [](TypeInv /\ JobInv)
    BY InitTypes, InitJobs, TypesKept, JobsKept, PTL DEF Spec
<1>2. JobInv => DoneIsComplete
    <2> SUFFICES ASSUME JobInv, NEW j \in Jobs \ (contested \cup touched), job[j].status = "done"
                 PROVE  /\ job[j].made = Cardinality(ClipsOf(j))
                        /\ \A s \in Segments : Cardinality({c \in ClipsOf(j) : c.seg = s})
                               = IF s \in skipped[j] THEN 0 ELSE 1
        BY DEF DoneIsComplete
    <2>1. job[j].made = Cardinality(ClipsOf(j)) /\ CutBut(j, skipped[j])
        BY DEF JobInv, JobFits, Complete
    <2> QED
        BY <2>1, CutButCounts
<1> QED
    BY <1>1, <1>2, PTL
=============================================================================
