----------------------------- MODULE Detections -----------------------------
(***************************************************************************)
(* The two scheduled jobs of the security pipeline that write to BigQuery: *)
(* the real-time detector (api/realtime-detector/main.py), which turns     *)
(* requests blocked by the WAF into detections, and the enrich job         *)
(* (api/enrich-job/main.py), which maps detections to ATT&CK techniques.   *)
(*                                                                         *)
(* A job is started again and again by a scheduler, and an execution may   *)
(* last into the next one; each execution is a process of its own here.    *)
(* All requests come from one address.                                     *)
(***************************************************************************)
EXTENDS Integers, Sequences, FiniteSets, SequencesExt

CONSTANTS
    Detectors, Enrichers,   \* executions of the two jobs
    Urls,                   \* requested URLs with a pattern of R3 or R6
    Window, Dedup,          \* WINDOW_MIN, DEDUP_MIN
    Threshold,              \* R2_THRESHOLD
    Lookback,               \* LOOKBACK_INTERVAL
    Batch,                  \* BATCH_SIZE
    MaxTime, MaxRequests    \* bounds: time, blocked requests

ASSUME DetectionsAssumption ==
    /\ {Window, Dedup, Threshold, Lookback, MaxTime, MaxRequests} \subseteq Nat
    /\ Batch \in Nat \ {0}

VARIABLES
    clock,
    blocked,      \* Cloud Logging: the blocked requests
    detections,   \* the table detections
    enrichments,  \* the table alert_enrichment
    dpc, det,     \* where each detector is, and what it holds
    epc, enr,     \* where each enricher is, and what it holds
    met           \* history: pairs of executions that were under way at once

vars == <<clock, blocked, detections, enrichments, dpc, det, epc, enr, met>>

Times     == 0..MaxTime
\* A detection's message names the URL (R3, R6) or the number of requests (R2).
Messages  == Urls \cup 0..MaxRequests
Request   == [nr : 1..MaxRequests, url : Urls, at : Times]
\* id is the hash of rule, address, message and time: here <<message, at>>,
\* with the execution, as two of them may insert the same row.  late: how much
\* after `at' the rows to compare with were read.
Detection == [message : Messages, at : Times, by : Detectors, late : Times]
IdOf(d)   == <<d.message, d.at>>
Ids       == Messages \X Times
\* text: what was embedded for the detection.
Enrichment == [id : Ids, text : Messages, at : Times, by : Enrichers]

DetPcs == {"new", "dedup", "insert", "done"}
EnrPcs == {"new", "fetch", "embed", "write", "done"}
NoDet  == [at |-> 0, messages |-> {}, late |-> 0]
NoEnr  == [known |-> {}, pending |-> {}, batch |-> <<>>, items |-> <<>>, at |-> 0]

Init ==
    /\ clock = 0 /\ blocked = {} /\ detections = {} /\ enrichments = {}
    /\ dpc = [r \in Detectors |-> "new"] /\ det = [r \in Detectors |-> NoDet]
    /\ epc = [r \in Enrichers |-> "new"] /\ enr = [r \in Enrichers |-> NoEnr]
    /\ met = {}

Tick ==
    /\ clock < MaxTime /\ clock' = clock + 1
    /\ UNCHANGED <<blocked, detections, enrichments, dpc, det, epc, enr, met>>

\* Cloud Armor blocks a request and logs it.
Block(u) ==
    /\ Cardinality(blocked) < MaxRequests
    /\ blocked' = blocked \cup {[nr |-> Cardinality(blocked) + 1, url |-> u, at |-> clock]}
    /\ UNCHANGED <<clock, detections, enrichments, dpc, det, epc, enr, met>>

Running(pcs) == {r \in DOMAIN pcs : pcs[r] \notin {"new", "done"}}

----------------------------------------------------------------------------
(* The real-time detector                                                  *)

DetGo(r, to, d) == dpc' = [dpc EXCEPT ![r] = to] /\ det' = [det EXCEPT ![r] = d]

\* What the requests of the window amount to.
Candidates(reqs) ==
    {q.url : q \in reqs}
        \cup (IF Cardinality(reqs) >= Threshold /\ reqs # {} THEN {Cardinality(reqs)} ELSE {})

\* The log is read and the candidates are made, with the time of now.
List(r) ==
    LET reqs == {q \in blocked : q.at >= clock - Window} IN
    /\ dpc[r] = "new"
    /\ IF reqs = {} THEN DetGo(r, "done", NoDet)
       ELSE DetGo(r, "dedup", [NoDet EXCEPT !.at = clock, !.messages = Candidates(reqs)])
    /\ met' = met \cup {{r, o} : o \in Running(dpc)}
    /\ UNCHANGED <<clock, blocked, detections, enrichments, epc, enr>>

Existing_SameTime == {d.message : d \in {e \in detections : e.at = clock}}

\* The messages already in the table, as far back as the deduplication goes.
Existing == {d.message : d \in {e \in detections : e.at > clock - Dedup}}

Deduplicate(r) ==
    LET fresh == det[r].messages \ Existing IN
    /\ dpc[r] = "dedup"
    /\ IF fresh = {} THEN DetGo(r, "done", NoDet)
       ELSE DetGo(r, "insert", [det[r] EXCEPT !.messages = fresh, !.late = clock - det[r].at])
    /\ UNCHANGED <<clock, blocked, detections, enrichments, epc, enr, met>>

\* All rows are inserted, or the insertion is refused and the job fails.
Insert(r) ==
    /\ dpc[r] = "insert"
    /\ \/ detections' = detections \cup
            {[message |-> m, at |-> det[r].at, by |-> r, late |-> det[r].late] :
                m \in det[r].messages}
       \/ UNCHANGED detections
    /\ DetGo(r, "done", NoDet)
    /\ UNCHANGED <<clock, blocked, enrichments, epc, enr, met>>

----------------------------------------------------------------------------
(* The enrich job                                                          *)

EnrGo(r, to, e) == epc' = [epc EXCEPT ![r] = to] /\ enr' = [enr EXCEPT ![r] = e]

Recent(rows) == {x \in rows : x.at >= clock - Lookback}
EnrichedIds  == {e.id : e \in enrichments}

Known_Nothing == {}

\* The detections that need not be enriched again.
Known == {e.id : e \in Recent(enrichments)}

FetchEnriched(r) ==
    /\ epc[r] = "new"
    /\ EnrGo(r, "fetch", [NoEnr EXCEPT !.known = Known])
    /\ met' = met \cup {{r, o} : o \in Running(epc)}
    /\ UNCHANGED <<clock, blocked, detections, enrichments, dpc, det>>

NewestFirst(ids) == {s \in SetToSeqs(ids) :
    \A i, k \in DOMAIN s : i < k => s[i][2] >= s[k][2]}

Shortest(m, n) == IF m < n THEN m ELSE n

Taken_OneMore(s) == SubSeq(s, 1, Shortest(Batch + 1, Len(s)))

Taken_OnePerText(s) ==
    LET b == SubSeq(s, 1, Shortest(Batch, Len(s))) IN
    SelectSeq(b, LAMBDA id : \A i \in DOMAIN b : b[i][1] = id[1] => b[i][2] <= id[2])

\* The slice of the pending detections that one execution takes.
Taken(s) == SubSeq(s, 1, Shortest(Batch, Len(s)))

\* The detections of the lookback that are not known to be enriched.
FetchPending(r) ==
    LET pending == {IdOf(d) : d \in Recent(detections)} \ enr[r].known IN
    /\ epc[r] = "fetch"
    /\ IF pending = {} THEN EnrGo(r, "done", NoEnr)
       ELSE \E s \in NewestFirst(pending) :
            EnrGo(r, "embed", [NoEnr EXCEPT !.pending = pending, !.batch = Taken(s)])
    /\ UNCHANGED <<clock, blocked, detections, enrichments, dpc, det, met>>

Texts(batch) == [i \in DOMAIN batch |-> batch[i][1]]

\* ml-embed answers with one item per text, or with one too few.
Answers(texts) == {texts} \cup {RemoveAt(texts, i) : i \in DOMAIN texts}

\* Items and detections are matched by their position.
Complete(items, texts) == Len(items) = Len(texts)

\* The texts are embedded and the techniques are searched; the job fails when
\* there is no answer, or an incomplete one.
Embed(r) ==
    LET texts == Texts(enr[r].batch) IN
    /\ epc[r] = "embed"
    /\ \/ \E items \in Answers(texts) :
            /\ Complete(items, texts)
            /\ EnrGo(r, "write", [enr[r] EXCEPT !.items = items, !.at = clock])
       \/ EnrGo(r, "done", NoEnr)
    /\ UNCHANGED <<clock, blocked, detections, enrichments, dpc, det, met>>

\* All rows are inserted, or the insertion is refused and the job fails.
Write(r) ==
    LET e == enr[r] IN
    /\ epc[r] = "write"
    /\ \/ enrichments' = enrichments \cup
            {[id |-> e.batch[i], text |-> e.items[i], at |-> e.at, by |-> r] :
                i \in DOMAIN e.items}
       \/ UNCHANGED enrichments
    /\ EnrGo(r, "done", NoEnr)
    /\ UNCHANGED <<clock, blocked, detections, dpc, det, met>>

----------------------------------------------------------------------------
Detector(r) == List(r) \/ Deduplicate(r) \/ Insert(r)
Enricher(r) == FetchEnriched(r) \/ FetchPending(r) \/ Embed(r) \/ Write(r)

Next ==
    \/ Tick
    \/ \E u \in Urls : Block(u)
    \/ \E r \in Detectors : Detector(r)
    \/ \E r \in Enrichers : Enricher(r)

Spec == Init /\ [][Next]_vars

----------------------------------------------------------------------------
(* Properties                                                              *)

\* Every variable keeps its type; what is enriched is a detection.
TypeOK ==
    /\ clock \in Times
    /\ blocked \subseteq Request /\ detections \subseteq Detection
    /\ enrichments \subseteq Enrichment
    /\ EnrichedIds \subseteq {IdOf(d) : d \in detections}
    /\ dpc \in [Detectors -> DetPcs] /\ epc \in [Enrichers -> EnrPcs]
    /\ \A r \in Detectors : det[r].messages \subseteq Messages /\ det[r].at \in Times
    /\ \A r \in Enrichers :
        /\ enr[r].known \cup enr[r].pending \subseteq Ids
        /\ Len(enr[r].batch) <= Batch /\ ToSet(enr[r].batch) \subseteq enr[r].pending
    /\ met \subseteq (SUBSET Detectors) \cup SUBSET Enrichers

\* Two executions of the detector that did not overlap never write the same
\* detection twice within the deduplication window, but for the time the later
\* one took to read the log (realtime-detector/main.py:102-111).
DetectionsAreSpaced ==
    \A d, e \in detections :
        d.message = e.message /\ d.by # e.by /\ {d.by, e.by} \notin met =>
            e.at - d.at >= Dedup - e.late \/ d.at - e.at >= Dedup - d.late

\* A detection is enriched twice only by executions that overlapped, and always
\* with its own text (enrich-job/main.py:49-55, 238-242).
EnrichedOnce ==
    /\ \A e, f \in enrichments : e.id = f.id /\ e.by # f.by => {e.by, f.by} \in met
    /\ \A e \in enrichments : e.text = e.id[1]

\* An execution that succeeds leaves a pending detection waiting only when it
\* has taken a whole batch of others that are as new
\* (enrich-job/main.py:77, 202-207).
OnlyOlderOnesWait ==
    [][\A r \in Enrichers : epc[r] = "write" /\ enrichments' # enrichments /\ Write(r) =>
        \A id \in enr[r].pending :
            \/ id \in EnrichedIds'
            \/ /\ Len(enr[r].batch) = Batch
               /\ \A other \in ToSet(enr[r].batch) : other[2] >= id[2]]_vars
=============================================================================
