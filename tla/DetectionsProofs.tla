-------------------------- MODULE DetectionsProofs --------------------------
(***************************************************************************)
(* Theorems about Detections, for any executions, URLs, windows, batch     *)
(* size and bounds.                                                        *)
(***************************************************************************)
EXTENDS Detections, FiniteSetTheorems, SequenceTheorems, TLAPS

----------------------------------------------------------------------------
(* What is known of every state.                                           *)

DetState == [at : Times, messages : SUBSET Messages, late : Times]
EnrState == [known : SUBSET Ids, pending : SUBSET Ids, batch : Seq(Ids),
             items : Seq(Messages), at : Times]

DetRuns(r) == dpc[r] \in {"dedup", "insert"}
EnrRuns(r) == epc[r] \in {"fetch", "embed", "write"}

DetectorTypes ==
    /\ clock \in Times
    /\ blocked \subseteq Request /\ IsFiniteSet(blocked) /\ Cardinality(blocked) <= MaxRequests
    /\ detections \subseteq Detection /\ IsFiniteSet(detections)
    /\ dpc \in [Detectors -> DetPcs] /\ det \in [Detectors -> DetState]
    /\ \A r \in Detectors : IsFiniteSet(det[r].messages)

EnricherTypes ==
    /\ enrichments \subseteq Enrichment
    /\ EnrichedIds \subseteq {IdOf(d) : d \in detections}
    /\ epc \in [Enrichers -> EnrPcs] /\ enr \in [Enrichers -> EnrState]

MetTypes == met \subseteq (SUBSET Detectors) \cup SUBSET Enrichers

\* Two executions that are under way have met.
DetectorsMeet == \A r, o \in Detectors : DetRuns(r) /\ DetRuns(o) => r = o \/ {r, o} \in met
EnrichersMeet == \A r, o \in Enrichers : EnrRuns(r) /\ EnrRuns(o) => r = o \/ {r, o} \in met

\* Detections are not of the future, and their executions are over.
Past ==
    /\ \A d \in detections : d.at <= clock /\ dpc[d.by] = "done"
    /\ \A r \in Detectors : DetRuns(r) => det[r].at <= clock

\* What is to be inserted is as far as it must from what it was compared with.
Spaced == \A r \in Detectors : dpc[r] = "insert" =>
    \A d \in detections : d.message \in det[r].messages /\ {d.by, r} \notin met =>
        det[r].at - d.at >= Dedup - det[r].late

DetInv == DetectorTypes /\ DetectorsMeet /\ Past /\ Spaced

----------------------------------------------------------------------------
(* Records and numbers.                                                    *)

LEMMA TimeTypes == Times \subseteq Nat /\ MaxTime \in Nat /\ MaxRequests \in Nat /\ Dedup \in Nat
                   /\ Lookback \in Nat /\ Window \in Nat /\ Batch \in Nat /\ Batch >= 1
BY DetectionsAssumption DEF Times

LEMMA NoRecords == NoDet \in DetState /\ NoEnr \in EnrState /\ NoDet.messages = {} /\ NoDet.late = 0
<1>1. 0 \in Times
    BY TimeTypes DEF Times
<1>2. <<>> \in Seq(Ids) /\ <<>> \in Seq(Messages)
    OBVIOUS
<1> QED
    BY <1>1, <1>2 DEF NoDet, NoEnr, DetState, EnrState

LEMMA DetGoMoves ==
    ASSUME DetectorTypes, NEW r \in Detectors, NEW to \in DetPcs, NEW d \in DetState,
           IsFiniteSet(d.messages), DetGo(r, to, d)
    PROVE  /\ dpc' \in [Detectors -> DetPcs] /\ det' \in [Detectors -> DetState]
           /\ dpc'[r] = to /\ det'[r] = d
           /\ \A o \in Detectors \ {r} : dpc'[o] = dpc[o] /\ det'[o] = det[o]
           /\ \A o \in Detectors : IsFiniteSet(det'[o].messages)
BY DEF DetGo, DetectorTypes

LEMMA EnrGoMoves ==
    ASSUME EnricherTypes, NEW r \in Enrichers, NEW to \in EnrPcs, NEW e \in EnrState,
           EnrGo(r, to, e)
    PROVE  /\ epc' \in [Enrichers -> EnrPcs] /\ enr' \in [Enrichers -> EnrState]
           /\ epc'[r] = to /\ enr'[r] = e
           /\ \A o \in Enrichers \ {r} : epc'[o] = epc[o] /\ enr'[o] = enr[o]
BY DEF EnrGo, EnricherTypes

\* What the requests of the window amount to is finite and has its type.
LEMMA CandidatesTypes ==
    ASSUME DetectorTypes, NEW reqs \in SUBSET blocked
    PROVE  Candidates(reqs) \in SUBSET Messages /\ IsFiniteSet(Candidates(reqs))
<1>1. IsFiniteSet(reqs) /\ Cardinality(reqs) \in Nat /\ Cardinality(reqs) <= MaxRequests
    <2>1. IsFiniteSet(reqs) /\ Cardinality(reqs) <= Cardinality(blocked)
        BY FS_Subset DEF DetectorTypes
    <2>2. Cardinality(reqs) \in Nat /\ Cardinality(blocked) \in Nat
        BY <2>1, FS_CardinalityType DEF DetectorTypes
    <2> QED
        BY <2>1, <2>2, TimeTypes DEF DetectorTypes
<1> DEFINE us == {q.url : q \in reqs}
           f == [q \in reqs |-> q.url]
<1>2. f \in Surjection(reqs, us)
    BY DEF Surjection
<1>3. IsFiniteSet(us)
    BY <1>1, <1>2, FS_Surjection
<1>4. us \subseteq Urls
    BY DEF DetectorTypes, Request
<1> DEFINE n == IF Cardinality(reqs) >= Threshold /\ reqs # {} THEN {Cardinality(reqs)} ELSE {}
<1>5. IsFiniteSet(n)
    BY FS_EmptySet, FS_Singleton
<1>6. n \subseteq 0..MaxRequests
    BY <1>1, TimeTypes
<1>7. Candidates(reqs) = us \cup n
    BY DEF Candidates
<1> HIDE DEF us, n
<1>8. IsFiniteSet(us \cup n)
    BY <1>3, <1>5, FS_Union
<1> QED
    BY <1>4, <1>6, <1>7, <1>8 DEF Messages

----------------------------------------------------------------------------
(* The steps of a detector.                                                *)

LEMMA ListMoves ==
    ASSUME DetInv, NEW r \in Detectors, List(r)
    PROVE  DetInv' /\ UNCHANGED detections
<1> DEFINE reqs == {q \in blocked : q.at >= clock - Window}
           d == [NoDet EXCEPT !.at = clock, !.messages = Candidates(reqs)]
<1>1. /\ dpc[r] = "new"
      /\ DetGo(r, "done", NoDet) \/ DetGo(r, "dedup", d)
      /\ met' = met \cup {{r, o} : o \in Running(dpc)}
      /\ UNCHANGED <<clock, blocked, detections>>
    BY DEF List
<1>2. Candidates(reqs) \in SUBSET Messages /\ IsFiniteSet(Candidates(reqs))
    BY CandidatesTypes DEF DetInv
<1>3. clock \in Times /\ clock \in Nat
    BY TimeTypes DEF DetInv, DetectorTypes
<1>4. PICK ms : ms = Candidates(reqs)
    OBVIOUS
<1>5. [NoDet EXCEPT !.at = clock, !.messages = ms] \in DetState
    BY <1>2, <1>3, <1>4, NoRecords DEF DetState
<1>6. d \in DetState /\ d.at = clock /\ d.messages = Candidates(reqs) /\ d.late = 0
    BY <1>4, <1>5, NoRecords DEF NoDet
<1> HIDE DEF d, reqs
<1>7. PICK to \in {"done", "dedup"}, x \in {NoDet, d} :
        DetGo(r, to, x) /\ (to = "dedup" => x = d)
    BY <1>1
<1>8. to \in DetPcs /\ x \in DetState /\ IsFiniteSet(x.messages)
    BY <1>2, <1>6, <1>7, NoRecords, FS_EmptySet DEF DetPcs
<1>9. /\ dpc' \in [Detectors -> DetPcs] /\ det' \in [Detectors -> DetState]
      /\ dpc'[r] = to /\ det'[r] = x
      /\ \A o \in Detectors \ {r} : dpc'[o] = dpc[o] /\ det'[o] = det[o]
      /\ \A o \in Detectors : IsFiniteSet(det'[o].messages)
    BY <1>7, <1>8, DetGoMoves DEF DetInv
<1>10. DetectorTypes'
    BY <1>1, <1>9 DEF DetInv, DetectorTypes
<1>11. \A o \in Detectors : DetRuns(o) => {r, o} \in met' /\ {o, r} \in met'
    <2> SUFFICES ASSUME NEW o \in Detectors, DetRuns(o) PROVE {r, o} \in met' /\ {o, r} \in met'
        OBVIOUS
    <2>1. {r, o} \in met'
        BY <1>1 DEF DetRuns, Running, DetInv, DetectorTypes
    <2>2. {o, r} = {r, o}
        OBVIOUS
    <2> QED
        BY <2>1, <2>2
<1>12. DetectorsMeet'
    BY <1>1, <1>9, <1>11 DEF DetInv, DetectorsMeet, DetRuns
<1>13. Past'
    <2>1. \A e \in detections : e.by \in Detectors /\ e.by # r /\ e.at <= clock
        BY <1>1 DEF DetInv, DetectorTypes, Detection, Past
    <2>2. \A o \in Detectors : DetRuns(o)' => det'[o].at <= clock
        BY <1>3, <1>6, <1>7, <1>9 DEF DetInv, Past, DetRuns
    <2> QED
        BY <1>1, <1>9, <2>1, <2>2 DEF DetInv, Past, DetRuns
<1>14. Spaced'
    BY <1>1, <1>7, <1>9 DEF DetInv, Spaced
<1> QED
    BY <1>1, <1>10, <1>12, <1>13, <1>14 DEF DetInv

LEMMA DeduplicateMoves ==
    ASSUME DetInv, NEW r \in Detectors, Deduplicate(r)
    PROVE  DetInv' /\ UNCHANGED <<detections, met>>
<1> DEFINE fresh == det[r].messages \ Existing
           d == [det[r] EXCEPT !.messages = fresh, !.late = clock - det[r].at]
<1>1. /\ dpc[r] = "dedup"
      /\ DetGo(r, "done", NoDet) \/ DetGo(r, "insert", d)
      /\ UNCHANGED <<clock, blocked, detections, met>>
    BY DEF Deduplicate
<1>2. PICK ms, n : ms = fresh /\ n = clock - det[r].at
    OBVIOUS
<1>3. det[r] \in DetState /\ det[r].at \in Times /\ det[r].messages \in SUBSET Messages /\ det[r].at <= clock
    BY <1>1 DEF DetInv, DetectorTypes, DetState, Past, DetRuns
<1>4. n \in Times /\ clock \in Nat /\ det[r].at \in Nat /\ Dedup \in Nat
    BY <1>2, <1>3, TimeTypes DEF DetInv, DetectorTypes, Times
<1>5. ms \in SUBSET Messages /\ IsFiniteSet(ms)
    BY <1>2, <1>3, FS_Subset DEF DetInv, DetectorTypes
<1>6. LET x == [det[r] EXCEPT !.messages = ms, !.late = n] IN
      x \in DetState /\ x.at = det[r].at /\ x.messages = ms /\ x.late = n
    BY <1>3, <1>4, <1>5 DEF DetState
<1>7. d \in DetState /\ d.at = det[r].at /\ d.messages = ms /\ d.late = n
    BY <1>2, <1>6
<1> HIDE DEF d
<1>8. PICK to \in {"done", "insert"}, x \in {NoDet, d} :
        DetGo(r, to, x) /\ (to = "insert" => x = d)
    BY <1>1
<1>9. to \in DetPcs /\ x \in DetState /\ IsFiniteSet(x.messages)
    BY <1>5, <1>7, <1>8, NoRecords, FS_EmptySet DEF DetPcs
<1>10. /\ dpc' \in [Detectors -> DetPcs] /\ det' \in [Detectors -> DetState]
       /\ dpc'[r] = to /\ det'[r] = x
       /\ \A o \in Detectors \ {r} : dpc'[o] = dpc[o] /\ det'[o] = det[o]
       /\ \A o \in Detectors : IsFiniteSet(det'[o].messages)
    BY <1>8, <1>9, DetGoMoves DEF DetInv
<1>11. DetectorTypes'
    BY <1>1, <1>10 DEF DetInv, DetectorTypes
<1>12. DetectorsMeet'
    BY <1>1, <1>10 DEF DetInv, DetectorsMeet, DetRuns
<1>13. Past'
    <2>1. \A e \in detections : e.by \in Detectors /\ e.by # r /\ e.at <= clock
        BY <1>1 DEF DetInv, DetectorTypes, Detection, Past
    <2>2. \A o \in Detectors : DetRuns(o)' => det'[o].at <= clock
        BY <1>3, <1>7, <1>8, <1>10 DEF DetInv, Past, DetRuns
    <2> QED
        BY <1>1, <1>10, <2>1, <2>2 DEF DetInv, Past, DetRuns
<1>14. \A e \in detections : e.at \in Nat /\ (e.message \in ms => ~(e.at > clock - Dedup))
    BY <1>2, TimeTypes DEF Existing, DetInv, DetectorTypes, Detection
<1>15. \A e \in detections : e.message \in ms => det[r].at - e.at >= Dedup - n
    BY <1>2, <1>4, <1>14
<1>16. Spaced'
    BY <1>1, <1>7, <1>8, <1>10, <1>15 DEF DetInv, Spaced
<1> QED
    BY <1>1, <1>11, <1>12, <1>13, <1>16 DEF DetInv

\* The rows of an insertion.
Rows(r) == {[message |-> m, at |-> det[r].at, by |-> r, late |-> det[r].late] : m \in det[r].messages}

LEMMA InsertMoves ==
    ASSUME DetInv, NEW r \in Detectors, Insert(r)
    PROVE  /\ DetInv' /\ UNCHANGED met
           /\ dpc[r] = "insert"
           /\ detections' = detections \cup Rows(r) \/ UNCHANGED detections
<1>1. /\ dpc[r] = "insert" /\ DetGo(r, "done", NoDet)
      /\ detections' = detections \cup Rows(r) \/ UNCHANGED detections
      /\ UNCHANGED <<clock, blocked, met>>
    BY DEF Insert, Rows
<1>2. /\ dpc' \in [Detectors -> DetPcs] /\ det' \in [Detectors -> DetState]
      /\ dpc'[r] = "done"
      /\ \A o \in Detectors \ {r} : dpc'[o] = dpc[o] /\ det'[o] = det[o]
      /\ \A o \in Detectors : IsFiniteSet(det'[o].messages)
    BY <1>1, DetGoMoves, NoRecords, FS_EmptySet DEF DetInv, DetPcs
<1>3. det[r] \in DetState /\ IsFiniteSet(det[r].messages) /\ det[r].at <= clock
    BY <1>1 DEF DetInv, DetectorTypes, Past, DetRuns
<1>4. Rows(r) \subseteq Detection
    BY <1>3 DEF Rows, Detection, DetState
<1>5. IsFiniteSet(Rows(r))
    <2> DEFINE f == [m \in det[r].messages |->
                [message |-> m, at |-> det[r].at, by |-> r, late |-> det[r].late]]
    <2>1. f \in Surjection(det[r].messages, Rows(r))
        BY DEF Surjection, Rows
    <2> QED
        BY <1>3, <2>1, FS_Surjection
<1>6. \A e \in Rows(r) : e.by = r /\ e.at = det[r].at
    BY DEF Rows
<1>7. detections' \subseteq Detection /\ IsFiniteSet(detections')
    BY <1>1, <1>4, <1>5, FS_Union DEF DetInv, DetectorTypes
<1>8. DetectorTypes'
    BY <1>1, <1>2, <1>7 DEF DetInv, DetectorTypes
<1>9. DetectorsMeet'
    BY <1>1, <1>2 DEF DetInv, DetectorsMeet, DetRuns
<1>10. Past'
    <2>1. \A e \in detections' : e.at <= clock /\ dpc'[e.by] = "done"
        BY <1>1, <1>2, <1>3, <1>6 DEF DetInv, DetectorTypes, Detection, Past
    <2>2. \A o \in Detectors : DetRuns(o)' => det'[o].at <= clock
        BY <1>2 DEF DetInv, Past, DetRuns
    <2> QED
        BY <1>1, <2>1, <2>2 DEF Past
<1>11. Spaced'
    <2> SUFFICES ASSUME NEW o \in Detectors, dpc'[o] = "insert", NEW e \in detections',
                        e.message \in det'[o].messages, {e.by, o} \notin met'
                 PROVE  det'[o].at - e.at >= Dedup - det'[o].late
        BY DEF Spaced
    <2>1. o # r /\ dpc[o] = "insert" /\ det'[o] = det[o]
        BY <1>2
    <2>2. {r, o} \in met
        BY <1>1, <2>1 DEF DetInv, DetectorsMeet, DetRuns
    <2>3. e \in detections
        BY <1>1, <1>6, <2>2
    <2> QED
        BY <1>1, <2>1, <2>3 DEF DetInv, Spaced
<1> QED
    BY <1>1, <1>8, <1>9, <1>10, <1>11 DEF DetInv

----------------------------------------------------------------------------
(* The detections are spaced.                                              *)

LEMMA DetectorKeeps ==
    ASSUME DetInv, NEW r \in Detectors, Detector(r)
    PROVE  DetInv'
BY ListMoves, DeduplicateMoves, InsertMoves DEF Detector

LEMMA BlockKeeps ==
    ASSUME DetInv, NEW u \in Urls, Block(u)
    PROVE  DetInv'
<1> DEFINE q == [nr |-> Cardinality(blocked) + 1, url |-> u, at |-> clock]
<1>1. /\ Cardinality(blocked) < MaxRequests /\ blocked' = blocked \cup {q}
      /\ UNCHANGED <<clock, detections, dpc, det, met>>
    BY DEF Block
<1>2. Cardinality(blocked) \in Nat /\ MaxRequests \in Nat /\ IsFiniteSet(blocked)
    BY FS_CardinalityType, TimeTypes DEF DetInv, DetectorTypes
<1>3. q \in Request
    BY <1>1, <1>2 DEF Request, DetInv, DetectorTypes
<1> HIDE DEF q
<1>4. IsFiniteSet(blocked') /\ Cardinality(blocked') <= MaxRequests
    <2>1. /\ IsFiniteSet(blocked \cup {q})
          /\ Cardinality(blocked \cup {q})
                = IF q \in blocked THEN Cardinality(blocked) ELSE Cardinality(blocked) + 1
        BY <1>2, FS_AddElement
    <2> QED
        BY <1>1, <1>2, <2>1
<1>5. DetectorTypes'
    BY <1>1, <1>3, <1>4 DEF DetInv, DetectorTypes
<1> QED
    BY <1>1, <1>5 DEF DetInv, DetectorsMeet, DetRuns, Past, Spaced

\* Time goes on, and the enrichers do what they do.
LEMMA OthersKeep ==
    ASSUME DetInv, UNCHANGED <<blocked, detections, dpc, det>>, met \subseteq met',
           clock' = clock \/ (clock < MaxTime /\ clock' = clock + 1)
    PROVE  DetInv'
<1>1. clock' \in Times /\ clock \in Nat /\ clock' >= clock
    BY TimeTypes DEF DetInv, DetectorTypes, Times
<1>2. DetectorTypes'
    BY <1>1 DEF DetInv, DetectorTypes
<1>3. DetectorsMeet' /\ Spaced'
    BY DEF DetInv, DetectorsMeet, DetRuns, Spaced
<1>4. (\A d \in detections : d.at \in Nat) /\ \A r \in Detectors : det[r].at \in Nat
    BY TimeTypes DEF DetInv, DetectorTypes, Detection, DetState
<1>5. Past'
    BY <1>1, <1>4 DEF DetInv, Past, DetRuns
<1> QED
    BY <1>2, <1>3, <1>5 DEF DetInv

LEMMA EnricherLeaves ==
    ASSUME NEW r \in Enrichers, Enricher(r)
    PROVE  /\ clock' = clock /\ UNCHANGED <<blocked, detections, dpc, det>>
           /\ met \subseteq met'
BY DEF Enricher, FetchEnriched, FetchPending, Embed, Write

LEMMA DetInvKept == DetInv /\ [Next]_vars => DetInv'
<1> SUFFICES ASSUME DetInv, [Next]_vars PROVE DetInv'
    OBVIOUS
<1>1. CASE Tick
    BY <1>1, OthersKeep DEF Tick
<1>2. CASE \E r \in Enrichers : Enricher(r)
    BY <1>2, EnricherLeaves, OthersKeep
<1>3. CASE UNCHANGED vars
    <2>1. clock' = clock /\ UNCHANGED <<blocked, detections, dpc, det, met>>
        BY <1>3 DEF vars
    <2> QED
        BY <2>1, OthersKeep
<1> QED
    BY <1>1, <1>2, <1>3, BlockKeeps, DetectorKeeps DEF Next

LEMMA InitDetInv == Init => DetInv
<1> SUFFICES ASSUME Init PROVE DetInv
    OBVIOUS
<1>1. DetectorTypes
    <2>1. 0 \in Times
        BY TimeTypes DEF Times
    <2> QED
        BY <2>1, TimeTypes, NoRecords, FS_EmptySet DEF Init, DetectorTypes, DetPcs
<1> QED
    BY <1>1 DEF Init, DetInv, DetectorsMeet, DetRuns, Past, Spaced

LEMMA SpacedKept == DetInv /\ DetectionsAreSpaced /\ [Next]_vars => DetectionsAreSpaced'
<1> SUFFICES ASSUME DetInv, DetectionsAreSpaced, [Next]_vars PROVE DetectionsAreSpaced'
    OBVIOUS
<1>1. CASE detections' = detections /\ met \subseteq met'
    BY <1>1 DEF DetectionsAreSpaced
<1>2. ASSUME NEW r \in Detectors, Insert(r) PROVE DetectionsAreSpaced'
    <2>1. /\ met' = met /\ dpc[r] = "insert"
          /\ detections' = detections \cup Rows(r) \/ UNCHANGED detections
        BY <1>2, InsertMoves
    <2> SUFFICES ASSUME detections' = detections \cup Rows(r) PROVE DetectionsAreSpaced'
        BY <1>1, <2>1
    <2> SUFFICES ASSUME NEW d \in detections', NEW e \in detections',
                        d.message = e.message, d.by # e.by, {d.by, e.by} \notin met
                 PROVE  e.at - d.at >= Dedup - e.late \/ d.at - e.at >= Dedup - d.late
        BY <2>1 DEF DetectionsAreSpaced
    <2>2. \A x \in Rows(r) : /\ x.by = r /\ x.at = det[r].at /\ x.late = det[r].late
                             /\ x.message \in det[r].messages
        BY DEF Rows
    <2>3. CASE d \in detections /\ e \in detections
        BY <2>3 DEF DetectionsAreSpaced
    <2>4. ASSUME NEW x \in Rows(r), NEW y \in detections, x.message = y.message, {y.by, x.by} \notin met
          PROVE  x.at - y.at >= Dedup - x.late
        BY <2>1, <2>2, <2>4 DEF DetInv, Spaced
    <2>5. CASE e \in Rows(r) /\ d \in detections
        BY <2>4, <2>5
    <2>6. CASE d \in Rows(r) /\ e \in detections
        <3>1. {e.by, d.by} = {d.by, e.by}
            OBVIOUS
        <3> QED
            BY <2>4, <2>6, <3>1
    <2>7. CASE d \in Rows(r) /\ e \in Rows(r)
        BY <2>2, <2>7
    <2> QED
        BY <2>3, <2>5, <2>6, <2>7
<1>3. ASSUME NEW r \in Detectors, List(r) \/ Deduplicate(r) PROVE DetectionsAreSpaced'
    <2>1. detections' = detections /\ met \subseteq met'
        BY <1>3 DEF List, Deduplicate
    <2> QED
        BY <1>1, <2>1
<1>4. CASE Tick \/ (\E u \in Urls : Block(u)) \/ UNCHANGED vars
    <2>1. detections' = detections /\ met \subseteq met'
        BY <1>4 DEF Tick, Block, vars
    <2> QED
        BY <1>1, <2>1
<1>5. CASE \E r \in Enrichers : Enricher(r)
    BY <1>1, <1>5, EnricherLeaves
<1> QED
    BY <1>2, <1>3, <1>4, <1>5 DEF Next, Detector

\* Executions of the detector that did not overlap never write a detection
\* again within the deduplication window, but for the time the later one took
\* to read the log (realtime-detector/main.py: the table is read before the
\* rows are inserted).
THEOREM DetectionsSpaced == Spec => []DetectionsAreSpaced
<1>1. Init => DetectionsAreSpaced
    BY DEF Init, DetectionsAreSpaced
<1>2. Spec => [](DetInv /\ DetectionsAreSpaced)
    BY <1>1, InitDetInv, DetInvKept, SpacedKept, PTL DEF Spec
<1> QED
    BY <1>2, PTL

----------------------------------------------------------------------------
(* Sequences of detections.                                                *)

LEMMA SequenceOf ==
    ASSUME NEW S, NEW n \in Nat, NEW s \in [1..n -> S]
    PROVE  s \in Seq(S) /\ Len(s) = n /\ DOMAIN s = 1..n
<1>1. s \in Seq(S)
    BY SeqDef
<1>2. Len(s) \in Nat /\ 1..Len(s) = 1..n
    BY <1>1, LenProperties
<1> QED
    BY <1>1, <1>2

LEMMA Prefix ==
    ASSUME NEW S, NEW s, NEW k \in Nat, \A i \in 1..k : s[i] \in S
    PROVE  /\ SubSeq(s, 1, k) \in Seq(S) /\ Len(SubSeq(s, 1, k)) = k
           /\ \A i \in 1..k : SubSeq(s, 1, k)[i] = s[i]
<1>1. PICK m \in Int : m = 1
    OBVIOUS
<1>2. k \in Int /\ \A i \in m..k : s[i] \in S
    BY <1>1
<1>3. /\ SubSeq(s, m, k) \in Seq(S)
      /\ Len(SubSeq(s, m, k)) = IF m <= k THEN k - m + 1 ELSE 0
    BY <1>2, SubSeqProperties, Zenon
<1>4. \A i \in 1..(k - m + 1) : SubSeq(s, m, k)[i] = s[m + i - 1]
    BY <1>2, SubSeqProperties, SMT
<1>5. /\ (IF m <= k THEN k - m + 1 ELSE 0) = k /\ k - m + 1 = k
      /\ \A i \in 1..k : m + i - 1 = i
    BY <1>1
<1>6. \A i \in 1..k : SubSeq(s, m, k)[i] = s[i]
    BY <1>4, <1>5
<1> QED
    BY <1>1, <1>3, <1>5, <1>6

\* The slice an execution takes: at most a batch, and what it leaves is older
\* than all of a whole batch.
TakesNewest(batch, pending) ==
    /\ Len(batch) <= Batch /\ ToSet(batch) \subseteq pending
    /\ \A id \in pending :
        \/ id \in ToSet(batch)
        \/ Len(batch) = Batch /\ \A other \in ToSet(batch) : other[2] >= id[2]

LEMMA TakenIsNewest ==
    ASSUME NEW S \in SUBSET Ids, IsFiniteSet(S), NEW s \in NewestFirst(S)
    PROVE  Taken(s) \in Seq(Ids) /\ TakesNewest(Taken(s), S)
<1> DEFINE n == Cardinality(S)
           k == Shortest(Batch, n)
           b == Taken(s)
<1>1. n \in Nat /\ Batch \in Nat /\ Batch >= 1
    BY FS_CardinalityType, TimeTypes
<1>2. /\ s \in [1..n -> S] /\ \A i, j \in 1..n : i # j => s[i] # s[j]
      /\ \A i, j \in DOMAIN s : i < j => s[i][2] >= s[j][2]
    BY DEF NewestFirst, SetToSeqs
<1> HIDE DEF n
<1>3. s \in Seq(S) /\ Len(s) = n /\ DOMAIN s = 1..n
    BY <1>1, <1>2, SequenceOf
<1>4. \A id \in S : \E i \in 1..n : s[i] = id
    <2>1. s \in Injection(1..n, S)
        BY <1>2 DEF Injection, IsInjective
    <2>2. Cardinality(1..n) = n
        <3>1. 1 \in Int /\ n \in Int
            BY <1>1
        <3>2. Cardinality(1..n) = IF 1 > n THEN 0 ELSE n - 1 + 1
            BY <3>1, FS_Interval, Zenon
        <3> QED
            BY <1>1, <3>2
    <2>3. s \in Surjection(1..n, S)
        BY <2>1, <2>2, FS_Injection DEF n
    <2> QED
        BY <2>3 DEF Surjection
<1>5. k \in Nat /\ k <= n /\ k <= Batch /\ (k = n \/ k = Batch)
    BY <1>1 DEF Shortest
<1>6. b = SubSeq(s, 1, k)
    BY <1>3 DEF Taken
<1> HIDE DEF k
<1>7. /\ b \in Seq(Ids) /\ Len(b) = k /\ \A i \in 1..k : b[i] = s[i]
    <2>1. \A i \in 1..k : s[i] \in Ids
        BY <1>1, <1>2, <1>5
    <2> QED
        BY <1>5, <1>6, <2>1, Prefix
<1> HIDE DEF b
<1>8. DOMAIN b = 1..k
    BY <1>7, LenProperties
<1>9. \A id \in ToSet(b) : \E i \in 1..k : id = s[i] /\ i \in 1..n
    BY <1>1, <1>5, <1>7, <1>8 DEF ToSet
<1>10. ToSet(b) \subseteq S
    BY <1>2, <1>9
<1>11. ASSUME NEW id \in S, id \notin ToSet(b)
       PROVE  Len(b) = Batch /\ \A other \in ToSet(b) : other[2] >= id[2]
    <2>1. PICK i \in 1..n : s[i] = id
        BY <1>4
    <2>2. ~(i \in 1..k)
        BY <1>7, <1>8, <1>11, <2>1 DEF ToSet
    <2>3. k < i /\ k = Batch
        BY <1>1, <1>5, <2>1, <2>2
    <2>4. ASSUME NEW other \in ToSet(b) PROVE other[2] >= id[2]
        <3>1. PICK j \in 1..k : other = s[j] /\ j \in 1..n
            BY <1>9
        <3>2. j < i
            BY <1>5, <2>3, <3>1
        <3> QED
            BY <1>2, <1>3, <2>1, <3>1, <3>2
    <2> QED
        BY <1>7, <2>3, <2>4
<1>12. TakesNewest(b, S)
    BY <1>1, <1>5, <1>7, <1>10, <1>11 DEF TakesNewest
<1> QED
    BY <1>7, <1>12 DEF b

LEMMA TextsOf ==
    ASSUME NEW batch \in Seq(Ids)
    PROVE  /\ Texts(batch) \in Seq(Messages) /\ Len(Texts(batch)) = Len(batch)
           /\ DOMAIN Texts(batch) = DOMAIN batch
           /\ \A i \in DOMAIN batch : Texts(batch)[i] = batch[i][1]
<1>1. Len(batch) \in Nat /\ DOMAIN batch = 1..Len(batch) /\ batch \in [1..Len(batch) -> Ids]
    BY LenProperties
<1>2. \A i \in 1..Len(batch) : batch[i][1] \in Messages
    BY <1>1 DEF Ids
<1>3. Texts(batch) \in [1..Len(batch) -> Messages]
    BY <1>1, <1>2 DEF Texts
<1> QED
    BY <1>1, <1>3, SequenceOf DEF Texts

\* An answer that is complete is the whole answer.
LEMMA CompleteAnswer ==
    ASSUME NEW texts \in Seq(Messages), NEW items \in Answers(texts), Complete(items, texts)
    PROVE  items = texts
<1> SUFFICES ASSUME NEW i \in DOMAIN texts PROVE Len(RemoveAt(texts, i)) # Len(texts)
    BY DEF Answers, Complete
<1> DEFINE n == Len(texts)
<1>1. n \in Nat /\ DOMAIN texts = 1..n /\ \A k \in 1..n : texts[k] \in Messages
    BY LenProperties, ElementOfSeq
<1> HIDE DEF n
<1>2. i \in 1..n /\ i \in Nat /\ i >= 1 /\ i <= n
    BY <1>1
<1>3. \A k \in 1..(i - 1) : texts[k] \in Messages
    BY <1>1, <1>2
<1>4. \A k \in (i + 1)..n : texts[k] \in Messages
    BY <1>1, <1>2
<1>5. i + 1 \in Int /\ n \in Int
    BY <1>1, <1>2
<1>6. /\ SubSeq(texts, 1, i - 1) \in Seq(Messages)
      /\ Len(SubSeq(texts, 1, i - 1)) = i - 1
    <2>1. i - 1 \in Nat
        BY <1>2
    <2> QED
        BY <1>3, <2>1, Prefix
<1>7. /\ SubSeq(texts, i + 1, n) \in Seq(Messages)
      /\ Len(SubSeq(texts, i + 1, n)) = IF i + 1 <= n THEN n - (i + 1) + 1 ELSE 0
    BY <1>4, <1>5, SubSeqProperties, Zenon
<1>8. Len(RemoveAt(texts, i)) = Len(SubSeq(texts, 1, i - 1)) + Len(SubSeq(texts, i + 1, n))
    BY <1>6, <1>7, ConcatProperties DEF RemoveAt, n
<1>9. n = Len(texts)
    BY DEF n
<1> QED
    BY <1>1, <1>2, <1>6, <1>7, <1>8, <1>9

----------------------------------------------------------------------------
(* The steps of an enricher.                                               *)

\* An enrichment follows its detection, with its text, and is the work of an
\* execution that is over.
Written == \A e \in enrichments :
    e.id[2] <= e.at /\ e.text = e.id[1] /\ epc[e.by] = "done"

\* What an execution does not know as enriched was enriched too long ago, or
\* by one it met.
Fetched == \A r \in Enrichers : epc[r] = "fetch" => \A e \in enrichments :
    e.id \in enr[r].known \/ e.at < clock - Lookback \/ {e.by, r} \in met

\* What is pending is a detection, enriched by those the execution met at most.
Pending == \A r \in Enrichers : epc[r] \in {"embed", "write"} =>
    /\ enr[r].pending \subseteq {IdOf(d) : d \in detections}
    /\ TakesNewest(enr[r].batch, enr[r].pending)
    /\ \A e \in enrichments : e.id \in enr[r].pending => {e.by, r} \in met

\* What is to be written matches its detections, older ones.
Answered == \A r \in Enrichers : epc[r] = "write" =>
    /\ enr[r].items = Texts(enr[r].batch)
    /\ \A i \in DOMAIN enr[r].batch : enr[r].batch[i][2] <= enr[r].at

Sliced == \A r \in Enrichers :
    Len(enr[r].batch) <= Batch /\ ToSet(enr[r].batch) \subseteq enr[r].pending

EnrInv ==
    /\ EnricherTypes /\ EnrichersMeet /\ Sliced
    /\ Written /\ Fetched /\ Pending /\ Answered

\* Time goes on, and the detectors do what they do.
LEMMA EnrichersLeft ==
    ASSUME DetInv, EnrInv, UNCHANGED <<enrichments, epc, enr>>, met \subseteq met',
           detections \subseteq detections', clock' \in Times, clock <= clock'
    PROVE  EnrInv'
<1>1. EnricherTypes' /\ EnrichersMeet' /\ Sliced' /\ Written' /\ Answered'
    BY DEF EnrInv, EnricherTypes, EnrichedIds, EnrichersMeet, EnrRuns, Sliced, Written, Answered
<1>2. /\ clock \in Nat /\ clock' \in Nat /\ Lookback \in Nat
      /\ \A e \in enrichments : e.at \in Nat
    BY TimeTypes DEF DetInv, DetectorTypes, EnrInv, EnricherTypes, Enrichment
<1>3. \A e \in enrichments : e.at < clock - Lookback => e.at < clock' - Lookback
    BY <1>2
<1>4. Fetched'
    BY <1>3 DEF EnrInv, Fetched
<1>5. Pending'
    BY DEF EnrInv, Pending, TakesNewest
<1> QED
    BY <1>1, <1>4, <1>5 DEF EnrInv

LEMMA EnricherSteps ==
    ASSUME EnrInv, NEW r \in Enrichers, NEW to \in EnrPcs, NEW x \in EnrState, EnrGo(r, to, x)
    PROVE  /\ epc' \in [Enrichers -> EnrPcs] /\ enr' \in [Enrichers -> EnrState]
           /\ epc'[r] = to /\ enr'[r] = x
           /\ \A o \in Enrichers \ {r} : epc'[o] = epc[o] /\ enr'[o] = enr[o]
BY EnrGoMoves DEF EnrInv

LEMMA NoEnrichment ==
    /\ NoEnr.batch = <<>> /\ Len(<<>>) = 0 /\ ToSet(<<>>) = {}
    /\ \A k \in SUBSET Ids : LET x == [NoEnr EXCEPT !.known = k] IN
           x \in EnrState /\ x.known = k /\ x.batch = <<>> /\ x.pending = {}
<1>1. NoEnr.batch = <<>> /\ Len(<<>>) = 0 /\ ToSet(<<>>) = {}
    BY DEF NoEnr, ToSet
<1>2. \A k \in SUBSET Ids : LET x == [NoEnr EXCEPT !.known = k] IN
          x \in EnrState /\ x.known = k /\ x.batch = <<>> /\ x.pending = {}
    BY NoRecords DEF NoEnr, EnrState
<1> QED
    BY <1>1, <1>2

LEMMA PendingRecord ==
    ASSUME NEW p \in SUBSET Ids, NEW b \in Seq(Ids)
    PROVE  LET x == [NoEnr EXCEPT !.pending = p, !.batch = b] IN
           x \in EnrState /\ x.pending = p /\ x.batch = b
BY NoRecords DEF NoEnr, EnrState

\* An execution that gives up, at whatever point.
LEMMA GivesUp ==
    ASSUME EnrInv, NEW r \in Enrichers, epc[r] # "new", EnrGo(r, "done", NoEnr),
           UNCHANGED <<clock, detections, enrichments, met>>
    PROVE  EnrInv'
<1>1. /\ epc' \in [Enrichers -> EnrPcs] /\ enr' \in [Enrichers -> EnrState]
      /\ epc'[r] = "done" /\ enr'[r] = NoEnr
      /\ \A o \in Enrichers \ {r} : epc'[o] = epc[o] /\ enr'[o] = enr[o]
    BY EnricherSteps, NoRecords DEF EnrPcs
<1>2. EnricherTypes' /\ EnrichersMeet' /\ Fetched' /\ Pending' /\ Answered'
    BY <1>1 DEF EnrInv, EnricherTypes, EnrichedIds, EnrichersMeet, EnrRuns, Fetched, Pending,
                Answered, TakesNewest
<1>3. Sliced'
    <2>1. Len(enr'[r].batch) = 0 /\ ToSet(enr'[r].batch) = {}
        BY <1>1, NoEnrichment, Zenon
    <2>2. Len(enr'[r].batch) <= Batch /\ ToSet(enr'[r].batch) \subseteq enr'[r].pending
        BY <2>1, TimeTypes
    <2> QED
        BY <1>1, <2>2 DEF EnrInv, Sliced
<1>4. Written'
    BY <1>1 DEF EnrInv, EnricherTypes, Enrichment, Written
<1> QED
    BY <1>2, <1>3, <1>4 DEF EnrInv

LEMMA FetchEnrichedKeeps ==
    ASSUME DetInv, EnrInv, NEW r \in Enrichers, FetchEnriched(r)
    PROVE  EnrInv'
<1>1. PICK x : x = [NoEnr EXCEPT !.known = Known]
    OBVIOUS
<1>2. /\ epc[r] = "new" /\ EnrGo(r, "fetch", x)
      /\ met' = met \cup {{r, o} : o \in Running(epc)}
      /\ UNCHANGED <<clock, detections, enrichments>>
    BY <1>1 DEF FetchEnriched
<1>3. Known \in SUBSET Ids
    BY DEF Known, Recent, EnrInv, EnricherTypes, Enrichment
<1>4. x \in EnrState /\ x.known = Known /\ x.batch = <<>> /\ x.pending = {}
    BY <1>1, <1>3, NoEnrichment
<1>5. /\ epc' \in [Enrichers -> EnrPcs] /\ enr' \in [Enrichers -> EnrState]
      /\ epc'[r] = "fetch" /\ enr'[r] = x
      /\ \A o \in Enrichers \ {r} : epc'[o] = epc[o] /\ enr'[o] = enr[o]
    BY <1>2, <1>4, EnricherSteps DEF EnrPcs
<1>6. \A o \in Enrichers : EnrRuns(o) => {r, o} \in met' /\ {o, r} \in met'
    <2> SUFFICES ASSUME NEW o \in Enrichers, EnrRuns(o) PROVE {r, o} \in met' /\ {o, r} \in met'
        OBVIOUS
    <2>1. {r, o} \in met'
        BY <1>2 DEF EnrRuns, Running, EnrInv, EnricherTypes
    <2>2. {o, r} = {r, o}
        OBVIOUS
    <2> QED
        BY <2>1, <2>2
<1>7. EnrichersMeet'
    BY <1>2, <1>5, <1>6 DEF EnrInv, EnrichersMeet, EnrRuns
<1>8. EnricherTypes'
    BY <1>2, <1>5 DEF EnrInv, EnricherTypes, EnrichedIds
<1>9. Pending' /\ Answered'
    BY <1>2, <1>5 DEF EnrInv, Pending, Answered, TakesNewest
<1>10. Sliced'
    <2>1. Len(enr'[r].batch) = 0 /\ ToSet(enr'[r].batch) = {}
        BY <1>4, <1>5, NoEnrichment, Zenon
    <2>2. Len(enr'[r].batch) <= Batch /\ ToSet(enr'[r].batch) \subseteq enr'[r].pending
        BY <2>1, TimeTypes
    <2> QED
        BY <1>5, <2>2 DEF EnrInv, Sliced
<1>11. Written'
    BY <1>2, <1>5 DEF EnrInv, EnricherTypes, Enrichment, Written
<1>12. \A e \in enrichments : e.id \in Known \/ e.at < clock - Lookback
    <2>1. clock \in Nat /\ Lookback \in Nat /\ \A e \in enrichments : e.at \in Nat
        BY TimeTypes DEF DetInv, DetectorTypes, EnrInv, EnricherTypes, Enrichment
    <2>2. \A e \in enrichments : e.at >= clock - Lookback => e.id \in Known
        BY DEF Known, Recent
    <2> QED
        BY <2>1, <2>2
<1>13. Fetched'
    BY <1>2, <1>4, <1>5, <1>12 DEF EnrInv, Fetched
<1> QED
    BY <1>7, <1>8, <1>9, <1>10, <1>11, <1>13 DEF EnrInv

\* The detections that an execution finds pending.
ToEnrich(r) == {IdOf(d) : d \in Recent(detections)} \ enr[r].known

LEMMA ToEnrichTypes ==
    ASSUME DetInv, NEW r
    PROVE  /\ ToEnrich(r) \in SUBSET Ids /\ IsFiniteSet(ToEnrich(r))
           /\ ToEnrich(r) \subseteq {IdOf(d) : d \in detections}
           /\ \A id \in ToEnrich(r) : id \notin enr[r].known /\ id[2] >= clock - Lookback
<1> DEFINE ids == {IdOf(d) : d \in detections}
           f == [d \in detections |-> IdOf(d)]
<1>1. f \in Surjection(detections, ids)
    BY DEF Surjection
<1>2. IsFiniteSet(ids)
    BY <1>1, FS_Surjection DEF DetInv, DetectorTypes
<1>3. ids \subseteq Ids
    BY DEF DetInv, DetectorTypes, Detection, IdOf, Ids
<1>4. ToEnrich(r) \subseteq ids
    BY DEF ToEnrich, Recent
<1>5. \A id \in ToEnrich(r) : id \notin enr[r].known /\ id[2] >= clock - Lookback
    BY DEF ToEnrich, Recent, IdOf
<1> HIDE DEF ids
<1>6. IsFiniteSet(ToEnrich(r))
    BY <1>2, <1>4, FS_Subset
<1> QED
    BY <1>3, <1>4, <1>5, <1>6 DEF ids

LEMMA FetchPendingKeeps ==
    ASSUME DetInv, EnrInv, NEW r \in Enrichers, FetchPending(r)
    PROVE  EnrInv'
<1>1. /\ epc[r] = "fetch" /\ UNCHANGED <<clock, detections, enrichments, met>>
      /\ \/ EnrGo(r, "done", NoEnr)
         \/ \E s \in NewestFirst(ToEnrich(r)) :
              EnrGo(r, "embed", [NoEnr EXCEPT !.pending = ToEnrich(r), !.batch = Taken(s)])
    BY DEF FetchPending, ToEnrich
<1>2. CASE EnrGo(r, "done", NoEnr)
    BY <1>1, <1>2, GivesUp
<1>3. CASE \E s \in NewestFirst(ToEnrich(r)) :
              EnrGo(r, "embed", [NoEnr EXCEPT !.pending = ToEnrich(r), !.batch = Taken(s)])
    <2>1. PICK s \in NewestFirst(ToEnrich(r)) :
              EnrGo(r, "embed", [NoEnr EXCEPT !.pending = ToEnrich(r), !.batch = Taken(s)])
        BY <1>3
    <2>2. PICK p, b, x : p = ToEnrich(r) /\ b = Taken(s) /\ x = [NoEnr EXCEPT !.pending = p, !.batch = b]
        OBVIOUS
    <2>3. /\ p \in SUBSET Ids /\ IsFiniteSet(p) /\ p \subseteq {IdOf(d) : d \in detections}
          /\ \A id \in p : id \notin enr[r].known /\ id[2] >= clock - Lookback
        BY <2>2, ToEnrichTypes
    <2>4. b \in Seq(Ids) /\ TakesNewest(b, p)
        BY <2>2, <2>3, TakenIsNewest
    <2>5. x \in EnrState /\ x.pending = p /\ x.batch = b
        BY <2>2, <2>3, <2>4, PendingRecord
    <2>6. EnrGo(r, "embed", x)
        BY <2>1, <2>2
    <2>7. /\ epc' \in [Enrichers -> EnrPcs] /\ enr' \in [Enrichers -> EnrState]
          /\ epc'[r] = "embed" /\ enr'[r] = x
          /\ \A o \in Enrichers \ {r} : epc'[o] = epc[o] /\ enr'[o] = enr[o]
        BY <2>5, <2>6, EnricherSteps DEF EnrPcs
    <2>8. /\ EnricherTypes' /\ EnrichersMeet' /\ Fetched' /\ Answered'
        BY <1>1, <2>7 DEF EnrInv, EnricherTypes, EnrichedIds, EnrichersMeet, EnrRuns, Fetched, Answered
    <2>9. Written'
        BY <1>1, <2>7 DEF EnrInv, EnricherTypes, Enrichment, Written
    <2>10. Sliced'
        BY <2>4, <2>5, <2>7 DEF EnrInv, Sliced, TakesNewest
    <2>11. \A e \in enrichments : e.id \in p => {e.by, r} \in met
        <3> SUFFICES ASSUME NEW e \in enrichments, e.id \in p PROVE {e.by, r} \in met
            OBVIOUS
        <3>1. e.at \in Nat /\ e.id[2] \in Nat /\ clock \in Nat /\ Lookback \in Nat
            BY TimeTypes DEF DetInv, DetectorTypes, EnrInv, EnricherTypes, Enrichment, Ids
        <3>2. e.id[2] >= clock - Lookback /\ e.id[2] <= e.at /\ e.id \notin enr[r].known
            BY <2>3 DEF EnrInv, Written
        <3>3. ~(e.at < clock - Lookback)
            BY <3>1, <3>2
        <3> QED
            BY <1>1, <3>2, <3>3 DEF EnrInv, Fetched
    <2>12. Pending'
        BY <1>1, <2>3, <2>4, <2>5, <2>7, <2>11 DEF EnrInv, Pending, TakesNewest
    <2> QED
        BY <2>8, <2>9, <2>10, <2>12 DEF EnrInv
<1> QED
    BY <1>1, <1>2, <1>3

LEMMA EmbedKeeps ==
    ASSUME DetInv, EnrInv, NEW r \in Enrichers, Embed(r)
    PROVE  EnrInv'
<1> DEFINE texts == Texts(enr[r].batch)
<1>1. /\ epc[r] = "embed" /\ UNCHANGED <<clock, detections, enrichments, met>>
      /\ \/ EnrGo(r, "done", NoEnr)
         \/ \E items \in Answers(texts) :
              Complete(items, texts)
              /\ EnrGo(r, "write", [enr[r] EXCEPT !.items = items, !.at = clock])
    BY DEF Embed
<1>2. CASE EnrGo(r, "done", NoEnr)
    BY <1>1, <1>2, GivesUp
<1>3. CASE \E items \in Answers(texts) :
              Complete(items, texts)
              /\ EnrGo(r, "write", [enr[r] EXCEPT !.items = items, !.at = clock])
    <2>1. PICK items \in Answers(texts) :
              Complete(items, texts)
              /\ EnrGo(r, "write", [enr[r] EXCEPT !.items = items, !.at = clock])
        BY <1>3
    <2>2. enr[r] \in EnrState /\ enr[r].batch \in Seq(Ids) /\ enr[r].pending \subseteq Ids
        BY DEF EnrInv, EnricherTypes, EnrState
    <2>3. texts \in Seq(Messages)
        BY <2>2, TextsOf
    <2>4. items = texts
        BY <2>1, <2>3, CompleteAnswer
    <2>5. PICK e, t, x : e = enr[r] /\ t = clock /\ x = [e EXCEPT !.items = items, !.at = t]
        OBVIOUS
    <2>6. clock \in Times
        BY DEF DetInv, DetectorTypes
    <2>7. /\ x \in EnrState /\ x.items = texts /\ x.at = clock
          /\ x.batch = enr[r].batch /\ x.pending = enr[r].pending
        <3>1. e \in EnrState /\ t \in Times /\ items \in Seq(Messages)
            BY <2>2, <2>3, <2>4, <2>5, <2>6
        <3>2. /\ x \in EnrState /\ x.items = items /\ x.at = t
              /\ x.batch = e.batch /\ x.pending = e.pending
            BY <2>5, <3>1 DEF EnrState
        <3> QED
            BY <2>4, <2>5, <3>2
    <2>8. EnrGo(r, "write", x)
        BY <2>1, <2>5
    <2>9. /\ epc' \in [Enrichers -> EnrPcs] /\ enr' \in [Enrichers -> EnrState]
          /\ epc'[r] = "write" /\ enr'[r] = x
          /\ \A o \in Enrichers \ {r} : epc'[o] = epc[o] /\ enr'[o] = enr[o]
        BY <2>7, <2>8, EnricherSteps DEF EnrPcs
    <2>10. /\ EnricherTypes' /\ EnrichersMeet' /\ Fetched'
        BY <1>1, <2>9 DEF EnrInv, EnricherTypes, EnrichedIds, EnrichersMeet, EnrRuns, Fetched
    <2>11. Written'
        BY <1>1, <2>9 DEF EnrInv, EnricherTypes, Enrichment, Written
    <2>12. Sliced'
        BY <2>7, <2>9 DEF EnrInv, Sliced
    <2>13. Pending'
        BY <1>1, <2>7, <2>9 DEF EnrInv, Pending, TakesNewest
    <2>14. \A i \in DOMAIN enr[r].batch : enr[r].batch[i][2] <= clock
        <3>1. ToSet(enr[r].batch) \subseteq {IdOf(d) : d \in detections}
            BY <1>1 DEF EnrInv, Sliced, Pending
        <3>2. \A id \in {IdOf(d) : d \in detections} : id[2] <= clock
            BY DEF DetInv, Past, IdOf
        <3> QED
            BY <3>1, <3>2 DEF ToSet
    <2>15. Answered'
        <3> SUFFICES ASSUME NEW o \in Enrichers, epc'[o] = "write"
                     PROVE  /\ enr'[o].items = Texts(enr'[o].batch)
                            /\ \A i \in DOMAIN enr'[o].batch : enr'[o].batch[i][2] <= enr'[o].at
            BY DEF Answered, Texts
        <3>1. CASE o = r
            BY <2>7, <2>9, <2>14, <3>1
        <3>2. CASE o # r
            BY <2>9, <3>2 DEF EnrInv, Answered
        <3> QED
            BY <3>1, <3>2
    <2> QED
        BY <2>10, <2>11, <2>12, <2>13, <2>15 DEF EnrInv
<1> QED
    BY <1>1, <1>2, <1>3

\* The rows of an enricher.
Enriched(r) == {[id |-> enr[r].batch[i], text |-> enr[r].items[i], at |-> enr[r].at, by |-> r] :
                    i \in DOMAIN enr[r].items}

LEMMA EnrichedTypes ==
    ASSUME EnrInv, NEW r \in Enrichers, epc[r] = "write"
    PROVE  /\ Enriched(r) \subseteq Enrichment
           /\ \A e \in Enriched(r) : /\ e.by = r /\ e.id \in enr[r].pending
                                     /\ e.text = e.id[1] /\ e.id[2] <= e.at
           /\ \A id \in ToSet(enr[r].batch) : \E e \in Enriched(r) : e.id = id
<1> DEFINE b == enr[r].batch
           items == enr[r].items
<1>1. enr[r].at \in Times /\ b \in Seq(Ids)
    BY DEF EnrInv, EnricherTypes, EnrState
<1>2. items = Texts(b) /\ ToSet(b) \subseteq enr[r].pending /\ \A i \in DOMAIN b : b[i][2] <= enr[r].at
    BY DEF EnrInv, Answered, Sliced
<1>3. /\ items \in Seq(Messages) /\ DOMAIN items = DOMAIN b
      /\ \A i \in DOMAIN b : items[i] = b[i][1]
    BY <1>1, <1>2, TextsOf
<1>4. \A i \in DOMAIN b : b[i] \in Ids /\ b[i] \in enr[r].pending /\ items[i] \in Messages
    <2>1. DOMAIN b = 1..Len(b) /\ \A i \in 1..Len(b) : b[i] \in Ids
        BY <1>1, LenProperties, ElementOfSeq
    <2>2. \A i \in DOMAIN b : b[i] \in enr[r].pending
        BY <1>2 DEF ToSet
    <2>3. \A i \in DOMAIN b : b[i][1] \in Messages
        BY <2>1 DEF Ids
    <2> QED
        BY <1>3, <2>1, <2>2, <2>3
<1>5. \A e \in Enriched(r) : \E i \in DOMAIN b :
          e = [id |-> b[i], text |-> items[i], at |-> enr[r].at, by |-> r]
    BY <1>3 DEF Enriched
<1>6. ASSUME NEW e \in Enriched(r)
      PROVE  /\ e \in Enrichment /\ e.by = r /\ e.id \in enr[r].pending
             /\ e.text = e.id[1] /\ e.id[2] <= e.at
    <2>1. PICK i \in DOMAIN b : e = [id |-> b[i], text |-> items[i], at |-> enr[r].at, by |-> r]
        BY <1>5
    <2> QED
        BY <1>1, <1>2, <1>3, <1>4, <2>1 DEF Enrichment
<1>7. \A id \in ToSet(b) : \E e \in Enriched(r) : e.id = id
    <2> SUFFICES ASSUME NEW i \in DOMAIN b PROVE \E e \in Enriched(r) : e.id = b[i]
        BY DEF ToSet
    <2>1. [id |-> b[i], text |-> items[i], at |-> enr[r].at, by |-> r] \in Enriched(r)
        BY <1>3 DEF Enriched
    <2> QED
        BY <2>1
<1> QED
    BY <1>6, <1>7

LEMMA WriteKeeps ==
    ASSUME DetInv, EnrInv, NEW r \in Enrichers, Write(r)
    PROVE  /\ EnrInv' /\ epc[r] = "write" /\ met' = met
           /\ enrichments' = enrichments \cup Enriched(r) \/ enrichments' = enrichments
<1>1. /\ epc[r] = "write" /\ EnrGo(r, "done", NoEnr) /\ UNCHANGED <<clock, detections, met>>
      /\ enrichments' = enrichments \cup Enriched(r) \/ enrichments' = enrichments
    BY DEF Write, Enriched
<1>2. CASE enrichments' = enrichments
    BY <1>1, <1>2, GivesUp
<1>3. CASE enrichments' = enrichments \cup Enriched(r)
    <2>1. /\ Enriched(r) \subseteq Enrichment
          /\ \A e \in Enriched(r) : /\ e.by = r /\ e.id \in enr[r].pending
                                    /\ e.text = e.id[1] /\ e.id[2] <= e.at
        BY <1>1, EnrichedTypes
    <2>2. /\ epc' \in [Enrichers -> EnrPcs] /\ enr' \in [Enrichers -> EnrState]
          /\ epc'[r] = "done" /\ enr'[r] = NoEnr
          /\ \A o \in Enrichers \ {r} : epc'[o] = epc[o] /\ enr'[o] = enr[o]
        BY <1>1, EnricherSteps, NoRecords DEF EnrPcs
    <2>3. enr[r].pending \subseteq {IdOf(d) : d \in detections}
        BY <1>1 DEF EnrInv, Pending
    <2>4. EnricherTypes'
        BY <1>1, <1>3, <2>1, <2>2, <2>3 DEF EnrInv, EnricherTypes, EnrichedIds
    <2>5. EnrichersMeet' /\ Answered'
        BY <1>1, <2>2 DEF EnrInv, EnrichersMeet, EnrRuns, Answered
    <2>6. Sliced'
        <3>1. Len(enr'[r].batch) = 0 /\ ToSet(enr'[r].batch) = {}
            BY <2>2, NoEnrichment, Zenon
        <3>2. Len(enr'[r].batch) <= Batch /\ ToSet(enr'[r].batch) \subseteq enr'[r].pending
            BY <3>1, TimeTypes
        <3> QED
            BY <2>2, <3>2 DEF EnrInv, Sliced
    <2>7. Written'
        <3>1. \A e \in enrichments : e.by \in Enrichers
            BY DEF EnrInv, EnricherTypes, Enrichment
        <3> QED
            BY <1>3, <2>1, <2>2, <3>1 DEF EnrInv, Written
    <2>8. \A o \in Enrichers \ {r} : EnrRuns(o) => {r, o} \in met
        BY <1>1 DEF EnrInv, EnrichersMeet, EnrRuns
    <2>9. \A e \in enrichments' \ enrichments : e.by = r
        BY <1>3, <2>1
    <2>10. Fetched'
        <3> SUFFICES ASSUME NEW o \in Enrichers, epc'[o] = "fetch", NEW e \in enrichments'
                     PROVE  e.id \in enr'[o].known \/ e.at < clock - Lookback \/ {e.by, o} \in met
            BY <1>1 DEF Fetched
        <3>1. o # r /\ epc[o] = "fetch" /\ enr'[o] = enr[o]
            BY <2>2
        <3> QED
            BY <2>8, <2>9, <3>1 DEF EnrInv, Fetched, EnrRuns
    <2>11. Pending'
        <3> SUFFICES ASSUME NEW o \in Enrichers, epc'[o] \in {"embed", "write"}
                     PROVE  /\ enr'[o].pending \subseteq {IdOf(d) : d \in detections}
                            /\ TakesNewest(enr'[o].batch, enr'[o].pending)
                            /\ \A e \in enrichments' : e.id \in enr'[o].pending => {e.by, o} \in met
            BY <1>1 DEF Pending, TakesNewest
        <3>1. o # r /\ epc[o] \in {"embed", "write"} /\ enr'[o] = enr[o]
            BY <2>2
        <3> QED
            BY <2>8, <2>9, <3>1 DEF EnrInv, Pending, EnrRuns
    <2> QED
        BY <1>1, <1>3, <2>4, <2>5, <2>6, <2>7, <2>10, <2>11 DEF EnrInv
<1> QED
    BY <1>1, <1>2, <1>3

----------------------------------------------------------------------------
(* The theorems about enrichments, and the types.                          *)

LEMMA EnrInvKept == DetInv /\ EnrInv /\ [Next]_vars => EnrInv'
<1> SUFFICES ASSUME DetInv, EnrInv, [Next]_vars PROVE EnrInv'
    OBVIOUS
<1>1. clock \in Times /\ clock \in Nat /\ MaxTime \in Nat
    BY TimeTypes DEF DetInv, DetectorTypes
<1>2. ASSUME UNCHANGED <<clock, enrichments, epc, enr>>, met \subseteq met', detections \subseteq detections'
      PROVE  EnrInv'
    BY <1>1, <1>2, EnrichersLeft
<1>3. CASE Tick
    <2>1. clock' \in Times /\ clock <= clock' /\ UNCHANGED <<enrichments, epc, enr, met, detections>>
        BY <1>1, <1>3 DEF Tick, Times
    <2> QED
        BY <2>1, EnrichersLeft
<1>4. CASE (\E u \in Urls : Block(u)) \/ UNCHANGED vars
    BY <1>2, <1>4 DEF Block, vars
<1>5. CASE \E r \in Detectors : Detector(r)
    BY <1>2, <1>5 DEF Detector, List, Deduplicate, Insert
<1>6. CASE \E r \in Enrichers : Enricher(r)
    BY <1>6, FetchEnrichedKeeps, FetchPendingKeeps, EmbedKeeps, WriteKeeps DEF Enricher
<1> QED
    BY <1>3, <1>4, <1>5, <1>6 DEF Next

LEMMA InitEnrInv == Init => EnrInv
<1> SUFFICES ASSUME Init PROVE EnrInv
    OBVIOUS
<1>1. EnricherTypes
    BY NoRecords DEF Init, EnricherTypes, EnrichedIds, EnrPcs
<1>2. Sliced
    BY NoEnrichment, TimeTypes DEF Init, Sliced
<1> QED
    BY <1>1, <1>2 DEF Init, EnrInv, EnrichersMeet, EnrRuns, Written, Fetched, Pending, Answered

MetKept == MetTypes /\ DetInv /\ EnrInv

LEMMA MetTypesKept == MetKept /\ [Next]_vars => MetTypes'
<1> SUFFICES ASSUME MetKept, [Next]_vars PROVE MetTypes'
    OBVIOUS
<1>1. DOMAIN dpc = Detectors /\ DOMAIN epc = Enrichers
    BY DEF MetKept, DetInv, DetectorTypes, EnrInv, EnricherTypes
<1>2. ASSUME NEW r \in Detectors, Detector(r) PROVE MetTypes'
    BY <1>1, <1>2 DEF Detector, List, Deduplicate, Insert, MetKept, MetTypes, Running
<1>3. ASSUME NEW r \in Enrichers, Enricher(r) PROVE MetTypes'
    <2>1. met' = met \/ met' = met \cup {{r, o} : o \in Running(epc)}
        BY <1>3 DEF Enricher, FetchEnriched, FetchPending, Embed, Write
    <2> QED
        BY <1>1, <2>1 DEF MetKept, MetTypes, Running
<1> QED
    BY <1>2, <1>3 DEF Next, Tick, Block, vars, MetKept, MetTypes

\* What holds of every reachable state.
Inv == MetTypes /\ DetInv /\ EnrInv

LEMMA Invariance == Spec => []Inv
<1>1. Init => Inv
    BY InitDetInv, InitEnrInv DEF Inv, Init, MetTypes
<1>2. Inv /\ [Next]_vars => Inv'
    BY DetInvKept, EnrInvKept, MetTypesKept DEF Inv, MetKept
<1> QED
    BY <1>1, <1>2, PTL DEF Spec

\* Every variable keeps its type, an execution takes one batch at most, of
\* what is pending, and what is enriched is a detection (enrich-job/main.py:
\* BATCH_SIZE).
THEOREM TypeCorrect == Spec => []TypeOK
<1>1. Inv => TypeOK
    <2> SUFFICES ASSUME Inv PROVE TypeOK
        OBVIOUS
    <2>1. \A r \in Detectors : det[r].messages \subseteq Messages /\ det[r].at \in Times
        BY DEF Inv, DetInv, DetectorTypes, DetState
    <2>2. \A r \in Enrichers :
            /\ enr[r].known \cup enr[r].pending \subseteq Ids
            /\ Len(enr[r].batch) <= Batch /\ ToSet(enr[r].batch) \subseteq enr[r].pending
        BY DEF Inv, EnrInv, EnricherTypes, EnrState, Sliced
    <2> QED
        BY <2>1, <2>2 DEF Inv, DetInv, EnrInv, DetectorTypes, EnricherTypes, MetTypes, TypeOK
<1> QED
    BY <1>1, Invariance, PTL

LEMMA OnceKept == Inv /\ EnrichedOnce /\ [Next]_vars => EnrichedOnce'
<1> SUFFICES ASSUME Inv, EnrichedOnce, [Next]_vars PROVE EnrichedOnce'
    OBVIOUS
<1>1. CASE enrichments' = enrichments /\ met \subseteq met'
    BY <1>1 DEF EnrichedOnce
<1>2. ASSUME NEW r \in Enrichers, Write(r) PROVE EnrichedOnce'
    <2>1. /\ epc[r] = "write" /\ met' = met
          /\ enrichments' = enrichments \cup Enriched(r) \/ enrichments' = enrichments
        BY <1>2, WriteKeeps DEF Inv
    <2> SUFFICES ASSUME enrichments' = enrichments \cup Enriched(r) PROVE EnrichedOnce'
        BY <1>1, <2>1
    <2>2. \A e \in Enriched(r) : e.by = r /\ e.id \in enr[r].pending /\ e.text = e.id[1]
        BY <2>1, EnrichedTypes DEF Inv
    <2>3. \A e \in enrichments, f \in Enriched(r) : e.id = f.id => {e.by, f.by} \in met /\ {f.by, e.by} \in met
        <3> SUFFICES ASSUME NEW e \in enrichments, NEW f \in Enriched(r), e.id = f.id
                     PROVE  {e.by, f.by} \in met /\ {f.by, e.by} \in met
            OBVIOUS
        <3>1. {e.by, r} \in met /\ f.by = r
            BY <2>1, <2>2 DEF Inv, EnrInv, Pending
        <3>2. {e.by, f.by} = {f.by, e.by}
            OBVIOUS
        <3> QED
            BY <3>1, <3>2
    <2> QED
        BY <2>1, <2>2, <2>3 DEF EnrichedOnce
<1>3. ASSUME NEW r \in Enrichers, FetchEnriched(r) \/ FetchPending(r) \/ Embed(r)
      PROVE  EnrichedOnce'
    <2>1. enrichments' = enrichments /\ met \subseteq met'
        BY <1>3 DEF FetchEnriched, FetchPending, Embed
    <2> QED
        BY <1>1, <2>1
<1>4. CASE Tick \/ (\E u \in Urls : Block(u)) \/ (\E r \in Detectors : Detector(r)) \/ UNCHANGED vars
    <2>1. enrichments' = enrichments /\ met \subseteq met'
        BY <1>4 DEF Tick, Block, Detector, List, Deduplicate, Insert, vars
    <2> QED
        BY <1>1, <2>1
<1> QED
    BY <1>2, <1>3, <1>4 DEF Next, Enricher

\* A detection is enriched again only by an execution that overlapped with the
\* first, and always with its own text (enrich-job/main.py: what is known is
\* read before what is pending, and the answer must have an item per text).
THEOREM DetectionsEnrichedOnce == Spec => []EnrichedOnce
<1>1. Init => EnrichedOnce
    BY DEF Init, EnrichedOnce
<1> QED
    BY <1>1, OnceKept, Invariance, PTL DEF Spec

\* A pending detection waits only behind a whole batch of others, none older
\* (enrich-job/main.py: ORDER BY timestamp DESC, then the first BATCH_SIZE).
THEOREM OlderOnesWait == Spec => OnlyOlderOnesWait
<1>1. ASSUME Inv, NEW r \in Enrichers, epc[r] = "write", enrichments' # enrichments, Write(r),
             NEW id \in enr[r].pending
      PROVE  \/ id \in EnrichedIds'
             \/ /\ Len(enr[r].batch) = Batch
                /\ \A other \in ToSet(enr[r].batch) : other[2] >= id[2]
    <2>1. enrichments' = enrichments \cup Enriched(r)
        BY <1>1, WriteKeeps DEF Inv
    <2>2. \A x \in ToSet(enr[r].batch) : \E e \in Enriched(r) : e.id = x
        BY <1>1, EnrichedTypes DEF Inv
    <2>3. \A x \in ToSet(enr[r].batch) : x \in EnrichedIds'
        BY <2>1, <2>2 DEF EnrichedIds
    <2>4. TakesNewest(enr[r].batch, enr[r].pending)
        BY <1>1 DEF Inv, EnrInv, Pending
    <2> QED
        BY <2>3, <2>4 DEF TakesNewest
<1>2. Inv => [\A r \in Enrichers : epc[r] = "write" /\ enrichments' # enrichments /\ Write(r) =>
        \A id \in enr[r].pending :
            \/ id \in EnrichedIds'
            \/ /\ Len(enr[r].batch) = Batch
               /\ \A other \in ToSet(enr[r].batch) : other[2] >= id[2]]_vars
    BY <1>1
<1> QED
    BY <1>2, Invariance, PTL DEF OnlyOlderOnesWait
=============================================================================
