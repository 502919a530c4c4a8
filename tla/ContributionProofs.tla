------------------------- MODULE ContributionProofs -------------------------
(***************************************************************************)
(* Proofs about ContributionServer, for any sets of users, phrases, items, *)
(* requests and recover calls, with and without faults; and, on top of     *)
(* them, about OutboxDelivery, for any number of tabs.                     *)
(***************************************************************************)
EXTENDS OutboxDelivery, FiniteSetTheorems, TLAPS

(***************************************************************************)
(* Type correctness.  What a handler works on is known once it runs: this  *)
(* is the part of the state TypeOK needs to be inductive.                  *)
(***************************************************************************)
WorkKnown ==
    /\ \A r \in Requests : pc[r] # "idle" => work[r] \in Items
    /\ \A r \in Requests : vault[r] # "none" => pc[r] # "idle"
    /\ \A a \in Recoverers : recPc[a] # "idle" =>
          recRow[a] \in Requests /\ vault[recRow[a]] # "none"

TypeInv == TypeOK /\ WorkKnown

LEMMA TypeInit == Init => TypeInv
<1> SUFFICES ASSUME Init PROVE TypeOK /\ WorkKnown
  BY DEF TypeInv
<1>1. TypeOK
  BY DEF Init, TypeOK, PcValues, Replies, VaultValues, RecPcValues
<1>2. WorkKnown
  BY DEF Init, WorkKnown
<1> QED
  BY <1>1, <1>2

\* A request's own steps.
LEMMA TypeStep ==
  ASSUME TypeInv, NEW r \in Requests, Step(r) \/ Fail(r) \/ Unreadable(r)
  PROVE  TypeInv'
<1> USE ItemAssumption, ParameterAssumption
    DEF TypeInv, TypeOK, WorkKnown, PcValues, Replies, VaultValues, RecPcValues,
        dbVars, envVars, reqVars, recVars, FileKeys
<1>1. CASE CheckSaved(r)
  BY <1>1 DEF CheckSaved, Goto, Answer
<1>2. CASE CheckAudio(r)
  BY <1>2 DEF CheckAudio, Goto, Answer, VaultAndReject, VaultAndAnswer, FailedKey
<1>3. CASE CheckText(r)
  BY <1>3 DEF CheckText, Goto, Answer, VaultAndReject, VaultAndAnswer, FailedKey
<1>4. CASE CheckDuplicate(r)
  BY <1>4 DEF CheckDuplicate, Goto, Answer, VaultAndReject, VaultAndAnswer, FailedKey
<1>5. CASE CheckActive(r)
  BY <1>5 DEF CheckActive, Goto, Answer, VaultAndReject, VaultAndAnswer, FailedKey
<1>6. CASE StoreAudio(r)
  BY <1>6 DEF StoreAudio, Answer, VaultAndReject, VaultAndAnswer, FailedKey, FinalKey
<1>7. CASE ReadPoints(r)
  BY <1>7 DEF ReadPoints
<1>8. CASE InsertRow(r)
  BY <1>8 DEF InsertRow, Answer
<1>9. CASE AwardAndCommit(r)
  BY <1>9 DEF AwardAndCommit, Answer, FinalKey, Row
<1>10. CASE Fail(r)
  BY <1>10 DEF Fail, Answer, Running
<1>11. CASE Unreadable(r)
  BY <1>11 DEF Unreadable, VaultAndAnswer, Answer, FailedKey
<1> QED
  BY <1>1, <1>2, <1>3, <1>4, <1>5, <1>6, <1>7, <1>8, <1>9, <1>10, <1>11 DEF Step

\* The recover call's steps.
LEMMA TypeRecover ==
  ASSUME TypeInv, NEW a \in Recoverers,
         (\E r \in Requests : RecoverRead(a, r)) \/ RecoverStep(a) \/ RecoverFail(a)
  PROVE  TypeInv'
<1> USE ItemAssumption, ParameterAssumption
    DEF TypeInv, TypeOK, WorkKnown, PcValues, Replies, VaultValues, RecPcValues,
        dbVars, envVars, reqVars, recVars, FileKeys
<1>1. ASSUME NEW r \in Requests, RecoverRead(a, r) PROVE TypeInv'
  BY <1>1 DEF RecoverRead
<1>2. CASE RecoverCheck(a)
  BY <1>2 DEF RecoverCheck, RecGoto
<1>3. CASE RecoverMove(a)
  BY <1>3 DEF RecoverMove, RecGoto, RecoveredKey, FailedKey
<1>4. CASE RecoverCommit(a)
  <2>1. recRow[a] \in Requests /\ work[recRow[a]] \in Items
    BY <1>4 DEF RecoverCommit
  <2> DEFINE c == [item |-> work[recRow[a]], file |-> RecoveredKey(recRow[a]), flash |-> FALSE]
  <2>2. c \in Row
    BY <2>1 DEF RecoveredKey, Row
  <2>3. rows' \subseteq Row
    <3>1. rows' = rows \cup {c} \/ rows' = rows
      BY <1>4 DEF RecoverCommit
    <3> HIDE DEF c
    <3> QED
      BY <3>1, <2>2
  <2>4. points' \in [Users -> Nat]
    BY <1>4, <2>1 DEF RecoverCommit
  <2> QED
    BY <1>4, <2>1, <2>3, <2>4 DEF RecoverCommit, RecGoto
<1>5. CASE RecoverFail(a)
  BY <1>5 DEF RecoverFail, RecGoto
<1> QED
  BY <1>1, <1>2, <1>3, <1>4, <1>5 DEF RecoverStep

LEMMA TypeNext == TypeInv /\ [Next]_vars => TypeInv'
<1> SUFFICES ASSUME TypeInv, [Next]_vars PROVE TypeInv'
  OBVIOUS
<1> USE DEF TypeInv, TypeOK, WorkKnown, dbVars, envVars, reqVars, recVars
<1>1. ASSUME NEW r \in Requests, NEW i \in Items, Receive(r, i) \/ Refuse(r, i)
      PROVE  TypeInv'
  BY <1>1 DEF Receive, Refuse, PcValues, Replies
<1>2. ASSUME NEW p \in Phrases, HidePhrase(p) PROVE TypeInv'
  BY <1>2 DEF HidePhrase
<1>3. CASE ToggleFlash
  BY <1>3 DEF ToggleFlash
<1>4. CASE Idle \/ UNCHANGED vars
  BY <1>4 DEF Idle, vars
<1> QED
  BY <1>1, <1>2, <1>3, <1>4, TypeStep, TypeRecover DEF Next, ServerNext

\* Every variable keeps its type, whatever requests, faults and recover calls
\* do.
THEOREM TypeCorrect == Spec => []TypeOK
<1>1. Spec => []TypeInv
  BY TypeInit, TypeNext, PTL DEF Spec
<1> QED
  BY <1>1, PTL DEF TypeInv

(***************************************************************************)
(* Nobody is overpaid, and no two contributions clash.                     *)
(*                                                                         *)
(* The invariant is not inductive by itself.  A transaction that has       *)
(* inserted its row but not committed it must not clash with a committed   *)
(* row nor with another such transaction, or its commit would make two     *)
(* clashing rows; and the points a transaction read earlier, which a flash *)
(* tournament writes back, must be points the author was owed by then.     *)
(* What a user is owed only grows, so they still are at the commit.        *)
(***************************************************************************)
AwardFresh ==
    \A r \in Requests : pc[r] = "award" =>
        \A c \in rows : ~Clash(c.item, work[r])

AwardExclusive ==
    \A q, r \in Requests :
        pc[q] = "award" /\ pc[r] = "award" /\ q # r => ~Clash(work[q], work[r])

SnapshotOwed ==
    \A r \in Requests :
        pc[r] \in {"insert", "award"} => before[r] <= Owed(Author[work[r]])

CreditInv ==
    /\ IsFiniteSet(rows)
    /\ NoTwoClash
    /\ AwardFresh
    /\ AwardExclusive
    /\ SnapshotOwed
    /\ NeverOverpaid

\* Clashing is symmetric, and an item clashes with itself.
LEMMA ClashSymmetric ==
  ASSUME NEW i \in Items, NEW j \in Items
  PROVE  Clash(i, i) /\ (Clash(i, j) <=> Clash(j, i))
  BY DEF Clash

\* The two look-ups of the code together say that no committed row clashes.
LEMMA NoClashSeen ==
  ASSUME TypeOK, NEW i \in Items, ~Saved(i), ~Heard(i)
  PROVE  \A c \in rows : ~Clash(c.item, i)
  BY ItemAssumption DEF Saved, Heard, Clash, Key, TypeOK, Row

\* What a user is owed is a number.
LEMMA OwedNat ==
  ASSUME IsFiniteSet(rows), NEW u \in Users
  PROVE  Owed(u) \in Nat
<1>1. IsFiniteSet(PaidRows(u))
  BY FS_Subset DEF PaidRows
<1>2. Cardinality(PaidRows(u)) \in Nat
  BY <1>1, FS_CardinalityType
<1> QED
  BY <1>2, ParameterAssumption DEF Owed

\* One more award is one more multiple.
LEMMA OneMore ==
  ASSUME NEW n \in Nat
  PROVE  /\ Award * (n + 1) = Award * n + Award
         /\ Award * n \in Nat
  BY ParameterAssumption

\* A new row adds one award to what its author is owed, unless it belongs to
\* a flash tournament, and nothing to what others are.
LEMMA OwedAfterRow ==
  ASSUME TypeOK, IsFiniteSet(rows), NEW c \in Row, c \notin rows,
         rows' = rows \cup {c}, NEW u \in Users
  PROVE  /\ IsFiniteSet(rows')
         /\ Owed(u)' \in Nat
         /\ Owed(u) <= Owed(u)'
         /\ Author[c.item] = u /\ ~c.flash => Owed(u)' = Owed(u) + Award
<1>1. IsFiniteSet(rows')
  BY FS_AddElement
<1>2. IsFiniteSet(PaidRows(u)) /\ Cardinality(PaidRows(u)) \in Nat
  BY FS_Subset, FS_CardinalityType DEF PaidRows
<1>3. c \notin PaidRows(u)
  BY DEF PaidRows
<1>4. CASE Author[c.item] = u /\ ~c.flash
  <2>1. PaidRows(u)' = PaidRows(u) \cup {c}
    BY <1>4 DEF PaidRows
  <2>2. Cardinality(PaidRows(u)') = Cardinality(PaidRows(u)) + 1
    BY <2>1, <1>2, <1>3, FS_AddElement
  <2>3. Owed(u)' = Owed(u) + Award /\ Owed(u) \in Nat
    BY <2>2, <1>2, OneMore DEF Owed
  <2> QED
    BY <1>1, <2>3, ParameterAssumption
<1>5. CASE ~(Author[c.item] = u /\ ~c.flash)
  <2>1. PaidRows(u)' = PaidRows(u)
    BY <1>5 DEF PaidRows
  <2>2. Owed(u)' = Owed(u) /\ Owed(u) \in Nat
    BY <2>1, <1>2, OneMore DEF Owed
  <2> QED
    BY <1>1, <1>5, <2>2
<1> QED
  BY <1>4, <1>5

\* Steps that move no row and no point and bring no request into its
\* transaction keep the invariant.
Quiet ==
    /\ rows' = rows
    /\ points' = points
    /\ \A q \in Requests : pc'[q] \in {"insert", "award"} =>
          pc'[q] = pc[q] /\ work'[q] = work[q] /\ before'[q] = before[q]

LEMMA QuietKeepsCredit ==
  ASSUME CreditInv, Quiet
  PROVE  CreditInv'
<1>1. \A u : Owed(u)' = Owed(u)
  BY DEF Quiet, Owed, PaidRows
<1>2. IsFiniteSet(rows') /\ NoTwoClash' /\ NeverOverpaid'
  BY <1>1 DEF CreditInv, Quiet, NoTwoClash, NeverOverpaid, Clash
<1>3. AwardFresh' /\ AwardExclusive'
  BY DEF CreditInv, Quiet, AwardFresh, AwardExclusive, Clash
<1>4. SnapshotOwed'
  BY <1>1 DEF CreditInv, Quiet, SnapshotOwed
<1> QED
  BY <1>2, <1>3, <1>4 DEF CreditInv

LEMMA QuietSteps ==
  ASSUME TypeInv, [Next]_vars
  PROVE  \/ Quiet
         \/ \E r \in Requests : ReadPoints(r) \/ InsertRow(r) \/ AwardAndCommit(r)
         \/ \E a \in Recoverers : RecoverCommit(a)
<1> USE DEF TypeInv, TypeOK, Quiet, dbVars, envVars, reqVars, recVars
<1>1. ASSUME NEW r \in Requests,
             \/ CheckSaved(r) \/ CheckAudio(r) \/ CheckText(r) \/ CheckDuplicate(r)
             \/ CheckActive(r) \/ StoreAudio(r) \/ Fail(r) \/ Unreadable(r)
      PROVE  Quiet
  BY <1>1 DEF CheckSaved, CheckAudio, CheckText, CheckDuplicate, CheckActive,
     StoreAudio, Fail, Unreadable, Goto, Answer, VaultAndReject, VaultAndAnswer,
     Running
<1>2. ASSUME NEW a \in Recoverers,
             \/ \E r \in Requests : RecoverRead(a, r)
             \/ RecoverCheck(a) \/ RecoverMove(a) \/ RecoverFail(a)
      PROVE  Quiet
  BY <1>2 DEF RecoverRead, RecoverCheck, RecoverMove, RecoverFail, RecGoto
<1>3. ASSUME NEW r \in Requests, NEW i \in Items, Receive(r, i) \/ Refuse(r, i)
      PROVE  Quiet
  BY <1>3 DEF Receive, Refuse
<1>4. ASSUME NEW p \in Phrases, HidePhrase(p) PROVE Quiet
  BY <1>4 DEF HidePhrase
<1>5. CASE ToggleFlash
  BY <1>5 DEF ToggleFlash
<1>6. CASE Idle \/ UNCHANGED vars
  BY <1>6 DEF Idle, vars
<1> QED
  BY <1>1, <1>2, <1>3, <1>4, <1>5, <1>6
     DEF Next, ServerNext, Step, RecoverStep

\* Reading the points: nobody is overpaid, so what is read is owed.
LEMMA ReadPointsKeepsCredit ==
  ASSUME TypeInv, CreditInv, NEW r \in Requests, ReadPoints(r)
  PROVE  CreditInv'
<1>1. \A u : Owed(u)' = Owed(u)
  BY DEF ReadPoints, dbVars, Owed, PaidRows
<1>2. IsFiniteSet(rows') /\ NoTwoClash' /\ NeverOverpaid'
  BY <1>1 DEF CreditInv, ReadPoints, dbVars, NoTwoClash, NeverOverpaid, Clash
<1>3. AwardFresh' /\ AwardExclusive'
  BY DEF CreditInv, ReadPoints, dbVars, AwardFresh, AwardExclusive, Clash, TypeInv, TypeOK
<1>4. Author[work[r]] \in Users
  BY ItemAssumption DEF ReadPoints, TypeInv, WorkKnown
<1>5. SnapshotOwed'
  BY <1>1, <1>4 DEF CreditInv, ReadPoints, SnapshotOwed, NeverOverpaid, TypeInv, TypeOK
<1> QED
  BY <1>2, <1>3, <1>5 DEF CreditInv

\* Inserting: the request sees no committed row that clashes and does not
\* get past an uncommitted one that does.
LEMMA InsertRowKeepsCredit ==
  ASSUME TypeInv, CreditInv, NEW r \in Requests, InsertRow(r)
  PROVE  CreditInv'
<1>1. CASE pc'[r] # "award"
  <2>1. Quiet
    BY <1>1 DEF InsertRow, Quiet, Answer, dbVars, TypeInv, TypeOK
  <2> QED
    BY <2>1, QuietKeepsCredit
<1>2. CASE pc'[r] = "award"
  <2>1. /\ ~Saved(work[r]) /\ ~Heard(work[r]) /\ ~Blocked(work[r])
        /\ pc[r] = "insert" /\ pc' = [pc EXCEPT ![r] = "award"]
        /\ UNCHANGED <<rows, points, work, before>>
    BY <1>2 DEF InsertRow, Answer, dbVars, TypeInv, TypeOK
  <2>2. \A u : Owed(u)' = Owed(u)
    BY <2>1 DEF Owed, PaidRows
  <2>3. IsFiniteSet(rows') /\ NoTwoClash' /\ NeverOverpaid'
    BY <2>1, <2>2 DEF CreditInv, NoTwoClash, NeverOverpaid, Clash
  <2>4. work[r] \in Items
    BY <2>1 DEF TypeInv, WorkKnown
  <2>5. AwardFresh'
    BY <2>1, <2>4, NoClashSeen DEF CreditInv, AwardFresh, Clash, TypeInv, TypeOK
  <2>6. AwardExclusive'
    <3> SUFFICES ASSUME NEW q \in Requests, NEW s \in Requests,
                        pc'[q] = "award", pc'[s] = "award", q # s
                 PROVE  ~Clash(work[q], work[s])
      BY <2>1 DEF AwardExclusive, Clash
    <3>1. CASE q # r /\ s # r
      BY <3>1, <2>1 DEF CreditInv, AwardExclusive, TypeInv, TypeOK
    <3>2. CASE s = r
      BY <3>2, <2>1 DEF Blocked, TypeInv, TypeOK
    <3>3. CASE q = r
      <4>1. pc[s] = "award" /\ work[s] \in Items
        BY <3>3, <2>1 DEF TypeInv, TypeOK, WorkKnown
      <4>2. ~Clash(work[s], work[r])
        BY <4>1, <2>1 DEF Blocked
      <4> QED
        BY <3>3, <4>1, <4>2, <2>4, ClashSymmetric
    <3> QED
      BY <3>1, <3>2, <3>3
  <2>7. SnapshotOwed'
    BY <2>1, <2>2 DEF CreditInv, SnapshotOwed, TypeInv, TypeOK
  <2> QED
    BY <2>3, <2>5, <2>6, <2>7 DEF CreditInv
<1> QED
  BY <1>1, <1>2

\* A row that clashes with none before it brings no clash.
LEMMA NoClashAdded ==
  ASSUME TypeOK, NoTwoClash, NEW c \in Row, rows' = rows \cup {c},
         \A d \in rows : ~Clash(d.item, c.item)
  PROVE  NoTwoClash'
<1> SUFFICES ASSUME NEW d \in rows', NEW e \in rows', Clash(d.item, e.item)
             PROVE  d = e
  BY DEF NoTwoClash, Clash
<1>1. c.item \in Items
  BY DEF Row
<1>2. \A x \in rows : x.item \in Items
  BY DEF TypeOK, Row
<1>3. CASE d \in rows /\ e \in rows
  BY <1>3 DEF NoTwoClash
<1>4. CASE d \in rows /\ e = c
  BY <1>4
<1>5. CASE d = c /\ e \in rows
  <2>1. ~Clash(e.item, c.item) /\ e.item \in Items
    BY <1>5, <1>2
  <2>2. ~Clash(c.item, e.item)
    BY <2>1, <1>1, ClashSymmetric
  <2> QED
    BY <2>2, <1>5
<1> QED
  BY <1>3, <1>4, <1>5

\* Any step that adds a row clashing with nothing and pays its author at most
\* what the row earns keeps the invariant.
LEMMA NewRowKeepsCredit ==
  ASSUME TypeInv, CreditInv, TypeOK',
         NEW c \in Row,
         \A d \in rows : ~Clash(d.item, c.item),
         rows' = rows \cup {c},
         \A q \in Requests : pc'[q] = "award" =>
             /\ pc[q] = "award" /\ work'[q] = work[q] /\ work[q] \in Items
             /\ ~Clash(c.item, work[q]),
         \A q \in Requests : pc'[q] \in {"insert", "award"} =>
             /\ pc[q] \in {"insert", "award"}
             /\ work'[q] = work[q] /\ before'[q] = before[q] /\ work[q] \in Items,
         \A u \in Users : u # Author[c.item] => points'[u] = points[u],
         \/ c.flash /\ points'[Author[c.item]] <= Owed(Author[c.item])
         \/ ~c.flash /\ points'[Author[c.item]] = points[Author[c.item]] + Award
  PROVE  CreditInv'
<1>1. c.item \in Items /\ Author[c.item] \in Users
  BY ItemAssumption DEF Row
<1>2. c \notin rows
  BY <1>1, ClashSymmetric
<1>3. \A u \in Users :
        /\ Owed(u) \in Nat /\ Owed(u)' \in Nat /\ Owed(u) <= Owed(u)'
        /\ Author[c.item] = u /\ ~c.flash => Owed(u)' = Owed(u) + Award
  BY <1>2, OwedAfterRow, OwedNat DEF CreditInv, TypeInv
<1>4. IsFiniteSet(rows')
  BY FS_AddElement DEF CreditInv
<1>5. NoTwoClash'
  BY NoClashAdded DEF CreditInv, TypeInv
<1>6. AwardFresh'
  <2> SUFFICES ASSUME NEW r \in Requests, pc'[r] = "award", NEW d \in rows'
               PROVE  ~Clash(d.item, work[r])
    BY DEF AwardFresh, Clash
  <2> QED
    BY DEF CreditInv, AwardFresh
<1>7. AwardExclusive'
  BY DEF CreditInv, AwardExclusive, Clash
<1>8. SnapshotOwed'
  <2> SUFFICES ASSUME NEW r \in Requests, pc'[r] \in {"insert", "award"}
               PROVE  (before[r] <= Owed(Author[work[r]]))'
    BY DEF SnapshotOwed
  <2>1. PICK u \in Users : u = Author[work[r]]
    BY ItemAssumption
  <2>2. before[r] \in Nat /\ before[r] <= Owed(u)
    BY <2>1 DEF CreditInv, SnapshotOwed, TypeInv, TypeOK
  <2>3. before[r] <= Owed(u)'
    BY <2>2, <1>3
  <2>4. before'[r] = before[r] /\ u = Author[work'[r]]
    BY <2>1
  <2> QED
    BY <2>3, <2>4
<1>9. NeverOverpaid'
  <2> SUFFICES ASSUME NEW u \in Users
               PROVE  points'[u] <= Owed(u)'
    BY DEF NeverOverpaid
  <2>1. points[u] \in Nat /\ points'[u] \in Nat /\ points[u] <= Owed(u)
    BY DEF TypeInv, TypeOK, CreditInv, NeverOverpaid
  <2>2. CASE u # Author[c.item]
    BY <2>1, <2>2, <1>3
  <2>3. CASE u = Author[c.item]
    BY <2>1, <2>3, <1>3, ParameterAssumption
  <2> QED
    BY <2>2, <2>3
<1> QED
  BY <1>4, <1>5, <1>6, <1>7, <1>8, <1>9 DEF CreditInv

\* The commit of a submission.
LEMMA AwardKeepsCredit ==
  ASSUME TypeInv, TypeInv', CreditInv, NEW r \in Requests, AwardAndCommit(r)
  PROVE  CreditInv'
<1> DEFINE c == [item |-> work[r], file |-> FinalKey(r), flash |-> inFlash[r]]
<1>1. work[r] \in Items /\ Author[work[r]] \in Users
  BY ItemAssumption DEF AwardAndCommit, TypeInv, WorkKnown
<1>2. c \in Row
  BY <1>1 DEF FinalKey, FileKeys, Row, TypeInv, TypeOK
<1>3. c.item = work[r] /\ c.flash = inFlash[r]
  OBVIOUS
<1>4. rows' = rows \cup {c} /\ pc[r] = "award" /\ pc' = [pc EXCEPT ![r] = "done"]
      /\ UNCHANGED <<work, before>>
  BY DEF AwardAndCommit, Answer
<1>5. \A d \in rows : ~Clash(d.item, c.item)
  BY <1>4 DEF CreditInv, AwardFresh
<1>6. \A q \in Requests : pc'[q] = "award" =>
        /\ pc[q] = "award" /\ work'[q] = work[q] /\ work[q] \in Items
        /\ ~Clash(c.item, work[q])
  <2> SUFFICES ASSUME NEW q \in Requests, pc'[q] = "award"
               PROVE  /\ pc[q] = "award" /\ work'[q] = work[q] /\ work[q] \in Items
                      /\ ~Clash(work[r], work[q])
    BY <1>3
  <2>1. q # r /\ pc[q] = "award" /\ work'[q] = work[q] /\ work[q] \in Items
    BY <1>4 DEF TypeInv, TypeOK, WorkKnown
  <2>2. ~Clash(work[r], work[q])
    BY <2>1, <1>4 DEF CreditInv, AwardExclusive
  <2> QED
    BY <2>1, <2>2
<1>7. \A q \in Requests : pc'[q] \in {"insert", "award"} =>
        /\ pc[q] \in {"insert", "award"}
        /\ work'[q] = work[q] /\ before'[q] = before[q] /\ work[q] \in Items
  BY <1>4 DEF TypeInv, TypeOK, WorkKnown
<1>8. \A u \in Users : u # Author[c.item] => points'[u] = points[u]
  BY <1>1 DEF AwardAndCommit, TypeInv, TypeOK
<1>9. \/ c.flash /\ points'[Author[c.item]] <= Owed(Author[c.item])
      \/ ~c.flash /\ points'[Author[c.item]] = points[Author[c.item]] + Award
  <2>1. CASE inFlash[r]
    <3>1. points'[Author[work[r]]] = before[r]
      BY <2>1, <1>1 DEF AwardAndCommit, TypeInv, TypeOK
    <3>2. before[r] <= Owed(Author[work[r]])
      BY <1>4 DEF CreditInv, SnapshotOwed
    <3> QED
      BY <2>1, <3>1, <3>2
  <2>2. CASE ~inFlash[r]
    BY <2>2, <1>1 DEF AwardAndCommit, TypeInv, TypeOK
  <2> QED
    BY <2>1, <2>2
<1> HIDE DEF c
<1> QED
  BY <1>2, <1>4, <1>5, <1>6, <1>7, <1>8, <1>9, NewRowKeepsCredit DEF TypeInv

\* The commit of a recover call.
LEMMA RecoverKeepsCredit ==
  ASSUME TypeInv, TypeInv', CreditInv, NEW a \in Recoverers, RecoverCommit(a)
  PROVE  CreditInv'
<1> DEFINE r == recRow[a]
           c == [item |-> work[r], file |-> RecoveredKey(r), flash |-> FALSE]
<1>1. r \in Requests /\ work[r] \in Items /\ Author[work[r]] \in Users
  BY ItemAssumption DEF RecoverCommit, TypeInv, WorkKnown
<1>2. UNCHANGED <<pc, work, before>> /\ ~Blocked(work[r])
  BY DEF RecoverCommit, RecGoto, reqVars
<1>3. CASE rows' = rows /\ points' = points
  BY <1>3, <1>2, QuietKeepsCredit DEF Quiet
<1>4. CASE ~(rows' = rows /\ points' = points)
  <2>1. /\ ~Saved(work[r]) /\ ~Heard(work[r])
        /\ rows' = rows \cup {c}
        /\ points' = [points EXCEPT ![Author[work[r]]] = @ + Award]
    BY <1>4 DEF RecoverCommit
  <2>2. c \in Row /\ c.item = work[r] /\ ~c.flash
    BY <1>1 DEF RecoveredKey, FileKeys, Row
  <2>3. \A d \in rows : ~Clash(d.item, c.item)
    BY <2>1, <2>2, <1>1, NoClashSeen DEF TypeInv
  <2>4. \A q \in Requests : pc'[q] = "award" =>
          /\ pc[q] = "award" /\ work'[q] = work[q] /\ work[q] \in Items
          /\ ~Clash(c.item, work[q])
    <3> SUFFICES ASSUME NEW q \in Requests, pc[q] = "award"
                 PROVE  work[q] \in Items /\ ~Clash(work[r], work[q])
      BY <1>2, <2>2
    <3>1. work[q] \in Items
      BY DEF TypeInv, WorkKnown
    <3>2. ~Clash(work[q], work[r])
      BY <1>2 DEF Blocked
    <3> QED
      BY <3>1, <3>2, <1>1, ClashSymmetric
  <2>5. \A q \in Requests : pc'[q] \in {"insert", "award"} =>
          /\ pc[q] \in {"insert", "award"}
          /\ work'[q] = work[q] /\ before'[q] = before[q] /\ work[q] \in Items
    BY <1>2 DEF TypeInv, WorkKnown
  <2>6. \A u \in Users : u # Author[c.item] => points'[u] = points[u]
    BY <2>1, <2>2 DEF TypeInv, TypeOK
  <2>7. points'[Author[c.item]] = points[Author[c.item]] + Award
    BY <2>1, <2>2, <1>1 DEF TypeInv, TypeOK
  <2> HIDE DEF c
  <2> QED
    BY <2>1, <2>2, <2>3, <2>4, <2>5, <2>6, <2>7, NewRowKeepsCredit DEF TypeInv
<1> QED
  BY <1>3, <1>4

LEMMA CreditInit == Init => CreditInv
<1> SUFFICES ASSUME Init PROVE CreditInv
  OBVIOUS
<1>1. \A u \in Users : Owed(u) \in Nat
  BY FS_EmptySet, OwedNat DEF Init
<1>2. IsFiniteSet(rows)
  BY FS_EmptySet DEF Init
<1>3. NeverOverpaid
  BY <1>1 DEF Init, NeverOverpaid
<1>4. NoTwoClash /\ AwardFresh /\ AwardExclusive /\ SnapshotOwed
  BY DEF Init, NoTwoClash, AwardFresh, AwardExclusive, SnapshotOwed
<1> QED
  BY <1>2, <1>3, <1>4 DEF CreditInv

LEMMA CreditNext == TypeInv /\ CreditInv /\ [Next]_vars => CreditInv'
<1> SUFFICES ASSUME TypeInv, CreditInv, [Next]_vars PROVE CreditInv'
  OBVIOUS
<1>1. TypeInv'
  BY TypeNext
<1>2. CASE Quiet
  BY <1>2, QuietKeepsCredit
<1>3. ASSUME NEW r \in Requests, ReadPoints(r) \/ InsertRow(r) \/ AwardAndCommit(r)
      PROVE  CreditInv'
  BY <1>1, <1>3, ReadPointsKeepsCredit, InsertRowKeepsCredit, AwardKeepsCredit
<1>4. ASSUME NEW a \in Recoverers, RecoverCommit(a) PROVE CreditInv'
  BY <1>1, <1>4, RecoverKeepsCredit
<1> QED
  BY <1>2, <1>3, <1>4, QuietSteps

\* However requests are replayed and raced, faults strike, recover calls
\* re-credit and flash tournaments restore: nobody is paid more than one award
\* per stored contribution outside a tournament.
THEOREM PaidAtMostOnce == Spec => []NeverOverpaid
<1>1. Spec => [](TypeInv /\ CreditInv)
  BY TypeInit, TypeNext, CreditInit, CreditNext, PTL DEF Spec
<1> QED
  BY <1>1, PTL DEF CreditInv

\* A user has one contribution per phrase and per recording.
THEOREM OneContributionEach == Spec => []NoTwoClash
<1>1. Spec => [](TypeInv /\ CreditInv)
  BY TypeInit, TypeNext, CreditInit, CreditNext, PTL DEF Spec
<1> QED
  BY <1>1, PTL DEF CreditInv

(***************************************************************************)
(* What clients are told.  "saved" is said by a request that has found its *)
(* pair in the table, or has just committed it, and rows never go away.    *)
(***************************************************************************)
AckInv ==
    /\ AckMeansSaved
    /\ \A r \in Requests : reply[r] # "none" => pc[r] = "done"

\* Work is never swapped and rows never shrink, so what was saved stays saved.
LEMMA SavedStays ==
  ASSUME NEW i, Saved(i), rows \subseteq rows'
  PROVE  Saved(i)'
  BY DEF Saved, Key

\* A step that moves r on and answers nobody ...
LEMMA AckMove ==
  ASSUME TypeInv, AckInv, NEW r \in Requests, NEW step \in PcValues,
         rows \subseteq rows', work' = work, pc' = [pc EXCEPT ![r] = step],
         reply' = reply, pc[r] # "done"
  PROVE  AckInv'
  BY SavedStays DEF TypeInv, TypeOK, AckInv, AckMeansSaved

\* ... and one that answers r, truthfully when the answer is "saved".
LEMMA AckAnswer ==
  ASSUME TypeInv, AckInv, NEW r \in Requests, NEW answer \in Replies,
         rows \subseteq rows', Answer(r, answer),
         answer = "saved" => \E c \in rows' : Key(c.item) = Key(work[r])
  PROVE  AckInv'
<1>1. work' = work /\ (\A q \in Requests : q # r => pc'[q] = pc[q] /\ reply'[q] = reply[q])
  BY DEF TypeInv, TypeOK, Answer
<1>2. pc'[r] = "done" /\ reply'[r] = answer
  BY DEF TypeInv, TypeOK, Answer
<1>3. ASSUME NEW q \in Requests, reply'[q] = "saved" PROVE Saved(work[q])'
  BY <1>1, <1>2, <1>3, SavedStays DEF AckInv, AckMeansSaved, Saved, Key
<1> QED
  BY <1>1, <1>2, <1>3 DEF AckInv, AckMeansSaved

LEMMA AckVault ==
  ASSUME TypeInv, AckInv, NEW r \in Requests, NEW answer \in {"rejected", "error"},
         VaultAndAnswer(r, answer)
  PROVE  AckInv'
<1>1. Answer(r, answer) /\ rows' = rows
  BY DEF VaultAndAnswer
<1> QED
  BY <1>1, AckAnswer DEF Replies

LEMMA AckReject ==
  ASSUME TypeInv, AckInv, NEW r \in Requests, VaultAndReject(r)
  PROVE  AckInv'
  BY AckVault DEF VaultAndReject

LEMMA AckGoto ==
  ASSUME TypeInv, AckInv, NEW r \in Requests, NEW step \in PcValues, Goto(r, step),
         pc[r] # "done"
  PROVE  AckInv'
  BY AckMove DEF Goto, dbVars

LEMMA AckOfStep ==
  ASSUME TypeInv, AckInv, NEW r \in Requests, Step(r) \/ Fail(r) \/ Unreadable(r)
  PROVE  AckInv'
<1>1. CASE CheckSaved(r)
  <2>1. CASE Saved(work[r]) /\ Answer(r, "saved") /\ rows' = rows
    BY <2>1, AckAnswer DEF Saved, Replies
  <2>2. CASE Goto(r, "audio?")
    BY <1>1, <2>2, AckGoto DEF CheckSaved, PcValues
  <2> QED
    BY <1>1, <2>1, <2>2 DEF CheckSaved, dbVars
<1>2. CASE CheckAudio(r)
  BY <1>2, AckReject, AckGoto DEF CheckAudio, PcValues
<1>3. CASE CheckText(r)
  BY <1>3, AckReject, AckGoto DEF CheckText, PcValues
<1>4. CASE CheckDuplicate(r)
  BY <1>4, AckReject, AckGoto DEF CheckDuplicate, PcValues
<1>5. CASE CheckActive(r)
  BY <1>5, AckReject, AckGoto DEF CheckActive, PcValues
<1>6. CASE StoreAudio(r)
  BY <1>6, AckReject, AckMove DEF StoreAudio, PcValues
<1>7. CASE ReadPoints(r)
  BY <1>7, AckMove DEF ReadPoints, PcValues, dbVars
<1>8. CASE InsertRow(r)
  <2>1. CASE Saved(work[r]) /\ Answer(r, "saved") /\ rows' = rows
    BY <2>1, AckAnswer DEF Saved, Replies
  <2>2. CASE Answer(r, "error") /\ rows' = rows
    BY <2>2, AckAnswer DEF Replies
  <2>3. CASE /\ rows' = rows /\ work' = work /\ reply' = reply
             /\ pc' = [pc EXCEPT ![r] = "award"]
    BY <1>8, <2>3, AckMove DEF InsertRow, PcValues
  <2> QED
    BY <1>8, <2>1, <2>2, <2>3 DEF InsertRow, dbVars
<1>9. CASE AwardAndCommit(r)
  <2> DEFINE c == [item |-> work[r], file |-> FinalKey(r), flash |-> inFlash[r]]
  <2>1. rows' = rows \cup {c} /\ Answer(r, "saved")
    BY <1>9 DEF AwardAndCommit
  <2>2. c.item = work[r]
    OBVIOUS
  <2> HIDE DEF c
  <2>3. \E d \in rows' : Key(d.item) = Key(work[r])
    BY <2>1, <2>2
  <2> QED
    BY <2>1, <2>3, AckAnswer DEF Replies
<1>10. CASE Fail(r)
  BY <1>10, AckAnswer DEF Fail, Replies, dbVars
<1>11. CASE Unreadable(r)
  BY <1>11, AckVault DEF Unreadable
<1> QED
  BY <1>1, <1>2, <1>3, <1>4, <1>5, <1>6, <1>7, <1>8, <1>9, <1>10, <1>11 DEF Step

LEMMA AckNext == TypeInv /\ AckInv /\ [Next]_vars => AckInv'
<1> SUFFICES ASSUME TypeInv, AckInv, [Next]_vars PROVE AckInv'
  OBVIOUS
<1> USE DEF TypeInv, TypeOK, dbVars, envVars, reqVars, recVars, AckInv, AckMeansSaved
<1>1. CASE UNCHANGED reqVars /\ rows \subseteq rows'
  BY <1>1, SavedStays
<1>2. ASSUME NEW a \in Recoverers,
             \/ \E r \in Requests : RecoverRead(a, r)
             \/ RecoverStep(a) \/ RecoverFail(a)
      PROVE  AckInv'
  BY <1>1, <1>2 DEF RecoverRead, RecoverStep, RecoverCheck, RecoverMove,
     RecoverCommit, RecoverFail, RecGoto
<1>3. ASSUME NEW r \in Requests, NEW i \in Items, Receive(r, i) \/ Refuse(r, i)
      PROVE  AckInv'
  BY <1>3, SavedStays DEF Receive, Refuse
<1>4. ASSUME NEW p \in Phrases, HidePhrase(p) PROVE AckInv'
  BY <1>1, <1>4 DEF HidePhrase
<1>5. CASE ToggleFlash
  BY <1>1, <1>5 DEF ToggleFlash
<1>6. CASE Idle \/ UNCHANGED vars
  BY <1>1, <1>6 DEF Idle, vars
<1> QED
  BY <1>2, <1>3, <1>4, <1>5, <1>6, AckOfStep DEF Next, ServerNext

\* A client that is told "saved" and deletes its own copy loses nothing.
THEOREM AcknowledgedIsSaved == Spec => []AckMeansSaved
<1>1. Init => AckInv
  BY DEF Init, AckInv, AckMeansSaved
<1>2. Spec => []AckInv
  BY <1>1, TypeInit, TypeNext, AckNext, PTL DEF Spec
<1> QED
  BY <1>2, PTL DEF AckInv

(***************************************************************************)
(* A contribution always has its audio.  Only a recover call takes a file  *)
(* away, and only a vaulted one; a handler that is about to write a row    *)
(* has put its file in its final place before.                             *)
(***************************************************************************)
StoredInv ==
    /\ \A c \in rows : c.file \in storage /\ c.file[1] # "failed"
    /\ \A r \in Requests : pc[r] \in {"begin", "insert", "award"} => FinalKey(r) \in storage
    /\ \A a \in Recoverers : recPc[a] = "commit" => RecoveredKey(recRow[a]) \in storage

\* Files other than vaulted ones stay.
FilesStay == \A k \in storage : k[1] # "failed" => k \in storage'

LEMMA KeyKinds ==
  ASSUME NEW r
  PROVE  /\ FinalKey(r)[1] = "recordings" /\ RecoveredKey(r)[1] = "recovered"
         /\ FailedKey(r)[1] = "failed"
  BY DEF FinalKey, RecoveredKey, FailedKey

\* Steps that write no row and bring nobody nearer to writing one.
LEMMA StoredQuiet ==
  ASSUME StoredInv, rows' = rows, FilesStay,
         \A r \in Requests : pc'[r] \in {"begin", "insert", "award"} =>
            pc[r] \in {"begin", "insert", "award"} \/ FinalKey(r) \in storage',
         \A a \in Recoverers : recPc'[a] = "commit" =>
            \/ recPc[a] = "commit" /\ recRow'[a] = recRow[a]
            \/ RecoveredKey(recRow'[a]) \in storage'
  PROVE  StoredInv'
<1>1. \A r : FinalKey(r) \in storage => FinalKey(r) \in storage'
  BY KeyKinds DEF FilesStay
<1>2. \A r : RecoveredKey(r) \in storage => RecoveredKey(r) \in storage'
  BY KeyKinds DEF FilesStay
<1>3. \A c \in rows' : c.file \in storage' /\ c.file[1] # "failed"
  BY DEF StoredInv, FilesStay
<1>4. \A r \in Requests : pc'[r] \in {"begin", "insert", "award"} => FinalKey(r) \in storage'
  BY <1>1 DEF StoredInv
<1>5. \A a \in Recoverers : recPc'[a] = "commit" => RecoveredKey(recRow'[a]) \in storage'
  BY <1>2 DEF StoredInv
<1> QED
  BY <1>3, <1>4, <1>5 DEF StoredInv, FinalKey, RecoveredKey

\* Steps that write one row, whose file is in its place.
LEMMA StoredRow ==
  ASSUME StoredInv, NEW c, rows' = rows \cup {c}, storage' = storage,
         c.file \in storage, c.file[1] # "failed",
         \A r \in Requests : pc'[r] \in {"begin", "insert", "award"} => pc'[r] = pc[r],
         \A a \in Recoverers : recPc'[a] = "commit" =>
            recPc[a] = "commit" /\ recRow'[a] = recRow[a]
  PROVE  StoredInv'
  BY DEF StoredInv, FinalKey, RecoveredKey

LEMMA StoredOfStep ==
  ASSUME TypeInv, StoredInv, NEW r \in Requests, Step(r) \/ Fail(r) \/ Unreadable(r)
  PROVE  StoredInv'
<1>1. recPc' = recPc /\ recRow' = recRow
  BY DEF Step, Fail, Unreadable, CheckSaved, CheckAudio, CheckText, CheckDuplicate,
     CheckActive, StoreAudio, ReadPoints, InsertRow, AwardAndCommit, Goto, Answer,
     VaultAndReject, VaultAndAnswer, recVars
<1>2. CASE \/ CheckSaved(r) \/ CheckAudio(r) \/ CheckText(r) \/ CheckDuplicate(r)
           \/ CheckActive(r) \/ Fail(r) \/ Unreadable(r)
  <2>1. rows' = rows /\ storage \subseteq storage'
    BY <1>2 DEF Fail, Unreadable, CheckSaved, CheckAudio, CheckText, CheckDuplicate,
       CheckActive, Goto, Answer, VaultAndReject, VaultAndAnswer, dbVars
  <2>2. \E step \in {"audio?", "text?", "duplicate?", "active?", "store", "done"} :
          pc' = [pc EXCEPT ![r] = step]
    BY <1>2 DEF Fail, Unreadable, CheckSaved, CheckAudio, CheckText, CheckDuplicate,
       CheckActive, Goto, Answer, VaultAndReject, VaultAndAnswer
  <2>3. \A q \in Requests : pc'[q] \in {"begin", "insert", "award"} => pc'[q] = pc[q]
    BY <2>2 DEF TypeInv, TypeOK
  <2> QED
    BY <1>1, <2>1, <2>3, StoredQuiet DEF FilesStay
<1>3. CASE StoreAudio(r)
  <2>1. rows' = rows /\ storage \subseteq storage'
    BY <1>3 DEF StoreAudio, Answer, VaultAndReject, VaultAndAnswer
  <2>2. \A q \in Requests : pc'[q] \in {"begin", "insert", "award"} =>
          pc'[q] = pc[q] \/ FinalKey(q) \in storage'
    BY <1>3 DEF StoreAudio, Answer, VaultAndReject, VaultAndAnswer, TypeInv, TypeOK
  <2> QED
    BY <1>1, <2>1, <2>2, StoredQuiet DEF FilesStay
<1>4. CASE ReadPoints(r) \/ InsertRow(r)
  <2>1. rows' = rows /\ storage' = storage
    BY <1>4 DEF ReadPoints, InsertRow, Answer, dbVars
  <2>2. \A q \in Requests : pc'[q] \in {"begin", "insert", "award"} =>
          pc[q] \in {"begin", "insert", "award"}
    BY <1>4 DEF ReadPoints, InsertRow, Answer, TypeInv, TypeOK
  <2> QED
    BY <1>1, <2>1, <2>2, StoredQuiet DEF FilesStay
<1>5. CASE AwardAndCommit(r)
  <2> DEFINE c == [item |-> work[r], file |-> FinalKey(r), flash |-> inFlash[r]]
  <2>1. rows' = rows \cup {c} /\ storage' = storage /\ pc[r] = "award"
        /\ pc' = [pc EXCEPT ![r] = "done"]
    BY <1>5 DEF AwardAndCommit, Answer
  <2>2. c.file \in storage /\ c.file[1] # "failed"
    BY <2>1, KeyKinds DEF StoredInv
  <2>3. \A q \in Requests : pc'[q] \in {"begin", "insert", "award"} => pc'[q] = pc[q]
    BY <2>1 DEF TypeInv, TypeOK
  <2> HIDE DEF c
  <2> QED
    BY <1>1, <2>1, <2>2, <2>3, StoredRow
<1> QED
  BY <1>2, <1>3, <1>4, <1>5 DEF Step

LEMMA StoredOfRecover ==
  ASSUME TypeInv, StoredInv, NEW a \in Recoverers,
         (\E r \in Requests : RecoverRead(a, r)) \/ RecoverStep(a) \/ RecoverFail(a)
  PROVE  StoredInv'
<1>1. pc' = pc
  BY DEF RecoverRead, RecoverStep, RecoverCheck, RecoverMove, RecoverCommit, RecoverFail,
     RecGoto, reqVars
<1>2. CASE (\E r \in Requests : RecoverRead(a, r)) \/ RecoverCheck(a) \/ RecoverFail(a)
  <2>1. rows' = rows /\ storage' = storage
    BY <1>2 DEF RecoverRead, RecoverCheck, RecoverFail, dbVars
  <2>2. \A b \in Recoverers : recPc'[b] = "commit" =>
          recPc[b] = "commit" /\ recRow'[b] = recRow[b]
    BY <1>2 DEF RecoverRead, RecoverCheck, RecoverFail, RecGoto, TypeInv, TypeOK
  <2> QED
    BY <1>1, <2>1, <2>2, StoredQuiet DEF FilesStay
<1>3. CASE RecoverMove(a)
  <2>1. rows' = rows /\ recRow' = recRow
    BY <1>3 DEF RecoverMove, RecGoto
  <2>2. FilesStay
    BY <1>3, KeyKinds DEF RecoverMove, FilesStay
  <2>3. \A b \in Recoverers : recPc'[b] = "commit" =>
          recPc[b] = "commit" \/ RecoveredKey(recRow[b]) \in storage'
    BY <1>3 DEF RecoverMove, RecGoto, TypeInv, TypeOK
  <2> QED
    BY <1>1, <2>1, <2>2, <2>3, StoredQuiet
<1>4. CASE RecoverCommit(a)
  <2> DEFINE c == [item |-> work[recRow[a]], file |-> RecoveredKey(recRow[a]),
                   flash |-> FALSE]
  <2>1. storage' = storage /\ recRow' = recRow /\ recPc[a] = "commit"
        /\ recPc' = [recPc EXCEPT ![a] = "idle"]
    BY <1>4 DEF RecoverCommit, RecGoto
  <2>2. \A b \in Recoverers : recPc'[b] = "commit" => recPc[b] = "commit"
    BY <2>1 DEF TypeInv, TypeOK
  <2>3. c.file \in storage /\ c.file[1] # "failed"
    BY <2>1, KeyKinds DEF StoredInv
  <2>4. rows' = rows \/ rows' = rows \cup {c}
    BY <1>4 DEF RecoverCommit
  <2> HIDE DEF c
  <2>5. CASE rows' = rows
    BY <1>1, <2>1, <2>2, <2>5, StoredQuiet DEF FilesStay
  <2>6. CASE rows' = rows \cup {c}
    BY <1>1, <2>1, <2>2, <2>3, <2>6, StoredRow
  <2> QED
    BY <2>4, <2>5, <2>6
<1> QED
  BY <1>2, <1>3, <1>4 DEF RecoverStep

LEMMA StoredNext == TypeInv /\ StoredInv /\ [Next]_vars => StoredInv'
<1> SUFFICES ASSUME TypeInv, StoredInv, [Next]_vars PROVE StoredInv'
  OBVIOUS
<1>1. CASE UNCHANGED <<rows, storage, pc, recPc, recRow>>
  BY <1>1, StoredQuiet DEF FilesStay
<1>2. ASSUME NEW r \in Requests, NEW i \in Items, Receive(r, i) \/ Refuse(r, i)
      PROVE  StoredInv'
  <2>1. rows' = rows /\ storage' = storage /\ recPc' = recPc /\ recRow' = recRow
    BY <1>2 DEF Receive, Refuse, dbVars, recVars
  <2>2. \A q \in Requests : pc'[q] \in {"begin", "insert", "award"} => pc'[q] = pc[q]
    BY <1>2 DEF Receive, Refuse, TypeInv, TypeOK
  <2> QED
    BY <2>1, <2>2, StoredQuiet DEF FilesStay
<1>3. ASSUME NEW p \in Phrases, HidePhrase(p) PROVE StoredInv'
  BY <1>1, <1>3 DEF HidePhrase, dbVars, reqVars, recVars
<1>4. CASE ToggleFlash
  BY <1>1, <1>4 DEF ToggleFlash, dbVars, reqVars, recVars
<1>5. CASE Idle \/ UNCHANGED vars
  BY <1>1, <1>5 DEF Idle, vars, dbVars, reqVars, recVars
<1> QED
  BY <1>2, <1>3, <1>4, <1>5, StoredOfStep, StoredOfRecover DEF Next, ServerNext

\* No contribution ever points at audio that is not there.
THEOREM ContributionsHaveAudio == Spec => []RowsHaveAudio
<1>1. Init => StoredInv
  BY DEF Init, StoredInv
<1>2. Spec => []StoredInv
  BY <1>1, TypeInit, TypeNext, StoredNext, PTL DEF Spec
<1>3. StoredInv => RowsHaveAudio
  BY DEF StoredInv, RowsHaveAudio
<1> QED
  BY <1>2, <1>3, PTL

(***************************************************************************)
(* Vaulted audio survives.  Only RecoverMove takes a file away, and it     *)
(* leaves the same audio under the user's prefix.                          *)
(***************************************************************************)

\* The audio that request r brought is somewhere.
Kept(r) == FailedKey(r) \in storage \/ RecoveredKey(r) \in storage

\* Steps that open no row without its file and take no file out of the vault
\* without leaving it recovered.
LEMMA KeptStep ==
  ASSUME VaultAudioSurvives,
         \A r \in Requests : vault'[r] = "open" => vault[r] = "open" \/ Kept(r)',
         \A r \in Requests : Kept(r) => Kept(r)'
  PROVE  VaultAudioSurvives'
  BY DEF VaultAudioSurvives, Kept

LEMMA GrowingStorageKeeps ==
  ASSUME storage \subseteq storage'
  PROVE  \A r \in Requests : Kept(r) => Kept(r)'
  BY DEF Kept, FailedKey, RecoveredKey

LEMMA KeptVaultAndAnswer ==
  ASSUME TypeInv, VaultAudioSurvives, NEW r \in Requests, NEW answer, VaultAndAnswer(r, answer)
  PROVE  VaultAudioSurvives'
<1>1. storage \subseteq storage'
  BY DEF VaultAndAnswer
<1>2. \A q \in Requests : vault'[q] = "open" => vault[q] = "open" \/ Kept(q)'
  BY DEF VaultAndAnswer, Kept, FailedKey, RecoveredKey, TypeInv, TypeOK
<1> QED
  BY <1>1, <1>2, GrowingStorageKeeps, KeptStep

LEMMA KeptOfStep ==
  ASSUME TypeInv, VaultAudioSurvives, NEW r \in Requests, Step(r) \/ Fail(r) \/ Unreadable(r)
  PROVE  VaultAudioSurvives'
<1>1. CASE \E answer : VaultAndAnswer(r, answer)
  BY <1>1, KeptVaultAndAnswer
<1>2. CASE ~\E answer : VaultAndAnswer(r, answer)
  <2>1. vault' = vault /\ storage \subseteq storage'
    BY <1>2 DEF Step, Fail, Unreadable, CheckSaved, CheckAudio, CheckText, CheckDuplicate,
       CheckActive, StoreAudio, ReadPoints, InsertRow, AwardAndCommit, Goto, VaultAndReject,
       dbVars
  <2> QED
    BY <2>1, GrowingStorageKeeps, KeptStep
<1> QED
  BY <1>1, <1>2

LEMMA KeptOfRecover ==
  ASSUME TypeInv, VaultAudioSurvives, NEW a \in Recoverers,
         (\E r \in Requests : RecoverRead(a, r)) \/ RecoverStep(a) \/ RecoverFail(a)
  PROVE  VaultAudioSurvives'
<1>1. CASE RecoverMove(a)
  <2> DEFINE r == recRow[a]
  <2>1. vault' = vault
    BY <1>1 DEF RecoverMove
  <2>2. ASSUME NEW q \in Requests, Kept(q) PROVE Kept(q)'
    <3>1. FailedKey(q) # RecoveredKey(q) /\ RecoveredKey(q) # FailedKey(r)
      BY DEF FailedKey, RecoveredKey
    <3>2. FailedKey(q) = FailedKey(r) => RecoveredKey(q) = RecoveredKey(r)
      BY DEF FailedKey, RecoveredKey
    <3> QED
      BY <1>1, <2>2, <3>1, <3>2 DEF RecoverMove, Kept, FailedKey, RecoveredKey
  <2> QED
    BY <2>1, <2>2, KeptStep
<1>2. CASE \/ \E r \in Requests : RecoverRead(a, r)
           \/ RecoverCheck(a) \/ RecoverCommit(a) \/ RecoverFail(a)
  <2>1. storage' = storage
    BY <1>2 DEF RecoverRead, RecoverCheck, RecoverCommit, RecoverFail, dbVars
  <2>2. \A q \in Requests : vault'[q] = "open" => vault[q] = "open"
    BY <1>2 DEF RecoverRead, RecoverCheck, RecoverCommit, RecoverFail, dbVars, TypeInv, TypeOK
  <2> QED
    BY <2>1, <2>2, GrowingStorageKeeps, KeptStep
<1> QED
  BY <1>1, <1>2 DEF RecoverStep

LEMMA KeptNext ==
  TypeInv /\ VaultAudioSurvives /\ [Next]_vars => VaultAudioSurvives'
<1> SUFFICES ASSUME TypeInv, VaultAudioSurvives, [Next]_vars PROVE VaultAudioSurvives'
  OBVIOUS
<1>1. CASE UNCHANGED dbVars
  BY <1>1, GrowingStorageKeeps, KeptStep DEF dbVars
<1>2. ASSUME NEW r \in Requests, NEW i \in Items, Receive(r, i) \/ Refuse(r, i)
      PROVE  VaultAudioSurvives'
  BY <1>1, <1>2 DEF Receive, Refuse
<1>3. ASSUME NEW p \in Phrases, HidePhrase(p) PROVE VaultAudioSurvives'
  BY <1>1, <1>3 DEF HidePhrase
<1>4. CASE ToggleFlash \/ Idle \/ UNCHANGED vars
  BY <1>1, <1>4 DEF ToggleFlash, Idle, vars
<1> QED
  BY <1>2, <1>3, <1>4, KeptOfStep, KeptOfRecover DEF Next, ServerNext

\* The audio of a rejected work is never lost, whatever the recover calls do
\* (users.ts:351).
THEOREM VaultedAudioIsKept == Spec => []VaultAudioSurvives
<1>1. Init => VaultAudioSurvives
  BY DEF Init, VaultAudioSurvives
<1> QED
  BY <1>1, TypeInit, TypeNext, KeptNext, PTL DEF Spec

(***************************************************************************)
(* A refused client deletes its copy: the vault has the work.  An archive  *)
(* that fails is swallowed by the handler, so the vault is assumed to      *)
(* work; every other fault may happen.  The rows of the vault never go, so *)
(* the property carries over from one step to the next by itself.          *)
(***************************************************************************)
\* Rows of the vault stay, and nobody new is told "rejected" without one.
VaultKept ==
    /\ \A q \in Requests : vault[q] # "none" => vault'[q] # "none"
    /\ \A q \in Requests :
          reply'[q] = "rejected" => reply[q] = "rejected" \/ vault'[q] # "none"

LEMMA RejectVaults ==
  ASSUME TypeInv, ~VaultMayFail, NEW r \in Requests,
         NEW answer \in Replies, VaultAndAnswer(r, answer)
  PROVE  VaultKept
<1>1. vault' = [vault EXCEPT ![r] = "open"] /\ reply' = [reply EXCEPT ![r] = answer]
  BY DEF VaultAndAnswer, Answer
<1> QED
  BY <1>1 DEF VaultKept, TypeInv, TypeOK

\* Steps that leave the vault alone and do not answer "rejected".
LEMMA OthersKeepVault ==
  ASSUME TypeInv, vault' = vault, NEW r \in Requests, NEW answer \in Replies,
         answer # "rejected", reply' \in {reply, [reply EXCEPT ![r] = answer]}
  PROVE  VaultKept
  BY DEF VaultKept, TypeInv, TypeOK

LEMMA VaultOfStep ==
  ASSUME TypeInv, ~VaultMayFail, NEW r \in Requests, Step(r) \/ Fail(r) \/ Unreadable(r)
  PROVE  VaultKept
<1> USE DEF dbVars, Replies, Goto, Answer
<1>1. CASE CheckSaved(r)
  BY <1>1, OthersKeepVault DEF CheckSaved
<1>2. ASSUME VaultAndReject(r) PROVE VaultKept
  BY <1>2, RejectVaults DEF VaultAndReject
<1>3. CASE CheckAudio(r) \/ CheckText(r) \/ CheckDuplicate(r) \/ CheckActive(r)
  BY <1>2, <1>3, OthersKeepVault DEF CheckAudio, CheckText, CheckDuplicate, CheckActive
<1>4. CASE StoreAudio(r)
  BY <1>2, <1>4, OthersKeepVault DEF StoreAudio
<1>5. CASE ReadPoints(r) \/ InsertRow(r)
  BY <1>5, OthersKeepVault DEF ReadPoints, InsertRow
<1>6. CASE AwardAndCommit(r)
  BY <1>6, OthersKeepVault DEF AwardAndCommit
<1>7. CASE Fail(r)
  BY <1>7, OthersKeepVault DEF Fail
<1>8. CASE Unreadable(r)
  BY <1>8, RejectVaults DEF Unreadable
<1> QED
  BY <1>1, <1>3, <1>4, <1>5, <1>6, <1>7, <1>8 DEF Step

LEMMA VaultOfRecover ==
  ASSUME TypeInv, NEW a \in Recoverers,
         (\E r \in Requests : RecoverRead(a, r)) \/ RecoverStep(a) \/ RecoverFail(a)
  PROVE  VaultKept
<1>1. reply' = reply
  BY DEF RecoverRead, RecoverStep, RecoverCheck, RecoverMove, RecoverCommit, RecoverFail,
     RecGoto, reqVars
<1>2. vault' = vault \/ vault' = [vault EXCEPT ![recRow[a]] = "recovered"]
  BY DEF RecoverRead, RecoverStep, RecoverCheck, RecoverMove, RecoverCommit, RecoverFail,
     RecGoto, dbVars
<1> QED
  BY <1>1, <1>2 DEF VaultKept, TypeInv, TypeOK

LEMMA VaultNext == ~VaultMayFail /\ TypeInv /\ [Next]_vars => VaultKept
<1> SUFFICES ASSUME ~VaultMayFail, TypeInv, [Next]_vars PROVE VaultKept
  OBVIOUS
<1> USE DEF dbVars, envVars, reqVars, recVars
<1>1. ASSUME NEW r \in Requests, NEW i \in Items, Receive(r, i) \/ Refuse(r, i)
      PROVE  VaultKept
  BY <1>1, OthersKeepVault DEF Receive, Refuse, Replies
<1>2. ASSUME NEW p \in Phrases, HidePhrase(p) PROVE VaultKept
  BY <1>2 DEF HidePhrase, VaultKept
<1>3. CASE ToggleFlash
  BY <1>3 DEF ToggleFlash, VaultKept
<1>4. CASE Idle \/ UNCHANGED vars
  BY <1>4 DEF Idle, vars, VaultKept
<1> QED
  BY <1>1, <1>2, <1>3, <1>4, VaultOfStep, VaultOfRecover DEF Next, ServerNext

\* As long as archiving works, a client that is told "rejected" finds its work
\* in the vault, whatever else fails and whatever is recovered meanwhile.
THEOREM RejectedIsVaulted ==
  ASSUME ~VaultMayFail
  PROVE  Spec => []RejectMeansVaulted
<1>1. Init => RejectMeansVaulted
  BY DEF Init, RejectMeansVaulted
<1>2. TypeInv /\ RejectMeansVaulted /\ [Next]_vars => RejectMeansVaulted'
  <2>1. TypeInv /\ [Next]_vars => VaultKept
    BY VaultNext
  <2>2. VaultKept /\ RejectMeansVaulted => RejectMeansVaulted'
    BY DEF VaultKept, RejectMeansVaulted
  <2> QED
    BY <2>1, <2>2
<1> QED
  BY <1>1, <1>2, TypeInit, TypeNext, PTL DEF Spec

(***************************************************************************)
(* What the vault keeps can be recovered.  Between the move of the audio   *)
(* and its commit only the recover call that moved it can finish the row:  *)
(* a call that dies there leaves a row that points at nothing, so the      *)
(* theorem is about servers that do not fail half-way.  Archiving may.     *)
(***************************************************************************)
Recoverable(r) ==
    \/ FailedKey(r) \in storage
    \/ BeingRecovered(r)
    \/ Saved(work[r])
    \/ Heard(work[r])

\* A row that was open before stays recoverable: contributions stay, and its
\* audio leaves the vault in the hands of a recover call only.
LEMMA OpenStays ==
  ASSUME NEW r \in Requests, Recoverable(r), rows \subseteq rows', work'[r] = work[r],
         FailedKey(r) \in storage => FailedKey(r) \in storage' \/ BeingRecovered(r)',
         BeingRecovered(r) => \/ BeingRecovered(r)' \/ Saved(work[r]) \/ Heard(work[r])
  PROVE  Recoverable(r)'
<1>1. Saved(work[r]) => Saved(work[r])'
  BY DEF Saved, Key
<1>2. Heard(work[r]) => Heard(work[r])'
  BY DEF Heard
<1> QED
  BY <1>1, <1>2 DEF Recoverable, FailedKey

\* The same for a step that moves neither the audio nor a recover call.
LEMMA OpenUntouched ==
  ASSUME OpenRowsRecoverable, rows \subseteq rows', storage \subseteq storage',
         \A q \in Requests : vault'[q] = "open" =>
            FailedKey(q) \in storage' \/ (vault[q] = "open" /\ work'[q] = work[q]),
         \A a \in Recoverers : recPc[a] = "commit" =>
            recPc'[a] = "commit" /\ recRow'[a] = recRow[a]
  PROVE  OpenRowsRecoverable'
<1> SUFFICES ASSUME NEW r \in Requests, vault'[r] = "open" PROVE Recoverable(r)'
  BY DEF OpenRowsRecoverable, Recoverable
<1>1. CASE FailedKey(r) \in storage'
  BY <1>1 DEF Recoverable, FailedKey
<1>2. CASE vault[r] = "open" /\ work'[r] = work[r]
  <2>1. Recoverable(r)
    BY <1>2 DEF OpenRowsRecoverable, Recoverable
  <2>2. BeingRecovered(r) => BeingRecovered(r)'
    BY DEF BeingRecovered
  <2> QED
    BY <1>2, <2>1, <2>2, OpenStays
<1> QED
  BY <1>1, <1>2

LEMMA OpenAfterVault ==
  ASSUME TypeInv, OpenRowsRecoverable, NEW r \in Requests, NEW answer,
         VaultAndAnswer(r, answer)
  PROVE  OpenRowsRecoverable'
<1>1. /\ rows' = rows /\ work' = work /\ recPc' = recPc /\ recRow' = recRow
      /\ storage \subseteq storage'
  BY DEF VaultAndAnswer, Answer, recVars
<1>2. \A q \in Requests : vault'[q] = "open" => FailedKey(q) \in storage' \/ vault[q] = "open"
  BY DEF VaultAndAnswer, TypeInv, TypeOK
<1> QED
  BY <1>1, <1>2, OpenUntouched

\* Requests, arrivals and what goes on around the handlers.
LEMMA OpenOfStep ==
  ASSUME TypeInv, OpenRowsRecoverable, NEW r \in Requests,
         Step(r) \/ Fail(r) \/ Unreadable(r)
  PROVE  OpenRowsRecoverable'
<1>1. ASSUME VaultAndReject(r) PROVE OpenRowsRecoverable'
  BY <1>1, OpenAfterVault DEF VaultAndReject
<1>2. CASE Unreadable(r)
  BY <1>2, OpenAfterVault DEF Unreadable
<1>3. ASSUME vault' = vault, work' = work, UNCHANGED recVars,
             rows \subseteq rows', storage \subseteq storage'
      PROVE  OpenRowsRecoverable'
  BY <1>3, OpenUntouched DEF recVars
<1>4. CASE CheckSaved(r) \/ ReadPoints(r) \/ InsertRow(r) \/ AwardAndCommit(r) \/ Fail(r)
  BY <1>3, <1>4 DEF CheckSaved, ReadPoints, InsertRow, AwardAndCommit, Fail, Goto, Answer,
     dbVars
<1>5. CASE CheckAudio(r) \/ CheckText(r) \/ CheckDuplicate(r) \/ CheckActive(r)
  BY <1>1, <1>3, <1>5 DEF CheckAudio, CheckText, CheckDuplicate, CheckActive, Goto, dbVars
<1>6. CASE StoreAudio(r)
  BY <1>1, <1>3, <1>6 DEF StoreAudio
<1> QED
  BY <1>2, <1>4, <1>5, <1>6 DEF Step

LEMMA OpenOfRecover ==
  ASSUME ~FaultsAllowed, TypeInv, OpenRowsRecoverable, NEW a \in Recoverers,
         (\E r \in Requests : RecoverRead(a, r)) \/ RecoverStep(a) \/ RecoverFail(a)
  PROVE  OpenRowsRecoverable'
<1>1. ASSUME NEW r \in Requests, RecoverRead(a, r) PROVE OpenRowsRecoverable'
  BY <1>1, OpenUntouched DEF RecoverRead, dbVars, reqVars, TypeInv, TypeOK
<1>2. CASE RecoverCheck(a)
  BY <1>2, OpenUntouched DEF RecoverCheck, RecGoto, dbVars, reqVars, TypeInv, TypeOK
<1>3. CASE RecoverMove(a)
  <2>1. CASE FailedKey(recRow[a]) \notin storage
    BY <1>3, <2>1, OpenUntouched DEF RecoverMove, RecGoto, reqVars, TypeInv, TypeOK
  <2>2. CASE FailedKey(recRow[a]) \in storage
    <3>1. /\ storage' = (storage \ {FailedKey(recRow[a])}) \cup {RecoveredKey(recRow[a])}
          /\ recPc' = [recPc EXCEPT ![a] = "commit"] /\ recRow' = recRow
          /\ rows' = rows /\ vault' = vault /\ work' = work
      BY <1>3, <2>2 DEF RecoverMove, RecGoto, reqVars
    <3> SUFFICES ASSUME NEW r \in Requests, vault'[r] = "open" PROVE Recoverable(r)'
      BY DEF OpenRowsRecoverable, Recoverable
    <3>2. Recoverable(r)
      BY <3>1 DEF OpenRowsRecoverable, Recoverable
    <3>3. BeingRecovered(r) => BeingRecovered(r)'
      BY <3>1 DEF BeingRecovered, TypeInv, TypeOK
    <3>4. CASE r = recRow[a]
      <4>1. BeingRecovered(r)'
        BY <3>1, <3>4 DEF BeingRecovered, TypeInv, TypeOK
      <4> QED
        BY <4>1 DEF Recoverable
    <3>5. CASE r # recRow[a]
      <4>1. FailedKey(r) \in storage => FailedKey(r) \in storage'
        BY <3>1, <3>5 DEF FailedKey
      <4> QED
        BY <3>1, <3>2, <3>3, <4>1, OpenStays
    <3> QED
      BY <3>4, <3>5
  <2> QED
    BY <2>1, <2>2
<1>4. CASE RecoverCommit(a)
  <2>1. /\ recPc' = [recPc EXCEPT ![a] = "idle"] /\ recRow' = recRow
        /\ storage' = storage /\ work' = work /\ rows \subseteq rows'
    BY <1>4 DEF RecoverCommit, RecGoto, reqVars
  <2>2. /\ vault' = vault \/ vault' = [vault EXCEPT ![recRow[a]] = "recovered"]
        /\ \/ vault'[recRow[a]] # "open"
           \/ Saved(work[recRow[a]]) \/ Heard(work[recRow[a]])
    BY <1>4 DEF RecoverCommit, TypeInv, TypeOK, WorkKnown
  <2> SUFFICES ASSUME NEW r \in Requests, vault'[r] = "open" PROVE Recoverable(r)'
    BY DEF OpenRowsRecoverable, Recoverable
  <2>3. vault[r] = "open"
    BY <2>2 DEF TypeInv, TypeOK
  <2>4. Recoverable(r)
    BY <2>3 DEF OpenRowsRecoverable, Recoverable
  <2>5. BeingRecovered(r) => BeingRecovered(r)' \/ Saved(work[r]) \/ Heard(work[r])
    BY <2>1, <2>2 DEF BeingRecovered, TypeInv, TypeOK
  <2> QED
    BY <2>1, <2>4, <2>5, OpenStays DEF FailedKey
<1> QED
  BY <1>1, <1>2, <1>3, <1>4 DEF RecoverStep, RecoverFail

LEMMA OpenNext ==
  ~FaultsAllowed /\ TypeInv /\ OpenRowsRecoverable /\ [Next]_vars => OpenRowsRecoverable'
<1> SUFFICES ASSUME ~FaultsAllowed, TypeInv, OpenRowsRecoverable, [Next]_vars
             PROVE  OpenRowsRecoverable'
  OBVIOUS
<1> USE DEF dbVars, envVars, reqVars, recVars
\* A request that arrives has left no row in the vault yet.
<1>1. ASSUME NEW r \in Requests, NEW i \in Items, Receive(r, i) \/ Refuse(r, i)
      PROVE  OpenRowsRecoverable'
  <2>1. \A q \in Requests : vault[q] = "open" => work'[q] = work[q]
    BY <1>1 DEF Receive, Refuse, TypeInv, TypeOK, WorkKnown
  <2> QED
    BY <1>1, <2>1, OpenUntouched DEF Receive, Refuse
<1>2. ASSUME NEW p \in Phrases, HidePhrase(p) PROVE OpenRowsRecoverable'
  BY <1>2, OpenUntouched DEF HidePhrase
<1>3. CASE ToggleFlash
  BY <1>3, OpenUntouched DEF ToggleFlash
<1>4. CASE Idle \/ UNCHANGED vars
  BY <1>4, OpenUntouched DEF Idle, vars
<1> QED
  BY <1>1, <1>2, <1>3, <1>4, OpenOfStep, OpenOfRecover DEF Next, ServerNext

\* On a server that does not fail half-way, every open row of the vault can be
\* recovered, by the call that is at it or by the next one, unless its work is
\* stored already.
THEOREM OpenRowsCanBeRecovered ==
  ASSUME ~FaultsAllowed
  PROVE  Spec => []OpenRowsRecoverable
<1>1. Init => OpenRowsRecoverable
  BY DEF Init, OpenRowsRecoverable
<1>2. TypeInv /\ OpenRowsRecoverable /\ [Next]_vars => OpenRowsRecoverable'
  BY OpenNext
<1> QED
  BY <1>1, <1>2, TypeInit, TypeNext, PTL DEF Spec

(***************************************************************************)
(* Without flash tournaments the server implements the abstract ledger:    *)
(* a commit is its Credit step, everything else a stutter.                 *)
(***************************************************************************)
NoFlash == flashOn = FALSE /\ \A r \in Requests : inFlash[r] = FALSE

LEMMA NoFlashNext ==
  ASSUME ~FlashAllowed
  PROVE  TypeInv /\ NoFlash /\ [Next]_vars => NoFlash'
<1> SUFFICES ASSUME TypeInv, NoFlash, [Next]_vars PROVE NoFlash'
  OBVIOUS
<1> USE DEF TypeInv, TypeOK, NoFlash, dbVars, envVars, reqVars, recVars
<1>1. ASSUME NEW r \in Requests, Step(r) \/ Fail(r) \/ Unreadable(r) PROVE NoFlash'
  BY <1>1 DEF Step, Fail, CheckSaved, CheckAudio, CheckText, CheckDuplicate,
     CheckActive, StoreAudio, ReadPoints, InsertRow, AwardAndCommit, Goto, Answer,
     VaultAndReject, VaultAndAnswer, Unreadable
<1>2. ASSUME NEW a \in Recoverers,
             \/ \E r \in Requests : RecoverRead(a, r)
             \/ RecoverStep(a) \/ RecoverFail(a)
      PROVE  NoFlash'
  BY <1>2 DEF RecoverRead, RecoverStep, RecoverCheck, RecoverMove, RecoverCommit,
     RecoverFail, RecGoto
<1>3. ASSUME NEW r \in Requests, NEW i \in Items, Receive(r, i) \/ Refuse(r, i)
      PROVE  NoFlash'
  BY <1>3 DEF Receive, Refuse
<1>4. ASSUME NEW p \in Phrases, HidePhrase(p) PROVE NoFlash'
  BY <1>4 DEF HidePhrase
<1>5. CASE ToggleFlash
  BY <1>5 DEF ToggleFlash
<1>6. CASE Idle \/ UNCHANGED vars
  BY <1>6 DEF Idle, vars
<1> QED
  BY <1>1, <1>2, <1>3, <1>4, <1>5, <1>6 DEF Next, ServerNext

\* A new row that clashes with none, its author paid one award, is one Credit
\* step.
LEMMA CreditStep ==
  ASSUME NEW c \in Row, \A d \in rows : ~Clash(d.item, c.item),
         rows' = rows \cup {c},
         points' = [points EXCEPT ![Author[c.item]] = @ + Award]
  PROVE  Ledger!Next
<1> DEFINE u == Author[c.item]
           p == PhraseOf[c.item]
<1>1. c.item \in Items /\ u \in Users /\ p \in Phrases /\ Key(c.item) = <<u, p>>
  BY ItemAssumption DEF Row, Key
<1>2. <<u, p>> \notin {Key(d.item) : d \in rows}
  BY <1>1 DEF Key, Clash
<1>3. {Key(d.item) : d \in rows'} = {Key(d.item) : d \in rows} \cup {<<u, p>>}
  BY <1>1 DEF Key
<1>4. Ledger!Credit(u, p)
  BY <1>1, <1>2, <1>3 DEF Ledger!Credit, Key
<1> QED
  BY <1>1, <1>4 DEF Ledger!Next

LEMMA LedgerNext ==
  TypeInv /\ CreditInv /\ NoFlash /\ [Next]_vars => [Ledger!Next]_(Ledger!vars)
<1> SUFFICES ASSUME TypeInv, CreditInv, NoFlash, [Next]_vars
             PROVE  [Ledger!Next]_(Ledger!vars)
  OBVIOUS
<1>1. CASE UNCHANGED <<rows, points>>
  BY <1>1 DEF Ledger!vars, Key
<1>2. CASE Quiet
  BY <1>1, <1>2 DEF Quiet
<1>3. ASSUME NEW r \in Requests, ReadPoints(r) \/ InsertRow(r)
      PROVE  [Ledger!Next]_(Ledger!vars)
  BY <1>1, <1>3 DEF ReadPoints, InsertRow, dbVars
<1>4. ASSUME NEW r \in Requests, AwardAndCommit(r) PROVE Ledger!Next
  <2> DEFINE c == [item |-> work[r], file |-> FinalKey(r), flash |-> inFlash[r]]
  <2>1. work[r] \in Items /\ inFlash[r] = FALSE
    BY <1>4 DEF AwardAndCommit, TypeInv, WorkKnown, NoFlash
  <2>2. c \in Row /\ c.item = work[r]
    BY <2>1 DEF FinalKey, FileKeys, Row
  <2>3. \A d \in rows : ~Clash(d.item, c.item)
    BY <1>4 DEF AwardAndCommit, CreditInv, AwardFresh
  <2>4. rows' = rows \cup {c} /\ points' = [points EXCEPT ![Author[c.item]] = @ + Award]
    BY <1>4, <2>1 DEF AwardAndCommit
  <2> HIDE DEF c
  <2> QED
    BY <2>2, <2>3, <2>4, CreditStep
<1>5. ASSUME NEW a \in Recoverers, RecoverCommit(a)
      PROVE  [Ledger!Next]_(Ledger!vars)
  <2> DEFINE c == [item |-> work[recRow[a]], file |-> RecoveredKey(recRow[a]),
                   flash |-> FALSE]
  <2>1. work[recRow[a]] \in Items /\ recRow[a] \in Requests
    BY <1>5 DEF RecoverCommit, TypeInv, WorkKnown
  <2>2. c \in Row /\ c.item = work[recRow[a]]
    BY <2>1 DEF RecoveredKey, FileKeys, Row
  <2>3. CASE ~Saved(work[recRow[a]]) /\ ~Heard(work[recRow[a]]) /\ rows' # rows
    <3>1. \A d \in rows : ~Clash(d.item, c.item)
      BY <2>1, <2>2, <2>3, NoClashSeen DEF TypeInv
    <3>2. rows' = rows \cup {c} /\ points' = [points EXCEPT ![Author[c.item]] = @ + Award]
      BY <1>5, <2>3 DEF RecoverCommit
    <3> HIDE DEF c
    <3> QED
      BY <2>2, <3>1, <3>2, CreditStep
  <2>4. CASE rows' = rows /\ points' = points
    BY <2>4, <1>1
  <2>5. CASE rows' = rows /\ ~Saved(work[recRow[a]])
    <3>1. c \notin rows
      BY <2>5, <2>2 DEF Saved
    <3>2. points' = points
      BY <1>5, <2>5, <3>1 DEF RecoverCommit
    <3> QED
      BY <2>5, <3>2, <1>1
  <2> QED
    BY <1>5, <2>3, <2>4, <2>5 DEF RecoverCommit
<1> QED
  BY <1>2, <1>3, <1>4, <1>5, QuietSteps

\* Without flash tournaments every translation is credited once, in one step,
\* to its author, and nothing else moves points.
THEOREM ImplementsLedger ==
  ASSUME ~FlashAllowed
  PROVE  Spec => LedgerSpec
<1>1. Init => NoFlash
  BY DEF Init, NoFlash
<1>2. Init => Ledger!Init
  BY DEF Init, Ledger!Init, Key
<1>3. TypeInv /\ NoFlash /\ [Next]_vars => NoFlash'
  BY NoFlashNext
<1>4. Spec => [](TypeInv /\ CreditInv /\ NoFlash)
  BY <1>1, <1>3, TypeInit, TypeNext, CreditInit, CreditNext, PTL DEF Spec
<1>5. Spec => Ledger!Spec
  BY <1>2, <1>4, LedgerNext, PTL DEF Spec, Ledger!Spec
<1> QED
  BY <1>5 DEF LedgerSpec

(***************************************************************************)
(* The outbox.  To the server a browser is one more source of requests:    *)
(* every step of the composition is a step of the server's specification   *)
(* or leaves the server alone.  So the server's theorems hold behind any   *)
(* tabs, and what a tab does with an answer rests on two of them: "saved"  *)
(* is saved, and "rejected" is vaulted.  An item leaves the disk after one *)
(* of these answers only, and neither is ever taken back.                  *)
(***************************************************************************)
SettledAnswers == {"saved", "rejected"}

\* Items on disk and in queues are items, and a tab that waits for an answer
\* or gives an item up knows its request and has the answer.
OutboxTypes ==
    /\ disk \subseteq Items
    /\ IsFiniteSet(disk)
    /\ adding \in [Tabs -> Items \cup {None}]
    /\ queue \in [Tabs -> Seq(Items)]
    /\ flush \in [Tabs -> FlushStates]
    /\ flight \in [Tabs -> Requests \cup {None}]

TabsKnow ==
    \A t \in Tabs :
        /\ flush[t] = "sent" => queue[t] # <<>>
        /\ flush[t] \in {"sent", "removing"} =>
              flight[t] \in Requests /\ pc[flight[t]] # "idle"
        /\ flush[t] = "removing" => reply[flight[t]] \in SettledAnswers

OutboxFits == OutboxTypes /\ TabsKnow

\* A finite set put in some order is a sequence of its elements.
LEMMA SomeOrder ==
  ASSUME NEW S, IsFiniteSet(S)
  PROVE  SetToSeq(S) \in Seq(S)
<1> DEFINE n == Cardinality(S)
<1>1. n \in Nat /\ Bijection(1..n, S) # {}
  BY FS_CardinalityType DEF ExistsBijection
<1>2. \E f \in [1..n -> S] : IsInjective(f)
  BY <1>1 DEF Bijection, Injection
<1>3. SetToSeq(S) \in [1..n -> S]
  BY <1>2 DEF SetToSeq
<1> QED
  BY <1>1, <1>3

LEMMA Queued ==
  ASSUME OutboxTypes, NEW t \in Tabs, queue[t] # <<>>
  PROVE  Head1(t) \in Items
  BY DEF OutboxTypes, Head1

LEMMA SendReaches ==
  ASSUME OutboxTypes, NEW t \in Tabs, Send(t)
  PROVE  \E r \in Requests :
            /\ pc[r] = "idle"
            /\ Head1(t) \in Items
            /\ Receive(r, Head1(t)) \/ Refuse(r, Head1(t))
            /\ flush' = [flush EXCEPT ![t] = "sent"]
            /\ flight' = [flight EXCEPT ![t] = r]
<1> DEFINE r == CHOOSE q \in Unused : TRUE
<1>1. r \in Requests /\ pc[r] = "idle"
  BY DEF Send, Unused
<1>2. Head1(t) \in Items
  BY Queued DEF Send
<1> QED
  BY <1>1, <1>2 DEF Send

LEMMA ServerBehind ==
  ASSUME OutboxTypes, [OutboxNext]_allVars
  PROVE  [Next]_vars
<1>1. ASSUME NEW t \in Tabs, Send(t) PROVE Next
  BY <1>1, SendReaches DEF Next
<1>2. ASSUME NEW t \in Tabs,
             \/ \E i \in Items : Tap(t, i)
             \/ Persist(t) \/ StopLoop(t) \/ Settle(t) \/ Removed(t) \/ Retry(t)
             \/ Finally(t) \/ Drain(t) \/ CloseTab(t) \/ OpenTab(t)
      PROVE  UNCHANGED vars
  BY <1>2 DEF Tap, Persist, StopLoop, Settle, Removed, Retry, Finally, Drain, CloseTab,
     OpenTab
<1>3. CASE Server
  BY <1>3 DEF Server, Next, ServerNext
<1> QED
  BY <1>1, <1>2, <1>3 DEF OutboxNext, Page, allVars

\* What the server never takes back: contributions, what a request carries,
\* rows of the vault, answers.
NeverTakenBack ==
    /\ rows \subseteq rows'
    /\ \A r \in Requests : pc[r] # "idle" => pc'[r] # "idle" /\ work'[r] = work[r]
    /\ \A r \in Requests : vault[r] # "none" => vault'[r] # "none"
    /\ \A r \in Requests : reply[r] # "none" => reply'[r] = reply[r]

LEMMA RequestKeeps ==
  ASSUME TypeInv, AckInv, NEW r \in Requests, Step(r) \/ Fail(r) \/ Unreadable(r)
  PROVE  NeverTakenBack
<1> USE DEF dbVars, Replies, Goto, Answer, NeverTakenBack, TypeInv, TypeOK, AckInv
<1>1. CASE CheckSaved(r)
  BY <1>1 DEF CheckSaved
<1>2. ASSUME NEW answer \in Replies, VaultAndAnswer(r, answer), pc[r] # "done" PROVE NeverTakenBack
  BY <1>2 DEF VaultAndAnswer
<1>3. ASSUME VaultAndReject(r), pc[r] # "done" PROVE NeverTakenBack
  BY <1>2, <1>3 DEF VaultAndReject
<1>4. CASE CheckAudio(r) \/ CheckText(r) \/ CheckDuplicate(r) \/ CheckActive(r)
  BY <1>3, <1>4 DEF CheckAudio, CheckText, CheckDuplicate, CheckActive
<1>5. CASE StoreAudio(r)
  BY <1>3, <1>5 DEF StoreAudio
<1>6. CASE ReadPoints(r)
  BY <1>6 DEF ReadPoints
<1>7. CASE InsertRow(r)
  BY <1>7 DEF InsertRow
<1>8. CASE AwardAndCommit(r)
  BY <1>8 DEF AwardAndCommit
<1>9. CASE Fail(r)
  BY <1>9 DEF Fail, Running
<1>10. CASE Unreadable(r)
  BY <1>2, <1>10 DEF Unreadable
<1> QED
  BY <1>1, <1>4, <1>5, <1>6, <1>7, <1>8, <1>9, <1>10 DEF Step

LEMMA ServerKeeps == TypeInv /\ AckInv /\ [Next]_vars => NeverTakenBack
<1> SUFFICES ASSUME TypeInv, AckInv, [Next]_vars PROVE NeverTakenBack
  OBVIOUS
<1> USE DEF dbVars, envVars, reqVars, recVars
<1>1. ASSUME NEW r \in Requests, NEW i \in Items, Receive(r, i) \/ Refuse(r, i)
      PROVE  NeverTakenBack
  BY <1>1 DEF Receive, Refuse, NeverTakenBack, TypeInv, TypeOK, AckInv
<1>2. ASSUME NEW a \in Recoverers,
             (\E r \in Requests : RecoverRead(a, r)) \/ RecoverStep(a) \/ RecoverFail(a)
      PROVE  NeverTakenBack
  <2>1. UNCHANGED reqVars /\ rows \subseteq rows'
    BY <1>2 DEF RecoverRead, RecoverStep, RecoverCheck, RecoverMove, RecoverCommit,
       RecoverFail, RecGoto
  <2>2. vault' = vault \/ vault' = [vault EXCEPT ![recRow[a]] = "recovered"]
    BY <1>2 DEF RecoverRead, RecoverStep, RecoverCheck, RecoverMove, RecoverCommit,
       RecoverFail, RecGoto
  <2> QED
    BY <2>1, <2>2 DEF NeverTakenBack, TypeInv, TypeOK
<1>3. CASE (\E p \in Phrases : HidePhrase(p)) \/ ToggleFlash \/ Idle \/ UNCHANGED vars
  BY <1>3 DEF HidePhrase, ToggleFlash, Idle, vars, NeverTakenBack
<1> QED
  BY <1>1, <1>2, <1>3, RequestKeeps DEF Next, ServerNext

\* What is stored or vaulted stays so.
LEMMA SafeStays ==
  ASSUME TypeInv, NeverTakenBack
  PROVE  \A i : Saved(i) \/ Vaulted(i) => Saved(i)' \/ Vaulted(i)'
<1>1. \A i : Saved(i) => Saved(i)'
  BY DEF NeverTakenBack, Saved, Key
<1>2. \A i : Vaulted(i) => Vaulted(i)'
  BY DEF NeverTakenBack, Vaulted, TypeInv, WorkKnown
<1> QED
  BY <1>1, <1>2

\* A tab that keeps waiting for the same request still knows it.
LEMMA StillKnows ==
  ASSUME NeverTakenBack, TabsKnow, NEW t \in Tabs,
         \/ flush'[t] \notin {"sent", "removing"}
         \/ flush'[t] = flush[t] /\ flight'[t] = flight[t] /\ queue'[t] = queue[t]
  PROVE  /\ flush'[t] = "sent" => queue'[t] # <<>>
         /\ flush'[t] \in {"sent", "removing"} =>
               flight'[t] \in Requests /\ pc'[flight'[t]] # "idle"
         /\ flush'[t] = "removing" => reply'[flight'[t]] \in SettledAnswers
<1>1. CASE flush'[t] \notin {"sent", "removing"}
  BY <1>1
<1>2. CASE flush'[t] \in {"sent", "removing"}
  <2>1. /\ flight'[t] = flight[t] /\ flush'[t] = flush[t] /\ queue'[t] = queue[t]
        /\ flight[t] \in Requests /\ pc[flight[t]] # "idle"
    BY <1>2 DEF TabsKnow
  <2>2. pc'[flight[t]] # "idle"
    BY <2>1 DEF NeverTakenBack
  <2>3. flush[t] = "removing" => reply'[flight[t]] \in SettledAnswers
    BY <2>1 DEF NeverTakenBack, TabsKnow, SettledAnswers
  <2> QED
    BY <2>1, <2>2, <2>3 DEF TabsKnow
<1> QED
  BY <1>1, <1>2

LEMMA FitsOfPage ==
  ASSUME TypeInv, OutboxFits, NeverTakenBack, NEW t \in Tabs,
         \/ \E i \in Items : Tap(t, i)
         \/ Page(t) \/ Drain(t) \/ CloseTab(t) \/ OpenTab(t)
  PROVE  OutboxFits'
<1> USE DEF OutboxFits, OutboxTypes, FlushStates
<1>1. ASSUME NEW i \in Items, Tap(t, i) PROVE OutboxFits'
  <2>1. OutboxTypes'
    BY <1>1 DEF Tap
  <2>2. \A s \in Tabs : flush'[s] = "sent" => queue'[s] # <<>>
    <3>1. \A q \in Seq(Items) : Append(q, i) # <<>>
      <4> SUFFICES ASSUME NEW q \in Seq(Items) PROVE Append(q, i) # <<>>
        OBVIOUS
      <4>1. Len(Append(q, i)) # 0 /\ Len(<<>>) = 0
        OBVIOUS
      <4> QED
        BY <4>1, Zenon
    <3>2. \A s \in Tabs : queue'[s] = queue[s] \/ queue'[s] = Append(queue[s], i)
      BY <1>1 DEF Tap
    <3> QED
      BY <1>1, <3>1, <3>2 DEF Tap, TabsKnow
  <2>3. TabsKnow'
    BY <1>1, <2>2 DEF Tap, TabsKnow, vars, reqVars
  <2> QED
    BY <2>1, <2>3
<1>2. CASE Persist(t)
  <2>1. OutboxTypes'
    <3>1. adding[t] \in Items /\ disk' = disk \cup {adding[t]}
      BY <1>2 DEF Persist
    <3>2. IsFiniteSet(disk')
      BY <3>1, FS_AddElement
    <3> QED
      BY <1>2, <3>1, <3>2 DEF Persist
  <2>2. \A s \in Tabs : /\ flight'[s] = flight[s] /\ queue'[s] = queue[s]
                        /\ flush'[s] \in {flush[s], "loop"}
    BY <1>2 DEF Persist
  <2>3. TabsKnow'
    BY <2>2, StillKnows DEF TabsKnow
  <2> QED
    BY <2>1, <2>3
<1>3. CASE Send(t)
  <2>1. PICK r \in Requests : /\ Receive(r, Head1(t)) \/ Refuse(r, Head1(t))
                              /\ pc[r] = "idle"
                              /\ flush' = [flush EXCEPT ![t] = "sent"]
                              /\ flight' = [flight EXCEPT ![t] = r]
    BY <1>3, SendReaches
  <2>2. UNCHANGED <<disk, adding, queue>> /\ queue[t] # <<>>
    BY <1>3 DEF Send
  <2>3. OutboxTypes'
    BY <2>1, <2>2
  <2>4. pc'[r] # "idle"
    BY <2>1 DEF Receive, Refuse, TypeInv, TypeOK
  <2>5. \A s \in Tabs : s # t => flush'[s] = flush[s] /\ flight'[s] = flight[s]
    BY <2>1
  <2>6. TabsKnow'
    BY <2>1, <2>2, <2>4, <2>5, StillKnows DEF TabsKnow
  <2> QED
    BY <2>3, <2>6
<1>4. CASE StopLoop(t) \/ Finally(t) \/ Drain(t) \/ Retry(t)
  <2>1. UNCHANGED <<disk, adding, queue>> /\ OutboxTypes'
    BY <1>4 DEF StopLoop, Finally, Drain, Retry
  <2>2. \A s \in Tabs : \/ flush'[s] \notin {"sent", "removing"}
                        \/ flush'[s] = flush[s] /\ flight'[s] = flight[s]
    BY <1>4 DEF StopLoop, Finally, Drain, Retry
  <2>3. TabsKnow'
    BY <2>1, <2>2, StillKnows DEF TabsKnow
  <2> QED
    BY <2>1, <2>3
<1>5. CASE Settle(t)
  <2>1. queue[t] # <<>> /\ flight[t] \in Requests /\ pc[flight[t]] # "idle"
    BY <1>5 DEF Settle, TabsKnow
  <2>2. Tail(queue[t]) \in Seq(Items)
    BY <2>1
  <2>3. OutboxTypes'
    BY <1>5, <2>2 DEF Settle
  <2>4. reply'[flight[t]] \in SettledAnswers /\ pc'[flight[t]] # "idle"
    BY <1>5, <2>1 DEF Settle, SettledAnswers, vars, reqVars
  <2>5. flush'[t] = "removing" /\ flight' = flight
    BY <1>5 DEF Settle
  <2>6. \A s \in Tabs : s # t => flush'[s] = flush[s] /\ queue'[s] = queue[s]
    BY <1>5 DEF Settle
  <2>7. TabsKnow'
    BY <2>1, <2>4, <2>5, <2>6, StillKnows DEF TabsKnow
  <2> QED
    BY <2>3, <2>7
<1>6. CASE Removed(t)
  <2>1. IsFiniteSet(disk') /\ disk' \subseteq disk
    BY <1>6, FS_Subset DEF Removed
  <2>2. OutboxTypes'
    BY <1>6, <2>1 DEF Removed
  <2>3. \A s \in Tabs : \/ flush'[s] \notin {"sent", "removing"}
                        \/ /\ flush'[s] = flush[s] /\ flight'[s] = flight[s]
                           /\ queue'[s] = queue[s]
    BY <1>6 DEF Removed
  <2>4. TabsKnow'
    BY <2>3, StillKnows DEF TabsKnow
  <2> QED
    BY <2>2, <2>4
<1>7. CASE CloseTab(t)
  <2>1. OutboxTypes'
    BY <1>7 DEF CloseTab
  <2>2. \A s \in Tabs : \/ flush'[s] \notin {"sent", "removing"}
                        \/ /\ flush'[s] = flush[s] /\ flight'[s] = flight[s]
                           /\ queue'[s] = queue[s]
    BY <1>7 DEF CloseTab
  <2>3. TabsKnow'
    BY <2>2, StillKnows DEF TabsKnow
  <2> QED
    BY <2>1, <2>3
<1>8. CASE OpenTab(t)
  <2>1. SetToSeq(disk) \in Seq(Items)
    BY SomeOrder
  <2>2. OutboxTypes'
    BY <1>8, <2>1 DEF OpenTab
  <2>3. \A s \in Tabs : \/ flush'[s] \notin {"sent", "removing"}
                        \/ /\ flush'[s] = flush[s] /\ flight'[s] = flight[s]
                           /\ queue'[s] = queue[s]
    BY <1>8 DEF OpenTab
  <2>4. TabsKnow'
    BY <2>3, StillKnows DEF TabsKnow
  <2> QED
    BY <2>2, <2>4
<1> QED
  BY <1>1, <1>2, <1>3, <1>4, <1>5, <1>6, <1>7, <1>8 DEF Page

LEMMA FitsNext ==
  ASSUME TypeInv, OutboxFits, NeverTakenBack, [OutboxNext]_allVars
  PROVE  OutboxFits'
<1>1. CASE UNCHANGED clientVars
  <2>1. UNCHANGED <<disk, adding, queue, flush, flight>>
    BY <1>1 DEF clientVars, pageVars
  <2>2. OutboxTypes'
    BY <2>1 DEF OutboxFits, OutboxTypes
  <2>3. TabsKnow'
    BY <2>1, StillKnows DEF OutboxFits, TabsKnow
  <2> QED
    BY <2>2, <2>3 DEF OutboxFits
<1>2. CASE Server
  <2>1. UNCHANGED <<disk, adding, queue, flush, flight>>
    BY <1>2 DEF Server, clientVars, pageVars
  <2>2. OutboxTypes'
    BY <2>1 DEF OutboxFits, OutboxTypes
  <2>3. TabsKnow'
    BY <2>1, StillKnows DEF OutboxFits, TabsKnow
  <2> QED
    BY <2>2, <2>3 DEF OutboxFits
<1> QED
  BY <1>1, <1>2, FitsOfPage DEF OutboxNext, allVars

\* Only an answer that was settled takes an item off the disk.
LEMMA NoneLost ==
  ASSUME TypeInv, AckInv, RejectMeansVaulted, OutboxFits, NoWorkLost,
         NeverTakenBack, [OutboxNext]_allVars
  PROVE  NoWorkLost'
<1> SUFFICES ASSUME NEW i \in persisted', i \notin disk'
             PROVE  Saved(i)' \/ Vaulted(i)'
  BY DEF NoWorkLost
<1>1. CASE i \in persisted /\ i \notin disk
  BY <1>1, SafeStays DEF NoWorkLost
<1>2. CASE i \notin persisted
  <2>1. PICK t \in Tabs : Persist(t)
    BY <1>2 DEF OutboxNext, Page, Server, Tap, Send, StopLoop, Settle, Removed, Retry,
       Finally, Drain, CloseTab, OpenTab, clientVars, allVars
  <2> QED
    BY <1>2, <2>1 DEF Persist
<1>3. CASE i \in disk
  <2>1. PICK t \in Tabs : Removed(t)
    BY <1>3 DEF OutboxNext, Page, Server, Tap, Persist, Send, StopLoop, Settle, Retry,
       Finally, Drain, CloseTab, OpenTab, clientVars, allVars
  <2>2. i = work[flight[t]]
    BY <1>3, <2>1 DEF Removed
  <2>3. flight[t] \in Requests /\ reply[flight[t]] \in SettledAnswers
    BY <2>1 DEF Removed, OutboxFits, TabsKnow
  <2>4. Saved(i) \/ Vaulted(i)
    BY <2>2, <2>3 DEF SettledAnswers, AckInv, AckMeansSaved, RejectMeansVaulted, Vaulted
  <2> QED
    BY <2>4, SafeStays
<1> QED
  BY <1>1, <1>2, <1>3

OutboxInv ==
    /\ TypeInv
    /\ AckInv
    /\ OutboxFits

LEMMA OutboxStarts == OutboxInit => OutboxInv
<1> SUFFICES ASSUME OutboxInit PROVE OutboxInv
  OBVIOUS
<1>1. TypeInv
  BY TypeInit DEF OutboxInit
<1>2. AckInv
  BY DEF OutboxInit, Init, AckInv, AckMeansSaved
<1>3. OutboxTypes
  <2>1. <<>> \in Seq(Items) /\ IsFiniteSet({})
    BY FS_EmptySet
  <2> QED
    BY <2>1 DEF OutboxInit, OutboxTypes, FlushStates
<1>4. TabsKnow
  BY DEF OutboxInit, TabsKnow
<1> QED
  BY <1>1, <1>2, <1>3, <1>4 DEF OutboxInv, OutboxFits

LEMMA OutboxKeeps ==
  OutboxInv /\ [OutboxNext]_allVars => [Next]_vars /\ NeverTakenBack /\ OutboxInv'
<1> SUFFICES ASSUME OutboxInv, [OutboxNext]_allVars
             PROVE  [Next]_vars /\ NeverTakenBack /\ OutboxInv'
  OBVIOUS
<1> USE DEF OutboxInv
<1>1. [Next]_vars
  BY ServerBehind DEF OutboxFits
<1>2. TypeInv' /\ AckInv'
  BY <1>1, TypeNext, AckNext
<1>3. NeverTakenBack
  BY <1>1, ServerKeeps
<1>4. OutboxFits'
  BY <1>3, FitsNext
<1> QED
  BY <1>1, <1>2, <1>3, <1>4

\* The composition is the server with one kind of client: every behaviour of
\* tabs and server together is one the server's specification allows, so what
\* is proved of the server holds behind the outbox.
THEOREM OutboxRefinesServer == OutboxSpec => Spec
<1>1. OutboxInit => Init
  BY DEF OutboxInit
<1>2. OutboxInv /\ [OutboxNext]_allVars => OutboxInv' /\ [Next]_vars
  BY OutboxKeeps
<1> QED
  BY <1>1, <1>2, OutboxStarts, PTL DEF OutboxSpec, Spec

\* As long as the vault works, a recording that reached the browser's disk is
\* on the disk, stored or vaulted at every moment: for any number of tabs,
\* retries and faults, whatever is refused, lost, closed or answered late.
THEOREM NoWorkIsLost ==
  ASSUME ~VaultMayFail
  PROVE  OutboxSpec => []NoWorkLost
<1>1. OutboxInit => NoWorkLost
  BY DEF OutboxInit, NoWorkLost
<1>2. OutboxInv /\ [OutboxNext]_allVars => OutboxInv'
  BY OutboxKeeps
<1>3. OutboxInv /\ RejectMeansVaulted /\ NoWorkLost /\ [OutboxNext]_allVars => NoWorkLost'
  BY NoneLost, OutboxKeeps DEF OutboxInv
<1>4. OutboxSpec => []OutboxInv
  BY <1>2, OutboxStarts, PTL DEF OutboxSpec
<1>5. OutboxSpec => []RejectMeansVaulted
  BY OutboxRefinesServer, RejectedIsVaulted, PTL
<1> QED
  BY <1>1, <1>3, <1>4, <1>5, PTL DEF OutboxSpec
=============================================================================
