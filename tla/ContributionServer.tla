------------------------- MODULE ContributionServer -------------------------
(***************************************************************************)
(* The handler of POST /api/phrases/submit (routes/phrases.ts), the vault  *)
(* of rejected submissions it fills (failed_submissions, migration v46)    *)
(* and the administrator's POST /admin/failed-recover (routes/users.ts).   *)
(*                                                                         *)
(* A request runs statement by statement: every await of the handler is a  *)
(* point where the statements of other requests may come in between, so    *)
(* each action below is what the handler does from one await to the next.  *)
(* The database runs at READ COMMITTED: a plain SELECT sees what is        *)
(* committed, an INSERT waits for an uncommitted row with the same unique  *)
(* key, and the effects of a transaction appear at its COMMIT.             *)
(*                                                                         *)
(* A work item is one recording with its text, made by one user for one    *)
(* phrase; the text and the sound are abstracted to the defect the server  *)
(* may find in them.  points counts what this code pays for contributions; *)
(* what the triggers of the tables add (streak, badges, approval) is left  *)
(* to other modules.                                                       *)
(*                                                                         *)
(* A definition named X_Y is X with the fault Y; it is used to see that    *)
(* the runs notice the fault, and by nothing else.                         *)
(***************************************************************************)
EXTENDS Integers, FiniteSets

CONSTANTS
    Users, Phrases,
    Items,          \* the recordings users make
    Author,         \* Author[i]: the user who recorded item i
    PhraseOf,       \* PhraseOf[i]: the phrase item i translates
    Recording,      \* Recording[i]: its audio bytes, as their SHA-256 sees them
    Defect,         \* Defect[i]: what is wrong with item i, if anything
    Requests,       \* identities of HTTP requests (each is used once)
    Recoverers,     \* administrators' recover calls
    Award,          \* basePoints
    None,           \* no item, no vault row
    FlashAllowed,   \* may a flash tournament open?
    FaultsAllowed,  \* may a statement or a worker fail half-way?
    VaultMayFail    \* may archiving a rejected submission fail?

Defects == {"none", "audio", "text", "silence"}

ASSUME ItemAssumption ==
    /\ Author \in [Items -> Users]
    /\ PhraseOf \in [Items -> Phrases]
    /\ Defect \in [Items -> Defects]
    /\ DOMAIN Recording = Items
    /\ None \notin Items \cup Requests

ASSUME ParameterAssumption ==
    /\ Award \in Nat
    /\ FlashAllowed \in BOOLEAN
    /\ FaultsAllowed \in BOOLEAN
    /\ VaultMayFail \in BOOLEAN

VARIABLES
    rows,           \* table contributions: [item, file, flash]
    points,         \* profiles.points
    vault,          \* vault[r]: the failed_submissions row request r left
    storage,        \* keys present in the storage driver
    phraseActive,   \* phrases.is_active
    flashOn,        \* is a contribute/both flash tournament running now?
    pc,             \* where each request is in the handler
    work,           \* the item a request carries
    before,         \* its pointsBefore
    inFlash,        \* its inFlash
    reply,          \* what the client is told
    recPc,          \* where each recover call is
    recRow          \* the vault row it works on, named by its request

dbVars  == <<rows, points, vault, storage>>
envVars == <<phraseActive, flashOn>>
reqVars == <<pc, work, before, inFlash, reply>>
recVars == <<recPc, recRow>>
vars    == <<dbVars, envVars, reqVars, recVars>>

----------------------------------------------------------------------------
(* Keys, files, and what the database can be asked.                        *)

Key(i) == <<Author[i], PhraseOf[i]>>

\* Where the audio that request r brought may lie.
FinalKey_PerPhrase(r) == <<"recordings", PhraseOf[work[r]]>>

FinalKey(r)     == <<"recordings", r>>
FailedKey(r)    == <<"failed", r>>
RecoveredKey(r) == <<"recovered", r>>
FileKeys == {"recordings", "failed", "recovered"} \X Requests

Row == [item : Items, file : FileKeys, flash : BOOLEAN]

\* SELECT id FROM contributions WHERE user_id = $1 AND phrase_id = $2
Saved(i) == \E c \in rows : Key(c.item) = Key(i)

\* SELECT phrase_id FROM contributions WHERE user_id = $1 AND audio_sha256 = $2
Heard(i) == \E c \in rows : /\ Author[c.item] = Author[i]
                            /\ Recording[c.item] = Recording[i]

\* Two rows that a unique index of contributions keeps apart:
\* UNIQUE (user_id, phrase_id) and the index on (user_id, audio_sha256).
Clash(i, j) ==
    /\ Author[i] = Author[j]
    /\ PhraseOf[i] = PhraseOf[j] \/ Recording[i] = Recording[j]

\* An uncommitted insert that a second insert of item i has to wait for.
Blocked(i) == \E q \in Requests : pc[q] = "award" /\ Clash(work[q], i)

PcValues == {"idle", "saved?", "audio?", "text?", "duplicate?", "active?",
             "store", "begin", "insert", "award", "done"}
Replies  == {"none", "saved", "rejected", "error"}
VaultValues == {"none", "open", "recovered"}
RecPcValues == {"idle", "dupe?", "move", "commit"}

Running(r) == pc[r] \notin {"idle", "done"}

----------------------------------------------------------------------------
Init ==
    /\ rows = {}
    /\ points = [u \in Users |-> 0]
    /\ vault = [r \in Requests |-> "none"]
    /\ storage = {}
    /\ phraseActive = [p \in Phrases |-> TRUE]
    /\ flashOn = FALSE
    /\ pc = [r \in Requests |-> "idle"]
    /\ work = [r \in Requests |-> None]
    /\ before = [r \in Requests |-> 0]
    /\ inFlash = [r \in Requests |-> FALSE]
    /\ reply = [r \in Requests |-> "none"]
    /\ recPc = [a \in Recoverers |-> "idle"]
    /\ recRow = [a \in Recoverers |-> None]

----------------------------------------------------------------------------
(* The submit handler.                                                     *)

\* The request gets past the gates in front of the handler and its multipart
\* body is parsed.
Receive(r, i) ==
    /\ pc[r] = "idle"
    /\ pc' = [pc EXCEPT ![r] = "saved?"]
    /\ work' = [work EXCEPT ![r] = i]
    /\ UNCHANGED <<dbVars, envVars, before, inFlash, reply, recVars>>

\* A gate in front of the handler refuses it: session (401), rights (403),
\* disclaimer (403), closed slot (423), rate (429).
Refuse(r, i) ==
    /\ pc[r] = "idle"
    /\ FaultsAllowed
    /\ pc' = [pc EXCEPT ![r] = "done"]
    /\ work' = [work EXCEPT ![r] = i]
    /\ reply' = [reply EXCEPT ![r] = "error"]
    /\ UNCHANGED <<dbVars, envVars, before, inFlash, recVars>>

Goto(r, step) ==
    /\ pc' = [pc EXCEPT ![r] = step]
    /\ UNCHANGED <<dbVars, envVars, work, before, inFlash, reply, recVars>>

Answer(r, answer) ==
    /\ pc' = [pc EXCEPT ![r] = "done"]
    /\ reply' = [reply EXCEPT ![r] = answer]
    /\ UNCHANGED <<envVars, work, before, inFlash, recVars>>

VaultAndAnswer_NoFile(r, answer) ==
    /\ Answer(r, answer)
    /\ UNCHANGED <<rows, points>>
    /\ storage' \in {storage, storage \cup {FailedKey(r)}}
    /\ vault' = [vault EXCEPT ![r] = "open"]

\* vaultFailedSubmission, then the answer: the audio moves under failed/ and a
\* failed_submissions row points at it.  An error of either half is
\* swallowed and the answer goes out all the same.
VaultAndAnswer(r, answer) ==
    /\ Answer(r, answer)
    /\ UNCHANGED <<rows, points>>
    /\ \/ /\ storage' = storage \cup {FailedKey(r)}
          /\ vault' = [vault EXCEPT ![r] = "open"]
       \/ /\ VaultMayFail
          /\ storage' \in {storage, storage \cup {FailedKey(r)}}
          /\ UNCHANGED vault

VaultAndReject(r) == VaultAndAnswer(r, "rejected")

\* The idempotent resubmit check (v49).
CheckSaved(r) ==
    /\ pc[r] = "saved?"
    /\ \/ /\ Saved(work[r])
          /\ Answer(r, "saved")
          /\ UNCHANGED dbVars
       \/ /\ ~Saved(work[r])
          /\ Goto(r, "audio?")

\* Magic bytes, SHA-256 duplicate of the same user, size and duration.
CheckAudio(r) ==
    /\ pc[r] = "audio?"
    /\ \/ /\ Defect[work[r]] = "audio" \/ Heard(work[r])
          /\ VaultAndReject(r)
       \/ /\ Defect[work[r]] # "audio" /\ ~Heard(work[r])
          /\ Goto(r, "text?")

\* The uploaded file cannot be opened (400) or read (500): it is vaulted as far
\* as that still works, and a client told 500 will send it again.
Unreadable(r) ==
    /\ FaultsAllowed
    /\ pc[r] = "audio?"
    /\ \E answer \in {"rejected", "error"} : VaultAndAnswer(r, answer)

\* isValidHassaniyaText.  The lock check before it only writes to the audit
\* log: a missing lock rejects nothing.
CheckText(r) ==
    /\ pc[r] = "text?"
    /\ \/ /\ Defect[work[r]] = "text"
          /\ VaultAndReject(r)
       \/ /\ Defect[work[r]] # "text"
          /\ Goto(r, "duplicate?")

CheckDuplicate_NoVault(r) ==
    /\ pc[r] = "duplicate?"
    /\ \/ /\ Saved(work[r])
          /\ Answer(r, "rejected")
          /\ UNCHANGED dbVars
       \/ /\ ~Saved(work[r])
          /\ Goto(r, "active?")

\* The second look at contributions, this time a 409.
CheckDuplicate(r) ==
    /\ pc[r] = "duplicate?"
    /\ \/ /\ Saved(work[r])
          /\ VaultAndReject(r)
       \/ /\ ~Saved(work[r])
          /\ Goto(r, "active?")

CheckActive(r) ==
    /\ pc[r] = "active?"
    /\ \/ /\ ~phraseActive[PhraseOf[work[r]]]
          /\ VaultAndReject(r)
       \/ /\ phraseActive[PhraseOf[work[r]]]
          /\ Goto(r, "store")

StoreAudio_NoPut(r) ==
    /\ pc[r] = "store"
    /\ \/ /\ Defect[work[r]] = "silence"
          /\ VaultAndReject(r)
       \/ /\ Defect[work[r]] # "silence"
          /\ Goto(r, "begin")

\* processAudio rejects a silent recording unless ffmpeg itself fails, which
\* lets it through; then the file goes to its final key.
StoreAudio(r) ==
    /\ pc[r] = "store"
    /\ \/ /\ Defect[work[r]] = "silence"
          /\ VaultAndReject(r)
       \/ /\ Defect[work[r]] = "silence" => FaultsAllowed
          /\ storage' = storage \cup {FinalKey(r)}
          /\ pc' = [pc EXCEPT ![r] = "begin"]
          /\ UNCHANGED <<rows, points, vault, envVars, work, before, inFlash,
                         reply, recVars>>

\* BEGIN; SELECT points FROM profiles.
ReadPoints(r) ==
    /\ pc[r] = "begin"
    /\ before' = [before EXCEPT ![r] = points[Author[work[r]]]]
    /\ pc' = [pc EXCEPT ![r] = "insert"]
    /\ UNCHANGED <<dbVars, envVars, work, inFlash, reply, recVars>>

InsertRow_NoIndex(r) ==
    /\ pc[r] = "insert"
    /\ inFlash' = [inFlash EXCEPT ![r] = flashOn]
    /\ pc' = [pc EXCEPT ![r] = "award"]
    /\ UNCHANGED <<dbVars, envVars, work, before, reply, recVars>>

InsertRow_TrustsUncommitted(r) ==
    /\ pc[r] = "insert"
    /\ \/ /\ Saved(work[r]) \/ Blocked(work[r])
          /\ Answer(r, "saved")
          /\ UNCHANGED dbVars
       \/ /\ ~Saved(work[r]) /\ ~Blocked(work[r])
          /\ inFlash' = [inFlash EXCEPT ![r] = flashOn]
          /\ pc' = [pc EXCEPT ![r] = "award"]
          /\ UNCHANGED <<dbVars, envVars, work, before, reply, recVars>>

\* An insert that breaks the other unique index is tried again.
InsertRow_Retries(r) ==
    /\ pc[r] = "insert"
    /\ \/ /\ Saved(work[r])
          /\ Answer(r, "saved")
          /\ UNCHANGED dbVars
       \/ /\ ~Saved(work[r]) /\ ~Blocked(work[r])
          /\ inFlash' = [inFlash EXCEPT ![r] = flashOn]
          /\ pc' = [pc EXCEPT ![r] = IF Heard(work[r]) THEN "begin" ELSE "award"]
          /\ UNCHANGED <<dbVars, envVars, work, before, reply, recVars>>

\* INSERT ... ON CONFLICT (user_id, phrase_id) DO NOTHING, then the tagging of
\* the flash tournaments.  A saved pair is an idempotent success; the same
\* audio under another phrase breaks the other unique index and rolls back.
InsertRow(r) ==
    /\ pc[r] = "insert"
    /\ \/ /\ Saved(work[r])
          /\ Answer(r, "saved")
          /\ UNCHANGED dbVars
       \/ /\ ~Saved(work[r]) /\ ~Blocked(work[r]) /\ Heard(work[r])
          /\ Answer(r, "error")
          /\ UNCHANGED dbVars
       \/ /\ ~Saved(work[r]) /\ ~Blocked(work[r]) /\ ~Heard(work[r])
          /\ inFlash' = [inFlash EXCEPT ![r] = flashOn]
          /\ pc' = [pc EXCEPT ![r] = "award"]
          /\ UNCHANGED <<dbVars, envVars, work, before, reply, recVars>>

AwardAndCommit_NoIsolation(r) ==
    LET i == work[r]
    IN  /\ pc[r] = "award"
        /\ rows' = rows \cup {[item |-> i, file |-> FinalKey(r), flash |-> inFlash[r]]}
        /\ points' = [points EXCEPT ![Author[i]] = @ + Award]
        /\ Answer(r, "saved")
        /\ UNCHANGED <<vault, storage>>

\* UPDATE profiles SET points = points + 15, inside a flash set it back to
\* pointsBefore, COMMIT, answer.  The row lock on the profile is held from
\* the UPDATE to the COMMIT, so this is one step for everybody else.
AwardAndCommit(r) ==
    LET i == work[r]
        u == Author[i]
    IN  /\ pc[r] = "award"
        /\ rows' = rows \cup {[item |-> i, file |-> FinalKey(r), flash |-> inFlash[r]]}
        /\ points' = [points EXCEPT ![u] = IF inFlash[r] THEN before[r] ELSE @ + Award]
        /\ Answer(r, "saved")
        /\ UNCHANGED <<vault, storage>>

\* Any statement may throw, the sidecar write inside the transaction included:
\* what is not committed is rolled back and the client sees a 5xx, or nothing.
Fail(r) ==
    /\ FaultsAllowed
    /\ Running(r)
    /\ Answer(r, "error")
    /\ UNCHANGED dbVars

Step(r) ==
    \/ CheckSaved(r) \/ CheckAudio(r) \/ CheckText(r) \/ CheckDuplicate(r)
    \/ CheckActive(r) \/ StoreAudio(r) \/ ReadPoints(r) \/ InsertRow(r)
    \/ AwardAndCommit(r)

----------------------------------------------------------------------------
(* The administrator's recover call.                                       *)

RecGoto(a, step) ==
    /\ recPc' = [recPc EXCEPT ![a] = step]
    /\ UNCHANGED <<envVars, reqVars, recRow>>

\* SELECT the row WHERE recovered = false, its payload complete.
RecoverRead(a, r) ==
    /\ recPc[a] = "idle"
    /\ vault[r] = "open"
    /\ recPc' = [recPc EXCEPT ![a] = "dupe?"]
    /\ recRow' = [recRow EXCEPT ![a] = r]
    /\ UNCHANGED <<dbVars, envVars, reqVars>>

RecoverCheck(a) ==
    /\ recPc[a] = "dupe?"
    /\ RecGoto(a, IF Saved(work[recRow[a]]) THEN "idle" ELSE "move")
    /\ UNCHANGED dbVars

RecoverMove_DeleteFirst(a) ==
    LET r == recRow[a]
    IN  /\ recPc[a] = "move"
        /\ storage' \in {(storage \ {FailedKey(r)}) \cup k : k \in {{}, {RecoveredKey(r)}}}
        /\ RecGoto(a, IF RecoveredKey(r) \in storage' THEN "commit" ELSE "idle")
        /\ UNCHANGED <<rows, points, vault>>

\* storage.move of the vaulted audio into the user's prefix, then get it back.
RecoverMove(a) ==
    LET r == recRow[a]
    IN  /\ recPc[a] = "move"
        /\ \/ /\ FailedKey(r) \in storage
              /\ storage' = (storage \ {FailedKey(r)}) \cup {RecoveredKey(r)}
              /\ RecGoto(a, "commit")
           \/ /\ FailedKey(r) \notin storage
              /\ UNCHANGED storage
              /\ RecGoto(a, "idle")
        /\ UNCHANGED <<rows, points, vault>>

RecoverCommit_PaysDuplicates(a) ==
    LET r == recRow[a]
        i == work[r]
    IN  /\ recPc[a] = "commit"
        /\ ~Blocked(i)
        /\ RecGoto(a, "idle")
        /\ UNCHANGED <<storage, rows>>
        /\ vault' = [vault EXCEPT ![r] = "recovered"]
        /\ points' = [points EXCEPT ![Author[i]] = @ + Award]

\* One transaction: claim the row, INSERT the contribution, pay, COMMIT.  A
\* lost claim or a broken unique index rolls all of it back.
RecoverCommit(a) ==
    LET r == recRow[a]
        i == work[r]
    IN  /\ recPc[a] = "commit"
        /\ ~Blocked(i)
        /\ RecGoto(a, "idle")
        /\ UNCHANGED storage
        /\ \/ /\ vault[r] = "open" /\ ~Saved(i) /\ ~Heard(i)
              /\ vault' = [vault EXCEPT ![r] = "recovered"]
              /\ rows' = rows \cup {[item |-> i, file |-> RecoveredKey(r), flash |-> FALSE]}
              /\ points' = [points EXCEPT ![Author[i]] = @ + Award]
           \/ /\ vault[r] # "open" \/ Saved(i) \/ Heard(i)
              /\ UNCHANGED <<rows, points, vault>>

RecoverFail(a) ==
    /\ FaultsAllowed
    /\ recPc[a] # "idle"
    /\ RecGoto(a, "idle")
    /\ UNCHANGED dbVars

RecoverStep(a) == RecoverCheck(a) \/ RecoverMove(a) \/ RecoverCommit(a)

----------------------------------------------------------------------------
(* What goes on around the handlers.                                       *)

\* An administrator's report, or the third user's, hides a phrase; nothing
\* shows it again.
HidePhrase(p) ==
    /\ phraseActive[p]
    /\ phraseActive' = [phraseActive EXCEPT ![p] = FALSE]
    /\ UNCHANGED <<dbVars, flashOn, reqVars, recVars>>

\* A flash tournament reaches its starts_at or its ends_at.
ToggleFlash ==
    /\ FlashAllowed
    /\ flashOn' = ~flashOn
    /\ UNCHANGED <<dbVars, phraseActive, reqVars, recVars>>

ServerNext ==
    \/ \E r \in Requests : Step(r) \/ Fail(r) \/ Unreadable(r)
    \/ \E a \in Recoverers :
          \/ \E r \in Requests : RecoverRead(a, r)
          \/ RecoverStep(a)
          \/ RecoverFail(a)
    \/ \E p \in Phrases : HidePhrase(p)
    \/ ToggleFlash

\* Nothing is left to do; the server waits.
Idle ==
    /\ \A r \in Requests : pc[r] = "done"
    /\ \A a \in Recoverers : recPc[a] = "idle"
    /\ UNCHANGED vars

Next ==
    \/ ServerNext
    \/ \E r \in Requests, i \in Items : Receive(r, i) \/ Refuse(r, i)
    \/ Idle

Spec == Init /\ [][Next]_vars

\* Node keeps running a handler whose promises are settled.
Fairness ==
    /\ \A r \in Requests : WF_vars(Step(r))
    /\ \A a \in Recoverers : WF_vars(RecoverStep(a))

FairSpec == Spec /\ Fairness

----------------------------------------------------------------------------
(* Properties.                                                             *)

\* Every variable keeps its type.
TypeOK ==
    /\ rows \subseteq Row
    /\ points \in [Users -> Nat]
    /\ vault \in [Requests -> VaultValues]
    /\ storage \subseteq FileKeys
    /\ phraseActive \in [Phrases -> BOOLEAN]
    /\ flashOn \in BOOLEAN
    /\ pc \in [Requests -> PcValues]
    /\ work \in [Requests -> Items \cup {None}]
    /\ before \in [Requests -> Nat]
    /\ inFlash \in [Requests -> BOOLEAN]
    /\ reply \in [Requests -> Replies]
    /\ recPc \in [Recoverers -> RecPcValues]
    /\ recRow \in [Recoverers -> Requests \cup {None}]

\* The contributions a user is owed points for: those outside flash
\* tournaments.
PaidRows(u) == {c \in rows : Author[c.item] = u /\ ~c.flash}
Owed(u) == Award * Cardinality(PaidRows(u))

\* However requests are retried, raced, failed half-way or re-credited by an
\* administrator, and whatever a flash tournament restores, nobody ever holds
\* more points than the work that is stored for them is worth: no work is
\* paid twice.
NeverOverpaid == \A u \in Users : points[u] <= Owed(u)

\* A user holds one contribution per phrase, and one recording does not
\* serve for two of their contributions: the look-ahead checks and the unique
\* indexes leave no way round, for submissions and recover calls alike.
NoTwoClash ==
    \A c, d \in rows : Clash(c.item, d.item) => c = d

\* A client that is told "saved" may delete its own copy: the server holds a
\* contribution of that user for that phrase.
AckMeansSaved == \A r \in Requests : reply[r] = "saved" => Saved(work[r])

\* A contribution never points at audio that is not in the storage, whichever
\* of the handlers wrote it and wherever another one stopped half-way.
RowsHaveAudio == \A c \in rows : c.file \in storage

\* A client that is told "rejected" deletes its own copy too: the vault has
\* the work ("never silently deleted").
RejectMeansVaulted == \A r \in Requests : reply[r] = "rejected" => vault[r] # "none"

\* Some recover call has the audio of row r in its hands.
BeingRecovered(r) == \E a \in Recoverers : recPc[a] = "commit" /\ recRow[a] = r

\* An open vault row can be recovered, now or by the call that is at it, for
\* as long as the work is not stored some other way.
OpenRowsRecoverable ==
    \A r \in Requests :
        vault[r] = "open" =>
            \/ FailedKey(r) \in storage
            \/ BeingRecovered(r)
            \/ Saved(work[r])
            \/ Heard(work[r])

\* The vaulted audio survives whatever the recover calls do, two at once or
\* one that stops after it moved the file: it is under failed/ or under the
\* user's prefix, though a row may then point at the wrong one of the two.
VaultAudioSurvives ==
    \A r \in Requests :
        vault[r] = "open" => FailedKey(r) \in storage \/ RecoveredKey(r) \in storage

\* Every request that got into the handler is answered, also when it has to
\* wait for the uncommitted insert of another one.
EveryRequestAnswered == \A r \in Requests : Running(r) ~> reply[r] # "none"

\* Seen from outside, and with no flash tournament, the handlers credit each
\* translation once, in one step.
Ledger == INSTANCE ContributionLedger WITH
    saved <- {Key(c.item) : c \in rows},
    paid  <- points

LedgerSpec == Ledger!Spec
=============================================================================
