--------------------------- MODULE OutboxDelivery ---------------------------
(***************************************************************************)
(* The contribute page's durable outbox (app/contribute/page.tsx and       *)
(* lib/outbox-db.ts) in front of ContributionServer: what a user records   *)
(* is put in the browser's IndexedDB, sent from the head of an in-memory   *)
(* queue, and removed when the server has answered.                        *)
(*                                                                         *)
(* Each tab runs its own queue over the one IndexedDB of the browser.  A   *)
(* tab may be closed or crash at any time, the answer to a request may be  *)
(* lost while the server goes on handling it, and a request may be refused *)
(* before it reaches the handler.  X_Y is X with the fault Y, as in        *)
(* ContributionServer.                                                     *)
(***************************************************************************)
EXTENDS ContributionServer, Sequences, SequencesExt

CONSTANTS
    Tabs,           \* browser tabs of the one browser modelled
    MaxAttempts,    \* attempts after which an item is parked (3 in the code)
    MaxFaults       \* bound on faults: refusals, failures, lost answers, closed tabs

ASSUME OutboxAssumption == MaxAttempts \in Nat \ {0} /\ MaxFaults \in Nat

VARIABLES
    recorded,       \* items whose send button has been tapped
    persisted,      \* items whose outboxAdd has completed
    disk,           \* the IndexedDB store "pending"
    open,           \* open[t]: tab t shows the contribute page
    adding,         \* adding[t]: the item whose outboxAdd tab t awaits
    queue,          \* outboxRef.current
    attempts,       \* attempts[t][i]: the attempts field of item i in tab t
    flush,          \* where flushOutbox is in tab t
    flight,         \* the request flushOutbox awaits
    faults          \* faults so far

pageVars   == <<open, adding, queue, attempts, flush, flight>>
clientVars == <<recorded, persisted, disk, pageVars, faults>>
allVars    == <<vars, clientVars>>

\* "off": not running; "loop": at the top of the while loop; "sent": awaiting
\* submitContribution; "removing": awaiting outboxRemove; "finally": leaving.
FlushStates == {"off", "loop", "sent", "removing", "finally"}

Head1(t) == Head(queue[t])
Parked(t) == queue[t] # <<>> /\ attempts[t][Head1(t)] >= MaxAttempts
Fresh(t) == \E k \in DOMAIN queue[t] : attempts[t][queue[t][k]] = 0

OutboxInit ==
    /\ Init
    /\ recorded = {}
    /\ persisted = {}
    /\ disk = {}
    /\ open = [t \in Tabs |-> TRUE]
    /\ adding = [t \in Tabs |-> None]
    /\ queue = [t \in Tabs |-> <<>>]
    /\ attempts = [t \in Tabs |-> [i \in Items |-> 0]]
    /\ flush = [t \in Tabs |-> "off"]
    /\ flight = [t \in Tabs |-> None]
    /\ faults = 0

Fault == faults < MaxFaults /\ faults' = faults + 1

----------------------------------------------------------------------------
(* The page.                                                               *)

\* handleSubmit: the item joins the queue, then outboxAdd is awaited.  A user
\* does not tap again before the next phrase is shown.
Tap(t, i) ==
    /\ open[t] /\ adding[t] = None
    /\ i \notin recorded
    /\ recorded' = recorded \cup {i}
    /\ queue' = [queue EXCEPT ![t] = Append(@, i)]
    /\ attempts' = [attempts EXCEPT ![t][i] = 0]
    /\ adding' = [adding EXCEPT ![t] = i]
    /\ UNCHANGED <<vars, persisted, disk, open, flush, flight, faults>>

\* outboxAdd completes; loadPhrase() and flushOutbox() follow.
Persist(t) ==
    /\ adding[t] # None
    /\ disk' = disk \cup {adding[t]}
    /\ persisted' = persisted \cup {adding[t]}
    /\ adding' = [adding EXCEPT ![t] = None]
    /\ flush' = [flush EXCEPT ![t] = IF @ = "off" THEN "loop" ELSE @]
    /\ UNCHANGED <<vars, recorded, open, queue, attempts, flight, faults>>

\* The head of the queue is posted, under a request identity not used yet ...
Unused == {r \in Requests : pc[r] = "idle"}

Send(t) ==
    LET r == CHOOSE q \in Unused : TRUE
    IN  /\ Unused # {}
        /\ flush[t] = "loop" /\ queue[t] # <<>> /\ ~Parked(t)
        /\ flush' = [flush EXCEPT ![t] = "sent"]
        /\ flight' = [flight EXCEPT ![t] = r]
        /\ \/ Receive(r, Head1(t)) /\ UNCHANGED faults
           \/ Refuse(r, Head1(t)) /\ Fault
        /\ UNCHANGED <<recorded, persisted, disk, open, adding, queue, attempts>>

\* ... or there is nothing to post, or it is parked.
StopLoop(t) ==
    /\ flush[t] = "loop" /\ (queue[t] = <<>> \/ Parked(t))
    /\ flush' = [flush EXCEPT ![t] = "finally"]
    /\ UNCHANGED <<vars, recorded, persisted, disk, open, adding, queue, attempts,
                   flight, faults>>

Settle_OnAnyAnswer(t) ==
    /\ flush[t] = "sent"
    /\ reply[flight[t]] # "none"
    /\ queue' = [queue EXCEPT ![t] = Tail(@)]
    /\ flush' = [flush EXCEPT ![t] = "removing"]
    /\ UNCHANGED <<vars, recorded, persisted, disk, open, adding, attempts, flight,
                   faults>>

\* 2xx, or 400, 404, 409, 422: either way the item leaves the queue, then the
\* IndexedDB.
Settle(t) ==
    /\ flush[t] = "sent"
    /\ reply[flight[t]] \in {"saved", "rejected"}
    /\ queue' = [queue EXCEPT ![t] = Tail(@)]
    /\ flush' = [flush EXCEPT ![t] = "removing"]
    /\ UNCHANGED <<vars, recorded, persisted, disk, open, adding, attempts, flight,
                   faults>>

\* outboxRemove completes.  IndexedDB runs the read-write transactions of a
\* store in the order they were made, so an outboxAdd still pending for the
\* item completes first.
Removed(t) ==
    /\ flush[t] = "removing"
    /\ adding[t] # work[flight[t]]
    /\ disk' = disk \ {work[flight[t]]}
    /\ flush' = [flush EXCEPT ![t] = "loop"]
    /\ flight' = [flight EXCEPT ![t] = None]
    /\ UNCHANGED <<vars, recorded, persisted, open, adding, queue, attempts, faults>>

\* Any other status, or no answer at all: one more attempt; the last one
\* parks the item and leaves the loop.
Retry(t) ==
    /\ flush[t] = "sent"
    /\ \/ reply[flight[t]] = "error" /\ UNCHANGED faults
       \/ Fault
    /\ attempts' = [attempts EXCEPT ![t][Head1(t)] = @ + 1]
    /\ flush' = [flush EXCEPT ![t] =
                    IF attempts[t][Head1(t)] + 1 >= MaxAttempts THEN "finally" ELSE "loop"]
    /\ flight' = [flight EXCEPT ![t] = None]
    /\ UNCHANGED <<vars, recorded, persisted, disk, open, adding, queue>>

\* The finally block: flushingRef off, and straight in again when some item
\* has not been tried.  With a parked item at the head that call comes back
\* to its own finally block without an await in between, again and again,
\* until the stack is exhausted and the RangeError ends it.
Finally(t) ==
    /\ flush[t] = "finally"
    /\ flush' = [flush EXCEPT ![t] = IF Fresh(t) /\ ~Parked(t) THEN "loop" ELSE "off"]
    /\ UNCHANGED <<vars, recorded, persisted, disk, open, adding, queue, attempts,
                   flight, faults>>

Drain_KeepsAttempts(t) ==
    /\ open[t] /\ flush[t] = "off" /\ queue[t] # <<>>
    /\ flush' = [flush EXCEPT ![t] = "loop"]
    /\ UNCHANGED <<vars, recorded, persisted, disk, open, adding, queue, attempts,
                   flight, faults>>

\* flushOutbox(true): the tab gets the focus, the network is back, or the
\* user presses Retry.
Drain(t) ==
    /\ open[t] /\ flush[t] = "off" /\ queue[t] # <<>>
    /\ attempts' = [attempts EXCEPT ![t] = [i \in Items |-> 0]]
    /\ flush' = [flush EXCEPT ![t] = "loop"]
    /\ UNCHANGED <<vars, recorded, persisted, disk, open, adding, queue, flight, faults>>

\* Reload, crash, navigation: the page's memory is gone, its request is not.
CloseTab(t) ==
    /\ open[t]
    /\ Fault
    /\ open' = [open EXCEPT ![t] = FALSE]
    /\ adding' = [adding EXCEPT ![t] = None]
    /\ queue' = [queue EXCEPT ![t] = <<>>]
    /\ flush' = [flush EXCEPT ![t] = "off"]
    /\ flight' = [flight EXCEPT ![t] = None]
    /\ UNCHANGED <<vars, recorded, persisted, disk, attempts>>

\* The load effect: outboxAll, oldest first, and flushOutbox().
OpenTab(t) ==
    /\ ~open[t]
    /\ open' = [open EXCEPT ![t] = TRUE]
    /\ queue' = [queue EXCEPT ![t] = SetToSeq(disk)]
    /\ attempts' = [attempts EXCEPT ![t] = [i \in Items |-> 0]]
    /\ flush' = [flush EXCEPT ![t] = IF disk = {} THEN "off" ELSE "loop"]
    /\ UNCHANGED <<vars, recorded, persisted, disk, adding, flight, faults>>

Page(t) ==
    \/ Persist(t) \/ Send(t) \/ StopLoop(t) \/ Settle(t) \/ Removed(t) \/ Retry(t)
    \/ Finally(t)

----------------------------------------------------------------------------
(* The composition.                                                        *)

\* The server's own steps; its failures count as faults.
Server ==
    \/ \E r \in Requests : Step(r) /\ UNCHANGED clientVars
    \/ \E r \in Requests :
          /\ Fail(r) \/ Unreadable(r)
          /\ Fault
          /\ UNCHANGED <<recorded, persisted, disk, pageVars>>
    \/ \E a \in Recoverers :
          /\ RecoverStep(a) \/ \E r \in Requests : RecoverRead(a, r)
          /\ UNCHANGED clientVars
    \/ \E p \in Phrases : HidePhrase(p) /\ UNCHANGED clientVars

OutboxNext ==
    \/ \E t \in Tabs :
          \/ \E i \in Items : Tap(t, i)
          \/ Page(t)
          \/ Drain(t) \/ CloseTab(t) \/ OpenTab(t)
    \/ Server

OutboxSpec == OutboxInit /\ [][OutboxNext]_allVars

\* JavaScript keeps running what it started; the user comes back to the page
\* and, as long as something is left in the queue, looks at it again.
OutboxFairness ==
    /\ \A t \in Tabs : WF_allVars(Page(t)) /\ WF_allVars(Drain(t)) /\ WF_allVars(OpenTab(t))
    /\ \A r \in Requests : WF_allVars(Step(r) /\ UNCHANGED clientVars)

FairOutboxSpec == OutboxSpec /\ OutboxFairness

----------------------------------------------------------------------------
(* Properties.                                                             *)

Vaulted(i) == \E r \in Requests : work[r] = i /\ vault[r] # "none"

\* "No work is ever lost": whatever the tabs, the network and the server do,
\* a recording that reached the browser's disk is still there, or is stored,
\* or waits in the vault.
NoWorkLost == \A i \in persisted : i \in disk \/ Saved(i) \/ Vaulted(i)

\* Every recording on disk is in the end stored or vaulted, and its copy on
\* disk is given up: no item blocks the ones behind it for ever.
Delivered == \A i \in Items : i \in persisted ~> (i \notin disk /\ (Saved(i) \/ Vaulted(i)))
=============================================================================
