---------------------------- MODULE ProfileCache ----------------------------
(***************************************************************************)
(* Who is admitted: authMiddleware (middleware/auth.ts) judges a request   *)
(* on the profile its worker has cached (utils/cache.ts).  A login changes *)
(* the session and tells every worker through the primary (routes/auth.ts, *)
(* server.ts); a ban and an unban drop the profile on one worker only      *)
(* (routes/users.ts).                                                      *)
(*                                                                         *)
(* One account and its browsers (clients).  A request that finds no entry  *)
(* reads the profile in one step and stores what it read in a later one.   *)
(* How refresh tokens are rotated is the matter of Sessions: here a client *)
(* whose access token is turned down is signed out, and logs in again.     *)
(***************************************************************************)
EXTENDS Integers

CONSTANTS
    Clients, Workers,
    MaxLogins,     \* bound: sessions started
    MaxBans,       \* bound: bans and unbans together
    None

ASSUME ProfileCacheAssumption ==
    /\ MaxLogins \in Nat /\ MaxBans \in Nat
    /\ None \notin Clients \cup Workers

VARIABLES
    profile,     \* profiles.session_id and users.is_active
    store,       \* each worker's entry profile:<user>
    toPrimary,   \* workers whose message is on its way to the primary
    toWorker,    \* workers the primary's message is on its way to
    access,      \* session of the access token each client keeps in memory
    pc, call,    \* where each client's call is, its worker and what it read
    logins, bans,  \* how often so far
    overtaken    \* history: workers that stored a profile read before a login

caches == <<store, toPrimary, toWorker, overtaken>>
counts == <<logins, bans>>
vars == <<profile, caches, access, pc, call, counts>>

Sids     == 0..MaxLogins      \* 0: none yet
Profiles == [sid : Sids, active : BOOLEAN]
PcValues == {"idle", "read", "started", "invalidated", "answered"}
Calls    == [at : Workers \cup {None}, sid : Sids, seen : Profiles \cup {None}]
NoCall   == [at |-> None, sid |-> 0, seen |-> None]

Init ==
    /\ profile = [sid |-> 0, active |-> TRUE]
    /\ store = [w \in Workers |-> None]
    /\ toPrimary = {} /\ toWorker = {} /\ overtaken = {}
    /\ access \in [Clients -> {None, 0}]
    /\ pc = [c \in Clients |-> "idle"]
    /\ call = [c \in Clients |-> NoCall]
    /\ logins = 0 /\ bans = 0

At(c, where) == pc[c] = where
Go(c, to)    == pc' = [pc EXCEPT ![c] = to]
Set(c, r)    == call' = [call EXCEPT ![c] = r]
Hold(c, sid) == access' = [access EXCEPT ![c] = sid]

\* store.delete on the workers ws.
Drop(ws) ==
    /\ store' = [w \in Workers |-> IF w \in ws THEN None ELSE store[w]]
    /\ overtaken' = overtaken \ ws

----------------------------------------------------------------------------
(* Requests                                                                *)

\* The account is active, and the session is the current one or none is set.
Admissible(sid, p) == p.active /\ (p.sid = 0 \/ sid = p.sid)

\* A request turned down costs the client its access token.
Judge(c, p) ==
    IF Admissible(access[c], p) THEN UNCHANGED access ELSE Hold(c, None)

\* A request with an access token finds an entry at worker w.
Hit(c, w) ==
    /\ At(c, "idle") /\ access[c] # None
    /\ store[w] # None
    /\ Judge(c, store[w])
    /\ UNCHANGED <<profile, caches, pc, call, counts>>

\* It finds none, and reads the profile.
Miss(c, w) ==
    /\ At(c, "idle") /\ access[c] # None
    /\ store[w] = None
    /\ Go(c, "read") /\ Set(c, [NoCall EXCEPT !.at = w, !.seen = profile])
    /\ UNCHANGED <<profile, caches, access, counts>>

\* What was read is stored, whatever has happened since.
Store(c) ==
    LET w == call[c].at IN
    /\ At(c, "read")
    /\ store' = [store EXCEPT ![w] = call[c].seen]
    /\ overtaken' = IF call[c].seen.sid # profile.sid
                    THEN overtaken \cup {w} ELSE overtaken \ {w}
    /\ Judge(c, call[c].seen)
    /\ Go(c, "idle") /\ Set(c, NoCall)
    /\ UNCHANGED <<profile, toPrimary, toWorker, counts>>

(* Login                                                                   *)

\* startSession commits, on worker w; no other device's token counts any more.
Start(c, w) ==
    /\ At(c, "idle")
    /\ profile.active /\ logins < MaxLogins
    /\ logins' = logins + 1
    /\ profile' = [profile EXCEPT !.sid = logins']
    /\ Go(c, "started") /\ Set(c, [NoCall EXCEPT !.at = w, !.sid = logins'])
    /\ UNCHANGED <<caches, access, bans>>

Invalidate_Unaddressed(c) ==
    /\ At(c, "started")
    /\ Drop({call[c].at})
    /\ toPrimary' = toPrimary \cup {None}
    /\ Go(c, "invalidated")
    /\ UNCHANGED <<profile, toWorker, access, call, counts>>

Invalidate_Local(c) ==
    /\ At(c, "started")
    /\ Drop({call[c].at})
    /\ Go(c, "invalidated")
    /\ UNCHANGED <<profile, toPrimary, toWorker, access, call, counts>>

\* invalidateGlobal: the entry of this worker, and a message to the primary.
Invalidate(c) ==
    /\ At(c, "started")
    /\ Drop({call[c].at})
    /\ toPrimary' = toPrimary \cup {call[c].at}
    /\ Go(c, "invalidated")
    /\ UNCHANGED <<profile, toWorker, access, call, counts>>

\* The client gets the access token of the session it began.
LoggedIn(c) ==
    /\ At(c, "invalidated")
    /\ Hold(c, call[c].sid)
    /\ Go(c, "idle") /\ Set(c, NoCall)
    /\ UNCHANGED <<profile, caches, counts>>

(* The cluster                                                             *)

\* The primary sends a worker's message on to every worker.
Relay(w) ==
    /\ w \in toPrimary
    /\ toPrimary' = toPrimary \ {w}
    /\ toWorker' = Workers
    /\ UNCHANGED <<profile, store, overtaken, access, pc, call, counts>>

Receive(w) ==
    /\ w \in toWorker
    /\ toWorker' = toWorker \ {w}
    /\ Drop({w})
    /\ UNCHANGED <<profile, toPrimary, access, pc, call, counts>>

Expire_Sliding(w) ==
    /\ store[w] # None
    /\ \A c \in Clients : access[c] = None
    /\ Drop({w})
    /\ UNCHANGED <<profile, toPrimary, toWorker, access, pc, call, counts>>

\* Ten seconds after the read of its profile an entry no longer counts.
Expire(w) ==
    /\ store[w] # None
    /\ Drop({w})
    /\ UNCHANGED <<profile, toPrimary, toWorker, access, pc, call, counts>>

\* The ban or the unban of the account, by worker w, which drops its own entry.
Ban(w) ==
    /\ bans < MaxBans
    /\ bans' = bans + 1
    /\ profile' = [profile EXCEPT !.active = ~@]
    /\ Drop({w})
    /\ UNCHANGED <<toPrimary, toWorker, access, pc, call, logins>>

----------------------------------------------------------------------------
Request(c) == \E w \in Workers : Hit(c, w) \/ Miss(c, w)
Answer(c)  == Store(c) \/ Invalidate(c) \/ LoggedIn(c)

Next ==
    \/ \E c \in Clients : Request(c) \/ Answer(c) \/ \E w \in Workers : Start(c, w)
    \/ \E w \in Workers : Relay(w) \/ Receive(w) \/ Expire(w) \/ Ban(w)

\* Handlers finish, messages between processes arrive, entries grow old, and a
\* client that is signed in goes on sending requests.
Fairness ==
    /\ \A c \in Clients : WF_vars(Request(c)) /\ WF_vars(Answer(c))
    /\ \A w \in Workers : WF_vars(Relay(w)) /\ WF_vars(Receive(w)) /\ WF_vars(Expire(w))

Spec == Init /\ [][Next]_vars /\ Fairness

----------------------------------------------------------------------------
(* Properties                                                              *)

\* Every variable keeps its type.
TypeOK ==
    /\ profile \in Profiles
    /\ store \in [Workers -> Profiles \cup {None}]
    /\ toPrimary \subseteq Workers /\ toWorker \subseteq Workers
    /\ access \in [Clients -> Sids \cup {None}]
    /\ pc \in [Clients -> PcValues] /\ call \in [Clients -> Calls]
    /\ logins \in 0..MaxLogins /\ bans \in 0..MaxBans
    /\ overtaken \subseteq Workers

\* A worker takes another session than the current one for current only while
\* the news of the login is on its way, or when the profile it stored was read
\* before the login and stored after it (auth.ts:53-56 promises no window).
NewsUnderWay(w) ==
    \/ toPrimary # {} \/ w \in toWorker
    \/ \E c \in Clients : At(c, "started")

StaleOnlyIfOvertaken ==
    \A w \in Workers : store[w] # None /\ store[w].sid # profile.sid =>
        NewsUnderWay(w) \/ w \in overtaken

\* A client whose session was superseded or whose account was banned is signed
\* out, unless it logs in again or is unbanned: no entry keeps it in for ever,
\* although a ban is told to one worker only (users.ts:1861).
Outsider(c) ==
    /\ access[c] # None
    /\ ~profile.active \/ (profile.sid # 0 /\ access[c] # profile.sid)

OutsidersSignedOut == \A c \in Clients : Outsider(c) ~> ~Outsider(c)
=============================================================================
