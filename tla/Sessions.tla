------------------------------ MODULE Sessions ------------------------------
(***************************************************************************)
(* One account's session and its refresh tokens: login, refresh, logout    *)
(* and the password resets (routes/auth.ts), the purge of revoked tokens   *)
(* (server.ts), and the browser's cookie (src/lib/api.ts).                 *)
(*                                                                         *)
(* The tabs of a device share its cookie jar; each runs one call at a      *)
(* time.  A call runs one statement per step and is answered; the browser  *)
(* applies the cookie of an answer only when it arrives, so answers may    *)
(* overtake each other.  Session 0 stands for none: an account that has    *)
(* not logged in since sessions were introduced.  The secret that signs    *)
(* the tokens does not change, and no route deletes an account, though it  *)
(* may be deactivated.  Access tokens and the requests they admit are the  *)
(* matter of ProfileCache.                                                 *)
(***************************************************************************)
EXTENDS Integers, FiniteSets

CONSTANTS
    Devices, Tabs,
    DeviceOf,     \* the device of each tab
    Names,        \* tell apart the refresh tokens a device uses at one time
    MaxCalls,     \* bound: calls under way at once
    MaxLogins,    \* bound: sessions started
    MaxUpsets,    \* bound: resets, deactivations, purges, expiries, failed
                  \* COMMITs and lost answers
    None

ASSUME SessionsAssumption ==
    /\ DeviceOf \in [Tabs -> Devices]
    /\ {MaxCalls, MaxLogins, MaxUpsets} \subseteq Nat
    /\ IsFiniteSet(Tabs) /\ IsFiniteSet(Names)
    /\ Cardinality(Names) > 2 * Cardinality(Tabs)
    /\ None \notin Devices \X Names

VARIABLES
    session,     \* profiles.session_id
    active,      \* users.is_active
    rows,        \* refresh_tokens; without a row, or with an expired one: "none"
    jar,         \* each device's cookie rf_token
    pc, call,    \* where each tab's call is, and what it carries
    logins, upsets,  \* how often so far
    settled      \* history: the session a device has logged in to undisturbed

server == <<session, active, rows>>
vars   == <<server, jar, pc, call, logins, upsets, settled>>

Sids     == 0..MaxLogins
Tokens   == Devices \X Names
\* "revoked": without revoked_at; "rotated": with it.
Rows     == [sid : Sids, state : {"none", "valid", "revoked", "rotated"}]
Blank    == [sid |-> 0, state |-> "none"]
PcValues == {"idle", "session", "insert", "lookup", "user", "rotate", "alarm",
             "revoke", "answer"}

\* token: the cookie sent; sid: the session the login began or the refresh
\* read; cookie: the token the answer sets, without which it clears the jar.
Calls  == [kind : {"none", "login", "refresh", "logout"},
           token : Tokens \cup {None}, sid : Sids,
           cookie : Tokens \cup {None}, ok : BOOLEAN]
NoCall == [kind |-> "none", token |-> None, sid |-> 0, cookie |-> None, ok |-> FALSE]

----------------------------------------------------------------------------
Held(j, c) == ({j[d] : d \in Devices} \cup {c[t].token : t \in Tabs}
                  \cup {c[t].cookie : t \in Tabs}) \ {None}

\* Before anyone logs in, every device may hold a token without a session.
Init ==
    /\ session = 0 /\ active = TRUE
    /\ jar = [d \in Devices |-> <<d, CHOOSE n \in Names : TRUE>>]
    /\ rows = [x \in Tokens |-> IF jar[x[1]] = x
                                THEN [sid |-> 0, state |-> "valid"] ELSE Blank]
    /\ settled = [d \in Devices |-> None]
    /\ pc = [t \in Tabs |-> "idle"] /\ call = [t \in Tabs |-> NoCall]
    /\ logins = 0 /\ upsets = 0

\* A token just generated: no browser and no call holds it.
NewToken(t) == CHOOSE x \in {DeviceOf[t]} \X Names : x \notin Held(jar, call)

Revoked(r) == IF r.state = "valid" THEN [r EXCEPT !.state = "revoked"] ELSE r
\* revoked_at = COALESCE(revoked_at, now())
Rotated(r) == IF r.state = "none" THEN r ELSE [r EXCEPT !.state = "rotated"]
RevokeAll  == [x \in Tokens |-> Revoked(rows[x])]

Upset == upsets < MaxUpsets /\ upsets' = upsets + 1
At(t, where) == pc[t] = where
Idle(t)      == At(t, "idle") /\ Cardinality({u \in Tabs : ~At(u, "idle")}) < MaxCalls
Go(t, to)    == pc' = [pc EXCEPT ![t] = to]
Set(t, c)    == call' = [call EXCEPT ![t] = c]
Answer(t, c) == Go(t, "answer") /\ Set(t, [c EXCEPT !.kind = call[t].kind])
Grant(t, x)  == Answer(t, [NoCall EXCEPT !.cookie = x, !.ok = TRUE])
Clear(t)     == Answer(t, NoCall)
Unsettle(d)  == settled' = [settled EXCEPT ![d] = None]

----------------------------------------------------------------------------
(* POST /login                                                             *)

\* The account is active and the credentials are right; comparing the password
\* takes its time.
Login(t) ==
    /\ Idle(t)
    /\ active
    /\ logins < MaxLogins
    /\ Go(t, "session") /\ Set(t, NoCall)
    /\ UNCHANGED <<server, jar, logins, upsets, settled>>

\* startSession, in one transaction: the new session revokes every token.
StartSession(t) ==
    /\ At(t, "session")
    /\ logins < MaxLogins
    /\ logins' = logins + 1
    /\ session' = logins'
    /\ rows' = RevokeAll
    /\ Set(t, [NoCall EXCEPT !.kind = "login", !.sid = logins'])
    /\ Go(t, "insert")
    /\ Unsettle(DeviceOf[t])
    /\ UNCHANGED <<active, jar, upsets>>

IssueRefreshToken_NoSession(t) ==
    /\ At(t, "insert")
    /\ rows' = [rows EXCEPT ![NewToken(t)] = [sid |-> None, state |-> "valid"]]
    /\ Grant(t, NewToken(t))
    /\ UNCHANGED <<session, active, jar, logins, upsets, settled>>

\* issueRefreshToken
IssueRefreshToken(t) ==
    /\ At(t, "insert")
    /\ rows' = [rows EXCEPT ![NewToken(t)] = [sid |-> call[t].sid, state |-> "valid"]]
    /\ Grant(t, NewToken(t))
    /\ UNCHANGED <<session, active, jar, logins, upsets, settled>>

(* POST /refresh                                                           *)

\* doRefreshSession sends the cookie: there is no access token, or it has
\* expired.  A token of another session is turned down before it is looked up.
Refresh(t) ==
    LET x == jar[DeviceOf[t]]
        refresh == [NoCall EXCEPT !.kind = "refresh", !.token = x, !.sid = session]
    IN
    /\ Idle(t) /\ x # None
    /\ IF session # 0 /\ rows[x].sid # session
       THEN Go(t, "answer") /\ Set(t, [NoCall EXCEPT !.kind = "refresh"])
       ELSE Go(t, "lookup") /\ Set(t, refresh)
    /\ UNCHANGED <<server, jar, logins, upsets, settled>>

\* Before the session was looked at: only three hours of grace.
Alarming_NoSession(r, read) ==
    IF r.state = "rotated" THEN BOOLEAN ELSE {r.state = "revoked"}

\* May the presentation of a revoked token raise the alarm?  Not within the
\* session that was read, nor within three hours of its rotation.
Alarming(r, read) ==
    IF read # 0 /\ r.sid = read THEN {FALSE}
    ELSE IF r.state = "rotated" THEN BOOLEAN ELSE {r.state = "revoked"}

\* Look the token up.
Lookup(t) ==
    LET r == rows[call[t].token] IN
    /\ At(t, "lookup")
    /\ IF r.state = "none" THEN Clear(t)
       ELSE /\ \E alarm \in Alarming(r, call[t].sid) :
                   Go(t, IF alarm THEN "alarm" ELSE "user")
            /\ Set(t, [call[t] EXCEPT !.sid = 0])
    /\ UNCHANGED <<server, jar, logins, upsets, settled>>

\* A reused token revokes all tokens of the user.
Alarm(t) ==
    /\ At(t, "alarm")
    /\ rows' = [x \in Tokens |-> Rotated(rows[x])]
    /\ Clear(t)
    /\ UNCHANGED <<session, active, jar, logins, upsets, settled>>

\* The user is read again: a deactivated one is turned down.
CheckUser(t) ==
    /\ At(t, "user")
    /\ IF active THEN Go(t, "rotate") /\ UNCHANGED call ELSE Clear(t)
    /\ UNCHANGED <<server, jar, logins, upsets, settled>>

Rotate_NoSession(t) ==
    LET old == call[t].token IN
    /\ At(t, "rotate")
    /\ rows' = [rows EXCEPT ![old] = Rotated(@),
                            ![NewToken(t)] = [sid |-> 0, state |-> "valid"]]
    /\ Grant(t, NewToken(t))
    /\ UNCHANGED <<session, active, jar, logins, upsets, settled>>

Rotate_Adopt(t) ==
    LET old == call[t].token IN
    /\ At(t, "rotate")
    /\ rows' = [rows EXCEPT ![old] = Rotated(@),
                            ![NewToken(t)] = [sid |-> session, state |-> "valid"]]
    /\ Grant(t, NewToken(t))
    /\ UNCHANGED <<session, active, jar, logins, upsets, settled>>

\* In one transaction: the old token goes, one of the same session comes.
Rotate(t) ==
    LET old == call[t].token IN
    /\ At(t, "rotate")
    /\ rows' = [rows EXCEPT ![old] = Rotated(@),
                            ![NewToken(t)] = [sid |-> rows[old].sid, state |-> "valid"]]
    /\ Grant(t, NewToken(t))
    /\ UNCHANGED <<session, active, jar, logins, upsets, settled>>

\* The answer is sent inside the transaction, whose COMMIT then fails.
AnswerWithoutCommit(t) ==
    /\ At(t, "rotate")
    /\ Upset
    /\ Grant(t, NewToken(t))
    /\ Unsettle(DeviceOf[t])
    /\ UNCHANGED <<server, jar, logins>>

(* POST /logout                                                            *)

\* A logout whose access token is admitted revokes the token of the cookie
\* and keeps the session; one that is not admitted changes nothing here.
Logout(t) ==
    /\ Idle(t)
    /\ Set(t, [NoCall EXCEPT !.kind = "logout", !.token = jar[DeviceOf[t]]])
    /\ Go(t, "revoke")
    /\ Unsettle(DeviceOf[t])
    /\ UNCHANGED <<server, jar, logins, upsets>>

Revoke(t) ==
    /\ At(t, "revoke")
    /\ rows' = IF call[t].token = None THEN rows
               ELSE [rows EXCEPT ![call[t].token] = Revoked(@)]
    /\ Clear(t)
    /\ UNCHANGED <<session, active, jar, logins, upsets, settled>>

----------------------------------------------------------------------------
(* The browser is answered                                                 *)

\* Tokens that nobody holds any more give their names back.
Done(t) ==
    /\ Go(t, "idle") /\ Set(t, NoCall)
    /\ rows' = [x \in Tokens |-> IF x \in Held(jar', call') THEN rows[x] ELSE Blank]
    /\ UNCHANGED <<session, active, logins>>

Alone(t) == \A u \in Tabs \ {t} : DeviceOf[u] = DeviceOf[t] => At(u, "idle")

\* The cookie an answer sets replaces the one in the jar; a refresh turned
\* down and a logout clear it, whichever it is by now.
Deliver(t) ==
    LET c == call[t]
        d == DeviceOf[t]
    IN
    /\ At(t, "answer")
    /\ jar' = [jar EXCEPT ![d] = c.cookie]
    /\ settled' = IF c.kind = "login" /\ Alone(t) /\ active /\ rows[c.cookie].state # "none"
                  THEN [settled EXCEPT ![d] = rows[c.cookie].sid] ELSE settled
    /\ Done(t)
    /\ UNCHANGED upsets

\* The answer is lost, or a statement fails and the rest is not run.
Lose(t) ==
    /\ ~At(t, "idle")
    /\ Upset
    /\ UNCHANGED <<jar, settled>>
    /\ Done(t)

----------------------------------------------------------------------------
(* Around the calls                                                        *)

\* A password reset revokes the tokens and keeps the session.
ResetPassword ==
    /\ Upset
    /\ rows' = RevokeAll
    /\ UNCHANGED <<session, active, jar, pc, call, logins, settled>>

\* The account is deactivated: an administrator's ban revokes its tokens too,
\* the block of the starter quota leaves them.
Deactivate ==
    /\ Upset
    /\ active' = FALSE
    /\ rows' \in {rows, RevokeAll}
    /\ settled' = [d \in Devices |-> None]
    /\ UNCHANGED <<session, jar, pc, call, logins>>

\* The administrator takes the ban back.
Reactivate ==
    /\ ~active /\ active' = TRUE
    /\ UNCHANGED <<session, rows, jar, pc, call, logins, upsets, settled>>

\* The rows of some tokens vanish, also of those a browser still has.
Vanish(gone) ==
    LET used(d) == {jar[d]} \cup UNION {{call[t].token, call[t].cookie} :
                                           t \in {u \in Tabs : DeviceOf[u] = d}}
    IN
    /\ Upset
    /\ rows' = [x \in Tokens |-> IF x \in gone THEN [rows[x] EXCEPT !.state = "none"]
                                 ELSE rows[x]]
    /\ settled' = [d \in Devices |-> IF gone \cap used(d) # {} THEN None ELSE settled[d]]
    /\ UNCHANGED <<session, active, jar, pc, call, logins>>

\* startTokenPurge deletes the revoked tokens, and the expired ones.
Purge == Vanish({x \in Tokens : rows[x].state \in {"revoked", "rotated"}})

\* Seven days after it was issued a token expires: nobody finds its row.
Expire(x) == rows[x].state # "none" /\ Vanish({x})

\* What a call under way does next.
Handle(t) ==
    \/ IssueRefreshToken(t) \/ Lookup(t) \/ Alarm(t) \/ CheckUser(t)
    \/ Rotate(t) \/ Revoke(t) \/ Deliver(t)

Next ==
    \/ \E t \in Tabs :
        \/ Login(t) \/ StartSession(t) \/ Refresh(t) \/ Logout(t) \/ Handle(t)
        \/ AnswerWithoutCommit(t) \/ Lose(t)
    \/ \E x \in Tokens : Expire(x)
    \/ ResetPassword \/ Deactivate \/ Reactivate \/ Purge

Spec == Init /\ [][Next]_vars

----------------------------------------------------------------------------
(* Properties                                                              *)

\* Every variable keeps its type.
TypeOK ==
    /\ session \in Sids /\ active \in BOOLEAN
    /\ rows \in [Tokens -> Rows]
    /\ jar \in [Devices -> Tokens \cup {None}]
    /\ pc \in [Tabs -> PcValues] /\ call \in [Tabs -> Calls]
    /\ logins \in 0..MaxLogins /\ upsets \in 0..MaxUpsets
    /\ settled \in [Devices -> Sids \cup {None}]

\* A device that logged in while its other tabs were quiet keeps the session
\* until someone logs in or it logs out: rotations in parallel tabs, lost
\* answers, alarms and password resets leave a cookie of the session in its
\* jar (auth.ts:523-534).  The exceptions are the deactivation of the account,
\* which clears the cookie of the next refresh (auth.ts:570-574), a purge or an
\* expiry that meets a token in use, and a rotation that is answered and not
\* committed.
KeepsSession ==
    \A d \in Devices : settled[d] # None /\ settled[d] = session =>
        jar[d] # None /\ rows[jar[d]].sid = session

\* A step that turns a refresh down, and a reason for it.
TurnsDown(t) == ~At(t, "answer") /\ pc'[t] = "answer"
                    /\ call'[t].kind = "refresh" /\ ~call'[t].ok
Reason(t)    == LET r == rows[IF At(t, "idle") THEN jar[DeviceOf[t]] ELSE call[t].token] IN
                \/ session = 0 \/ r.sid # session \/ r.state = "none"
                \/ At(t, "user") /\ ~active

\* A refresh is turned down only for a reason: another session is current, or
\* none; the token's row is gone or expired (auth.ts:519); or the account is
\* found deactivated (auth.ts:570-574).  But it is never turned down because a
\* token of the current session was rotated before (auth.ts:523-534).
RefusedForAReason == [][\A t \in Tabs : TurnsDown(t) => Reason(t)]_vars

\* Sessions do not pass from device to device: two devices never hold cookies
\* of one session, however calls and logins overlap (auth.ts:50-57, 580-582).
SessionsStayApart ==
    \A d, e \in Devices : d # e /\ jar[d] # None /\ jar[e] # None =>
        rows[jar[d]].sid # rows[jar[e]].sid \/ rows[jar[d]].sid = 0
=============================================================================
