--------------------------- MODULE SessionsProofs ---------------------------
(***************************************************************************)
(* Theorems about Sessions, for any devices, tabs and names and any number *)
(* of logins, resets, purges and lost answers.                             *)
(***************************************************************************)
EXTENDS Sessions, FiniteSetTheorems, TLAPS

\* What a call in state p carries: at most one token, of its own device.
Fits(t, p, c) ==
    /\ c.token = None \/ c.cookie = None
    /\ c.token \in ({DeviceOf[t]} \X Names) \cup {None}
    /\ c.cookie \in ({DeviceOf[t]} \X Names) \cup {None}
    /\ p = "insert" => c.kind = "login" /\ c.token = None /\ c.cookie = None
    /\ p \in {"lookup", "user", "rotate", "alarm"} => c.kind = "refresh" /\ c.token # None
    /\ p \in {"user", "rotate", "alarm"} => c.sid = 0
    /\ p = "revoke" => c.kind = "logout"
    /\ p = "answer" => c.token = None /\ (c.kind = "login" => c.cookie # None)

CallsFit == \A t \in Tabs : Fits(t, pc[t], call[t])
JarsFit  == \A d \in Devices : jar[d] \in ({d} \X Names) \cup {None}

TypeInv == TypeOK /\ CallsFit /\ JarsFit

----------------------------------------------------------------------------
(* The call records.                                                       *)

Kinds == {"none", "login", "refresh", "logout"}

LEMMA NoCallFacts ==
    /\ NoCall \in Calls
    /\ NoCall.kind = "none" /\ NoCall.token = None /\ NoCall.cookie = None
    /\ NoCall.sid = 0 /\ NoCall.ok = FALSE
BY SessionsAssumption DEF NoCall, Calls, Sids

\* The records of calls that start.
LEMMA LoginRecord ==
    ASSUME NEW s \in Sids
    PROVE  LET r == [NoCall EXCEPT !.kind = "login", !.sid = s] IN
           /\ r \in Calls /\ r.kind = "login" /\ r.token = None /\ r.sid = s
           /\ r.cookie = None
BY NoCallFacts DEF Calls

LEMMA LogoutRecord ==
    ASSUME NEW x \in Tokens \cup {None}
    PROVE  LET r == [NoCall EXCEPT !.kind = "logout", !.token = x] IN
           /\ r \in Calls /\ r.kind = "logout" /\ r.token = x /\ r.sid = 0
           /\ r.cookie = None
BY NoCallFacts DEF Calls

LEMMA RefusedRecord ==
    LET r == [NoCall EXCEPT !.kind = "refresh"] IN
    /\ r \in Calls /\ r.kind = "refresh" /\ r.token = None /\ r.sid = 0
    /\ r.cookie = None
BY NoCallFacts DEF Calls

\* The record of an answer that sets a cookie, and of one that clears it.
LEMMA GrantRecord ==
    ASSUME NEW k \in Kinds, NEW x \in Tokens \cup {None}
    PROVE  LET r == [[NoCall EXCEPT !.cookie = x, !.ok = TRUE] EXCEPT !.kind = k] IN
           /\ r \in Calls /\ r.kind = k /\ r.token = None /\ r.sid = 0
           /\ r.cookie = x /\ r.ok
<1> DEFINE g == [NoCall EXCEPT !.cookie = x, !.ok = TRUE]
<1>1. /\ g \in Calls /\ g.token = None /\ g.sid = 0 /\ g.cookie = x /\ g.ok
    BY NoCallFacts DEF Calls
<1> HIDE DEF g
<1>2. /\ [g EXCEPT !.kind = k] \in Calls
      /\ [g EXCEPT !.kind = k].kind = k
      /\ [g EXCEPT !.kind = k].token = g.token
      /\ [g EXCEPT !.kind = k].sid = g.sid
      /\ [g EXCEPT !.kind = k].cookie = g.cookie
      /\ [g EXCEPT !.kind = k].ok = g.ok
    BY <1>1 DEF Calls, Kinds
<1> QED
    BY <1>1, <1>2 DEF g

LEMMA ClearRecord ==
    ASSUME NEW k \in Kinds
    PROVE  LET r == [NoCall EXCEPT !.kind = k] IN
           /\ r \in Calls /\ r.kind = k /\ r.token = None /\ r.sid = 0
           /\ r.cookie = None
BY NoCallFacts DEF Calls, Kinds

----------------------------------------------------------------------------
(* What the steps of a call do to its record.                              *)

Moves(t, to, r) == pc' = [pc EXCEPT ![t] = to] /\ call' = [call EXCEPT ![t] = r]

LEMMA GrantMoves ==
    ASSUME TypeOK, NEW t \in Tabs, NEW x \in Tokens \cup {None}, Grant(t, x)
    PROVE  \E r \in Calls :
               /\ Moves(t, "answer", r) /\ r.kind = call[t].kind
               /\ r.token = None /\ r.sid = 0 /\ r.cookie = x /\ r.ok
<1> DEFINE r == [[NoCall EXCEPT !.cookie = x, !.ok = TRUE] EXCEPT !.kind = call[t].kind]
<1>1. call[t].kind \in Kinds
    BY DEF TypeOK, Calls, Kinds
<1>2. /\ r \in Calls /\ r.kind = call[t].kind /\ r.token = None /\ r.sid = 0
      /\ r.cookie = x /\ r.ok
    BY <1>1, GrantRecord
<1>3. Moves(t, "answer", r)
    BY DEF Grant, Answer, Go, Set, Moves
<1> QED
    BY <1>2, <1>3

LEMMA ClearMoves ==
    ASSUME TypeOK, NEW t \in Tabs, Clear(t)
    PROVE  \E r \in Calls :
               /\ Moves(t, "answer", r) /\ r.kind = call[t].kind
               /\ r.token = None /\ r.sid = 0 /\ r.cookie = None
<1> DEFINE r == [NoCall EXCEPT !.kind = call[t].kind]
<1>1. call[t].kind \in Kinds
    BY DEF TypeOK, Calls, Kinds
<1>2. /\ r \in Calls /\ r.kind = call[t].kind /\ r.token = None /\ r.sid = 0
      /\ r.cookie = None
    BY <1>1, ClearRecord
<1>3. Moves(t, "answer", r)
    BY DEF Clear, Answer, Go, Set, Moves
<1> QED
    BY <1>2, <1>3

----------------------------------------------------------------------------
(* A token just generated is held by nobody.                               *)

LEMMA HeldBy ==
    ASSUME TypeInv, NEW d \in Devices, NEW n \in Names, <<d, n>> \in Held(jar, call)
    PROVE  \/ <<d, n>> = jar[d]
           \/ \E u \in Tabs : <<d, n>> \in {call[u].token, call[u].cookie}
<1>1. \/ \E e \in Devices : <<d, n>> = jar[e]
      \/ \E u \in Tabs : <<d, n>> \in {call[u].token, call[u].cookie}
    BY DEF Held
<1>2. <<d, n>> # None
    BY SessionsAssumption
<1>3. ASSUME NEW e \in Devices, <<d, n>> = jar[e] PROVE d = e
    BY <1>2, <1>3 DEF TypeInv, JarsFit
<1> QED
    BY <1>1, <1>3

LEMMA NewTokenIsFresh ==
    ASSUME TypeInv, NEW t \in Tabs, pc[t] \in {"insert", "rotate"}
    PROVE  /\ NewToken(t) \in {DeviceOf[t]} \X Names
           /\ NewToken(t) \notin Held(jar, call)
<1> DEFINE d == DeviceOf[t]
<1>0. d \in Devices
    BY SessionsAssumption
<1>1. SUFFICES \E x \in {d} \X Names : x \notin Held(jar, call)
    BY DEF NewToken
<1>2. SUFFICES ASSUME \A n \in Names : <<d, n>> \in Held(jar, call) PROVE FALSE
    BY <1>1
<1> DEFINE holds(u, n) == <<d, n>> \in {call[u].token, call[u].cookie}
           Places == Tabs \X {1, 2}
           place == [n \in Names |-> IF <<d, n>> = jar[d] THEN <<t, 1>>
                                     ELSE <<CHOOSE u \in Tabs : holds(u, n), 2>>]
<1>3. \A n \in Names : <<d, n>> # jar[d] => \E u \in Tabs : holds(u, n)
    BY <1>0, <1>2, HeldBy
<1>4. place \in [Names -> Places]
    BY <1>3
<1>5. /\ IsFiniteSet(Places)
      /\ Cardinality(Places) = Cardinality(Tabs) * 2
    <2>1. IsFiniteSet({1, 2}) /\ Cardinality({1, 2}) = 2
        <3>1. IsFiniteSet({1}) /\ Cardinality({1}) = 1
            BY FS_Singleton
        <3>2. IsFiniteSet({1} \cup {2}) /\ Cardinality({1} \cup {2}) = Cardinality({1}) + 1
            BY <3>1, 2 \notin {1}, FS_AddElement
        <3>3. {1, 2} = {1} \cup {2}
            OBVIOUS
        <3> QED
            BY <3>1, <3>2, <3>3
    <2> QED
        BY <2>1, SessionsAssumption, FS_Product
<1>6. Cardinality(Places) < Cardinality(Names)
    BY <1>5, SessionsAssumption, FS_CardinalityType
<1> HIDE DEF place, Places
<1>7. PICK m \in Names, n \in Names : m # n /\ place[m] = place[n]
    BY <1>4, <1>5, <1>6, SessionsAssumption, FS_PigeonHole
<1>8. ASSUME <<d, m>> # jar[d], <<d, n>> # jar[d]
      PROVE  \E u \in Tabs : holds(u, m) /\ holds(u, n)
    BY <1>3, <1>7, <1>8 DEF place
<1>9. ASSUME NEW u \in Tabs, holds(u, m), holds(u, n)
      PROVE  FALSE
    <2>1. <<d, m>> # None /\ <<d, n>> # None
        BY <1>0, SessionsAssumption
    <2> QED
        BY <1>7, <1>9, <2>1 DEF TypeInv, CallsFit, Fits
<1>10. CASE <<d, m>> = jar[d] /\ <<d, n>> = jar[d]
    BY <1>7, <1>10
<1>11. CASE ~(<<d, m>> = jar[d] <=> <<d, n>> = jar[d])
    BY <1>7, <1>11 DEF place
<1> QED
    BY <1>8, <1>9, <1>10, <1>11

----------------------------------------------------------------------------
(* Types and fits of the records.                                          *)

LEMMA RowOps ==
    ASSUME NEW r \in Rows
    PROVE  /\ Revoked(r) \in Rows /\ Rotated(r) \in Rows
           /\ Revoked(r).sid = r.sid /\ Rotated(r).sid = r.sid
           /\ Revoked(r).state = "none" <=> r.state = "none"
           /\ Rotated(r).state = "none" <=> r.state = "none"
BY DEF Rows, Revoked, Rotated

LEMMA BlankRow == Blank \in Rows /\ Blank.sid = 0 /\ Blank.state = "none"
BY SessionsAssumption DEF Rows, Blank, Sids

LEMMA MoveTypes ==
    ASSUME TypeInv, NEW t \in Tabs, NEW to \in PcValues, NEW r \in Calls,
           Moves(t, to, r), Fits(t, to, r)
    PROVE  /\ pc' \in [Tabs -> PcValues] /\ call' \in [Tabs -> Calls]
           /\ CallsFit'
BY DEF TypeInv, TypeOK, CallsFit, Moves

LEMMA OwnTokens ==
    ASSUME NEW d \in Devices
    PROVE  ({d} \X Names) \subseteq Tokens
BY DEF Tokens

LEMMA JarToken ==
    ASSUME TypeInv, NEW t \in Tabs
    PROVE  /\ DeviceOf[t] \in Devices
           /\ jar[DeviceOf[t]] \in ({DeviceOf[t]} \X Names) \cup {None}
           /\ jar[DeviceOf[t]] \in Tokens \cup {None}
BY SessionsAssumption, OwnTokens DEF TypeInv, JarsFit, Tokens

LEMMA InitTypeInv == Init => TypeInv
<1> SUFFICES ASSUME Init PROVE TypeInv
    OBVIOUS
<1>1. \E n \in Names : TRUE
    BY SessionsAssumption, FS_EmptySet, FS_CardinalityType
<1>2. JarsFit /\ jar \in [Devices -> Tokens \cup {None}]
    BY <1>1 DEF Init, JarsFit, Tokens
<1>3. rows \in [Tokens -> Rows]
    <2>1. [sid |-> 0, state |-> "valid"] \in Rows
        BY SessionsAssumption DEF Rows, Sids
    <2> QED
        BY <2>1, BlankRow DEF Init
<1>4. CallsFit
    BY NoCallFacts DEF Init, CallsFit, Fits
<1> QED
    BY <1>2, <1>3, <1>4, SessionsAssumption, NoCallFacts
    DEF Init, TypeInv, TypeOK, Sids, PcValues

LEMMA RevokeAllTypes ==
    ASSUME TypeOK
    PROVE  RevokeAll \in [Tokens -> Rows]
BY RowOps DEF TypeOK, RevokeAll

LEMMA StartSessionMoves ==
    ASSUME TypeInv, NEW t \in Tabs, StartSession(t)
    PROVE  /\ logins' = logins + 1 /\ logins' \in Sids /\ session' = logins'
           /\ \E r \in Calls :
                  /\ Moves(t, "insert", r) /\ r.kind = "login" /\ r.token = None
                  /\ r.sid = logins' /\ r.cookie = None
<1>1. logins' = logins + 1 /\ logins' \in Sids /\ session' = logins'
    BY SessionsAssumption DEF StartSession, TypeInv, TypeOK, Sids
<1> DEFINE r == [NoCall EXCEPT !.kind = "login", !.sid = logins']
<1>2. r \in Calls /\ r.kind = "login" /\ r.token = None /\ r.sid = logins'
      /\ r.cookie = None
    BY <1>1, LoginRecord
<1>3. Moves(t, "insert", r)
    BY DEF StartSession, Go, Set, Moves
<1> QED
    BY <1>1, <1>2, <1>3

LEMMA StartSessionTypeInv ==
    ASSUME TypeInv, NEW t \in Tabs, StartSession(t) PROVE TypeInv'
<1>1. PICK r \in Calls :
          /\ Moves(t, "insert", r) /\ r.kind = "login" /\ r.token = None
          /\ r.sid = logins' /\ r.cookie = None
    BY StartSessionMoves
<1>2. Fits(t, "insert", r)
    BY <1>1 DEF Fits
<1>3. /\ pc' \in [Tabs -> PcValues] /\ call' \in [Tabs -> Calls]
      /\ CallsFit'
    BY <1>1, <1>2, MoveTypes DEF PcValues
<1>4. session' \in Sids /\ logins' \in 0..MaxLogins
    BY StartSessionMoves DEF Sids
<1>5. rows' \in [Tokens -> Rows]
    BY RevokeAllTypes DEF StartSession, TypeInv
<1>6. settled' \in [Devices -> Sids \cup {None}]
    BY DEF StartSession, Unsettle, TypeInv, TypeOK
<1>7. UNCHANGED <<active, jar, upsets>>
    BY DEF StartSession
<1> QED
    BY <1>3, <1>4, <1>5, <1>6, <1>7 DEF TypeInv, TypeOK, JarsFit

LEMMA LoginTypeInv ==
    ASSUME TypeInv, NEW t \in Tabs, Login(t) PROVE TypeInv'
<1>1. Moves(t, "session", NoCall)
    BY DEF Login, Go, Set, Moves
<1>2. Fits(t, "session", NoCall)
    BY NoCallFacts DEF Fits
<1>3. /\ pc' \in [Tabs -> PcValues] /\ call' \in [Tabs -> Calls]
      /\ CallsFit'
    BY <1>1, <1>2, NoCallFacts, MoveTypes DEF PcValues
<1>4. UNCHANGED <<session, active, rows, jar, logins, upsets, settled>>
    BY DEF Login, server
<1> QED
    BY <1>3, <1>4 DEF TypeInv, TypeOK, JarsFit

\* What a refresh does when it starts.
LEMMA RefreshMoves ==
    ASSUME TypeInv, NEW t \in Tabs, Refresh(t)
    PROVE  LET x == jar[DeviceOf[t]] IN
           /\ pc[t] = "idle" /\ x # None /\ x \in {DeviceOf[t]} \X Names
           /\ \/ /\ session # 0 /\ rows[x].sid # session
                 /\ \E r \in Calls :
                        /\ Moves(t, "answer", r) /\ r.kind = "refresh" /\ r.token = None
                        /\ r.sid = 0 /\ r.cookie = None
              \/ /\ session = 0 \/ rows[x].sid = session
                 /\ \E r \in Calls :
                        /\ Moves(t, "lookup", r) /\ r.kind = "refresh" /\ r.token = x
                        /\ r.sid = session /\ r.cookie = None
<1> DEFINE x == jar[DeviceOf[t]]
           refresh == [NoCall EXCEPT !.kind = "refresh", !.token = x, !.sid = session]
           refused == [NoCall EXCEPT !.kind = "refresh"]
<1>1. pc[t] = "idle" /\ x # None
    BY DEF Refresh, Idle, At
<1>2. x \in {DeviceOf[t]} \X Names /\ x \in Tokens
    BY <1>1, JarToken
<1>3. /\ refresh \in Calls /\ refresh.kind = "refresh" /\ refresh.token = x
      /\ refresh.sid = session /\ refresh.cookie = None
    <2>1. "refresh" \in Kinds /\ session \in Sids /\ x \in Tokens \cup {None}
        BY <1>2 DEF TypeInv, TypeOK, Kinds
    <2> QED
        BY <2>1, NoCallFacts DEF Calls, Kinds
<1>4. /\ refused \in Calls /\ refused.kind = "refresh" /\ refused.token = None
      /\ refused.sid = 0 /\ refused.cookie = None
    BY RefusedRecord
<1>5. \/ session # 0 /\ rows[x].sid # session /\ Moves(t, "answer", refused)
      \/ (session = 0 \/ rows[x].sid = session) /\ Moves(t, "lookup", refresh)
    BY DEF Refresh, Go, Set, Moves
<1> HIDE DEF refresh, refused
<1> QED
    BY <1>1, <1>2, <1>3, <1>4, <1>5

LEMMA RefreshTypeInv ==
    ASSUME TypeInv, NEW t \in Tabs, Refresh(t) PROVE TypeInv'
<1>1. PICK to \in {"answer", "lookup"}, r \in Calls :
          /\ Moves(t, to, r) /\ r.kind = "refresh" /\ r.cookie = None
          /\ r.token \in ({DeviceOf[t]} \X Names) \cup {None}
          /\ to = "answer" => r.token = None
          /\ to = "lookup" => r.token # None
    BY RefreshMoves
<1>2. Fits(t, to, r)
    BY <1>1 DEF Fits
<1>3. /\ pc' \in [Tabs -> PcValues] /\ call' \in [Tabs -> Calls]
      /\ CallsFit'
    BY <1>1, <1>2, MoveTypes DEF PcValues
<1>4. UNCHANGED <<session, active, rows, jar, logins, upsets, settled>>
    BY DEF Refresh, server
<1> QED
    BY <1>3, <1>4 DEF TypeInv, TypeOK, JarsFit


LEMMA LogoutTypeInv ==
    ASSUME TypeInv, NEW t \in Tabs, Logout(t) PROVE TypeInv'
<1> DEFINE x == jar[DeviceOf[t]]
           r == [NoCall EXCEPT !.kind = "logout", !.token = x]
<1>1. x \in ({DeviceOf[t]} \X Names) \cup {None} /\ x \in Tokens \cup {None}
    BY JarToken
<1>2. /\ r \in Calls /\ r.kind = "logout" /\ r.token = x /\ r.cookie = None
    BY <1>1, LogoutRecord
<1>3. Moves(t, "revoke", r)
    BY DEF Logout, Go, Set, Moves
<1> HIDE DEF r
<1>4. Fits(t, "revoke", r)
    BY <1>1, <1>2 DEF Fits
<1>5. /\ pc' \in [Tabs -> PcValues] /\ call' \in [Tabs -> Calls]
      /\ CallsFit'
    BY <1>2, <1>3, <1>4, MoveTypes DEF PcValues
<1>6. settled' \in [Devices -> Sids \cup {None}]
    BY DEF Logout, Unsettle, TypeInv, TypeOK
<1>7. UNCHANGED <<session, active, rows, jar, logins, upsets>>
    BY DEF Logout, server
<1> QED
    BY <1>5, <1>6, <1>7 DEF TypeInv, TypeOK, JarsFit

\* A look-up clears the cookie, or goes on to the user or the alarm.
LEMMA LookupMoves ==
    ASSUME TypeInv, NEW t \in Tabs, Lookup(t)
    PROVE  LET row == rows[call[t].token] IN
           /\ pc[t] = "lookup"
           /\ \/ /\ row.state = "none"
                 /\ \E r \in Calls :
                        /\ Moves(t, "answer", r) /\ r.kind = "refresh" /\ r.token = None
                        /\ r.sid = 0 /\ r.cookie = None
              \/ /\ row.state # "none"
                 /\ \E r \in Calls, to \in {"alarm", "user"} :
                        /\ to = "alarm" => TRUE \in Alarming(row, call[t].sid)
                        /\ Moves(t, to, r) /\ r.kind = "refresh"
                        /\ r.token = call[t].token /\ r.sid = 0 /\ r.cookie = None
<1> DEFINE row == rows[call[t].token]
           found == [call[t] EXCEPT !.sid = 0]
<1>1. pc[t] = "lookup" /\ call[t] \in Calls /\ call[t].kind = "refresh"
      /\ call[t].token # None /\ call[t].cookie = None
    BY DEF Lookup, At, TypeInv, TypeOK, CallsFit, Fits
<1>2. CASE row.state = "none"
    BY <1>1, <1>2, ClearMoves DEF Lookup, TypeInv
<1>3. CASE row.state # "none"
    <2>1. /\ found \in Calls /\ found.kind = "refresh" /\ found.token = call[t].token
          /\ found.sid = 0 /\ found.cookie = None
        BY <1>1, SessionsAssumption DEF Calls, Sids
    <2>2. PICK alarm \in Alarming(row, call[t].sid) :
              Go(t, IF alarm THEN "alarm" ELSE "user")
        BY <1>3 DEF Lookup
    <2>3. Set(t, found)
        BY <1>3 DEF Lookup
    <2>4. alarm \in BOOLEAN
        BY <2>2 DEF Alarming
    <2> HIDE DEF found
    <2>5. CASE alarm = TRUE
        <3>1. Moves(t, "alarm", found)
            BY <2>2, <2>3, <2>5 DEF Go, Set, Moves
        <3>2. TRUE \in Alarming(row, call[t].sid)
            BY <2>2, <2>5
        <3> QED
            BY <1>1, <1>3, <2>1, <3>1, <3>2
    <2>6. CASE alarm = FALSE
        <3>1. Moves(t, "user", found)
            BY <2>2, <2>3, <2>6 DEF Go, Set, Moves
        <3> QED
            BY <1>1, <1>3, <2>1, <3>1
    <2> QED
        BY <2>4, <2>5, <2>6
<1> QED
    BY <1>2, <1>3

LEMMA LookupTypeInv ==
    ASSUME TypeInv, NEW t \in Tabs, Lookup(t) PROVE TypeInv'
<1>1. PICK to \in {"answer", "alarm", "user"}, r \in Calls :
          /\ Moves(t, to, r) /\ r.kind = "refresh" /\ r.cookie = None /\ r.sid = 0
          /\ to = "answer" => r.token = None
          /\ to # "answer" => r.token = call[t].token
    BY LookupMoves
<1>2. call[t].token \in {DeviceOf[t]} \X Names /\ call[t].token # None
    BY LookupMoves DEF TypeInv, CallsFit, Fits
<1>3. Fits(t, to, r)
    BY <1>1, <1>2 DEF Fits
<1>4. /\ pc' \in [Tabs -> PcValues] /\ call' \in [Tabs -> Calls]
      /\ CallsFit'
    BY <1>1, <1>3, MoveTypes DEF PcValues
<1>5. UNCHANGED <<session, active, rows, jar, logins, upsets, settled>>
    BY DEF Lookup, server
<1> QED
    BY <1>4, <1>5 DEF TypeInv, TypeOK, JarsFit

----------------------------------------------------------------------------
(* The answers.                                                            *)

\* An answer that sets a cookie of the tab's device or none.
LEMMA GrantTypes ==
    ASSUME TypeInv, NEW t \in Tabs, NEW x \in {DeviceOf[t]} \X Names, Grant(t, x)
    PROVE  /\ pc' \in [Tabs -> PcValues] /\ call' \in [Tabs -> Calls]
           /\ CallsFit'
<1>1. DeviceOf[t] \in Devices
    BY SessionsAssumption
<1>2. x \in Tokens /\ x # None
    BY <1>1, SessionsAssumption DEF Tokens
<1>3. PICK r \in Calls :
          /\ Moves(t, "answer", r) /\ r.token = None /\ r.cookie = x
    BY <1>2, GrantMoves DEF TypeInv
<1>4. Fits(t, "answer", r)
    BY <1>2, <1>3 DEF Fits
<1> QED
    BY <1>3, <1>4, MoveTypes DEF PcValues

LEMMA ClearTypes ==
    ASSUME TypeInv, NEW t \in Tabs, Clear(t), call[t].kind # "login"
    PROVE  /\ pc' \in [Tabs -> PcValues] /\ call' \in [Tabs -> Calls]
           /\ CallsFit'
<1>1. PICK r \in Calls :
          /\ Moves(t, "answer", r) /\ r.token = None /\ r.cookie = None
          /\ r.kind = call[t].kind
    BY ClearMoves DEF TypeInv
<1>2. Fits(t, "answer", r)
    BY <1>1 DEF Fits
<1> QED
    BY <1>1, <1>2, MoveTypes DEF PcValues

LEMMA ValidRow ==
    ASSUME NEW s \in Sids
    PROVE  LET row == [sid |-> s, state |-> "valid"] IN
           row \in Rows /\ row.sid = s /\ row.state = "valid"
BY DEF Rows

\* The token a step issues, and the row it gets.
Issues(t, s) ==
    \E x \in {DeviceOf[t]} \X Names, row \in Rows :
        /\ x \notin Held(jar, call) /\ x \in Tokens /\ x # None
        /\ row.sid = s /\ row.state = "valid"
        /\ Grant(t, x)
        /\ rows' \in [Tokens -> Rows] /\ rows'[x] = row
        /\ \A y \in Tokens \ {x} :
               /\ rows'[y].sid = rows[y].sid
               /\ rows'[y].state = "none" <=> rows[y].state = "none"

LEMMA IssueIssues ==
    ASSUME TypeInv, NEW t \in Tabs, IssueRefreshToken(t)
    PROVE  Issues(t, call[t].sid)
<1> DEFINE x == NewToken(t)
           row == [sid |-> call[t].sid, state |-> "valid"]
<1>1. pc[t] = "insert" /\ DeviceOf[t] \in Devices /\ call[t].sid \in Sids
    BY SessionsAssumption DEF IssueRefreshToken, At, TypeInv, TypeOK, Calls
<1>2. x \in {DeviceOf[t]} \X Names /\ x \notin Held(jar, call)
    BY <1>1, NewTokenIsFresh
<1>3. x \in Tokens /\ x # None
    BY <1>1, <1>2, SessionsAssumption DEF Tokens
<1>4. row \in Rows /\ row.sid = call[t].sid /\ row.state = "valid"
    BY <1>1, ValidRow
<1>5. rows' = [rows EXCEPT ![x] = row] /\ Grant(t, x)
    BY DEF IssueRefreshToken
<1> HIDE DEF row, x
<1>6. /\ rows' \in [Tokens -> Rows] /\ rows'[x] = row
      /\ \A y \in Tokens \ {x} : rows'[y] = rows[y]
    BY <1>3, <1>4, <1>5 DEF TypeInv, TypeOK
<1> QED
    BY <1>2, <1>3, <1>4, <1>5, <1>6 DEF Issues

LEMMA HoldsToken ==
    ASSUME NEW t \in Tabs, call[t].token # None
    PROVE  call[t].token \in Held(jar, call)
BY DEF Held

LEMMA RotateIssues ==
    ASSUME TypeInv, NEW t \in Tabs, Rotate(t)
    PROVE  Issues(t, rows[call[t].token].sid)
<1> DEFINE x == NewToken(t)
           old == call[t].token
           row == [sid |-> rows[old].sid, state |-> "valid"]
<1>1. pc[t] = "rotate" /\ DeviceOf[t] \in Devices
    BY SessionsAssumption DEF Rotate, At
<1>2. x \in {DeviceOf[t]} \X Names /\ x \notin Held(jar, call)
    BY <1>1, NewTokenIsFresh
<1>3. x \in Tokens /\ x # None
    BY <1>1, <1>2, SessionsAssumption DEF Tokens
<1>4. old # None /\ old \in {DeviceOf[t]} \X Names
    BY <1>1 DEF TypeInv, CallsFit, Fits
<1>5. old \in Tokens /\ old # x
    BY <1>1, <1>2, <1>4, HoldsToken DEF Tokens
<1>6. rows[old] \in Rows /\ rows[old].sid \in Sids
    BY <1>5 DEF TypeInv, TypeOK, Rows
<1>7. row \in Rows /\ row.sid = rows[old].sid /\ row.state = "valid"
    BY <1>6, ValidRow
<1>8. rows' = [rows EXCEPT ![old] = Rotated(rows[old]), ![x] = row] /\ Grant(t, x)
    BY DEF Rotate
<1> HIDE DEF row, x
<1>9. /\ Rotated(rows[old]) \in Rows /\ Rotated(rows[old]).sid = rows[old].sid
      /\ Rotated(rows[old]).state = "none" <=> rows[old].state = "none"
    BY <1>6, RowOps
<1>10. /\ rows' \in [Tokens -> Rows] /\ rows'[x] = row
       /\ rows'[old] = Rotated(rows[old])
       /\ \A y \in Tokens \ {x, old} : rows'[y] = rows[y]
    BY <1>3, <1>5, <1>7, <1>8, <1>9 DEF TypeInv, TypeOK
<1> QED
    BY <1>2, <1>3, <1>7, <1>8, <1>9, <1>10 DEF Issues


LEMMA IssuesTypeInv ==
    ASSUME TypeInv, NEW t \in Tabs, NEW s \in Sids, Issues(t, s),
           UNCHANGED <<session, active, jar, logins, upsets, settled>>
    PROVE  TypeInv'
<1>1. /\ rows' \in [Tokens -> Rows]
      /\ pc' \in [Tabs -> PcValues] /\ call' \in [Tabs -> Calls]
      /\ CallsFit'
    BY GrantTypes DEF Issues
<1> QED
    BY <1>1 DEF TypeInv, TypeOK, JarsFit

LEMMA IssueTypeInv ==
    ASSUME TypeInv, NEW t \in Tabs, IssueRefreshToken(t) PROVE TypeInv'
<1>1. call[t].sid \in Sids
    BY DEF TypeInv, TypeOK, Calls
<1>2. UNCHANGED <<session, active, jar, logins, upsets, settled>>
    BY DEF IssueRefreshToken
<1> QED
    BY <1>1, <1>2, IssueIssues, IssuesTypeInv

LEMMA RotateToken ==
    ASSUME TypeInv, NEW t \in Tabs, pc[t] \in {"lookup", "user", "rotate", "alarm"}
    PROVE  /\ call[t].token \in {DeviceOf[t]} \X Names /\ call[t].token \in Tokens
           /\ call[t].token # None /\ call[t].token \in Held(jar, call)
           /\ rows[call[t].token] \in Rows /\ rows[call[t].token].sid \in Sids
           /\ call[t].kind = "refresh" /\ (pc[t] # "lookup" => call[t].sid = 0)
<1>1. /\ call[t].token \in {DeviceOf[t]} \X Names /\ call[t].token # None
      /\ call[t].kind = "refresh" /\ (pc[t] # "lookup" => call[t].sid = 0)
    BY DEF TypeInv, CallsFit, Fits
<1>2. call[t].token \in Tokens
    BY <1>1, SessionsAssumption DEF Tokens
<1>3. call[t].token \in Held(jar, call)
    BY <1>1, HoldsToken
<1> QED
    BY <1>1, <1>2, <1>3 DEF TypeInv, TypeOK, Rows

\* The user's check goes on to the rotation, or turns the refresh down.
LEMMA CheckUserMoves ==
    ASSUME TypeInv, NEW t \in Tabs, CheckUser(t)
    PROVE  /\ pc[t] = "user"
           /\ active => Moves(t, "rotate", call[t])
           /\ ~active => \E r \in Calls :
                  /\ Moves(t, "answer", r) /\ r.kind = "refresh" /\ r.token = None
                  /\ r.sid = 0 /\ r.cookie = None
<1>1. pc[t] = "user" /\ call[t].kind = "refresh"
    BY RotateToken DEF CheckUser, At
<1>2. active => Moves(t, "rotate", call[t])
    BY DEF CheckUser, Go, Moves, TypeInv, TypeOK
<1>3. ~active => Clear(t)
    BY DEF CheckUser
<1> QED
    BY <1>1, <1>2, <1>3, ClearMoves DEF TypeInv

LEMMA CheckUserTypeInv ==
    ASSUME TypeInv, NEW t \in Tabs, CheckUser(t) PROVE TypeInv'
<1>1. pc[t] = "user" /\ call[t].kind = "refresh" /\ call[t] \in Calls
    BY CheckUserMoves, RotateToken DEF TypeInv, TypeOK
<1>2. Fits(t, "rotate", call[t])
    BY <1>1 DEF Fits, TypeInv, CallsFit
<1>3. /\ pc' \in [Tabs -> PcValues] /\ call' \in [Tabs -> Calls]
      /\ CallsFit'
    <2>1. CASE active
        BY <1>1, <1>2, <2>1, CheckUserMoves, MoveTypes DEF PcValues
    <2>2. CASE ~active
        BY <1>1, <2>2, ClearTypes DEF CheckUser
    <2> QED
        BY <2>1, <2>2
<1>4. UNCHANGED <<session, active, rows, jar, logins, upsets, settled>>
    BY DEF CheckUser, server
<1> QED
    BY <1>3, <1>4 DEF TypeInv, TypeOK, JarsFit

LEMMA RotateTypeInv ==
    ASSUME TypeInv, NEW t \in Tabs, Rotate(t) PROVE TypeInv'
<1>1. rows[call[t].token].sid \in Sids
    BY RotateToken DEF Rotate, At
<1>2. UNCHANGED <<session, active, jar, logins, upsets, settled>>
    BY DEF Rotate
<1> QED
    BY <1>1, <1>2, RotateIssues, IssuesTypeInv

LEMMA AlarmTypeInv ==
    ASSUME TypeInv, NEW t \in Tabs, Alarm(t) PROVE TypeInv'
<1>1. call[t].kind = "refresh"
    BY RotateToken DEF Alarm, At
<1>2. /\ pc' \in [Tabs -> PcValues] /\ call' \in [Tabs -> Calls]
      /\ CallsFit'
    BY <1>1, ClearTypes DEF Alarm
<1>3. rows' \in [Tokens -> Rows]
    BY RowOps DEF Alarm, TypeInv, TypeOK
<1> QED
    BY <1>2, <1>3 DEF Alarm, TypeInv, TypeOK, JarsFit

\* Every upset is counted.
LEMMA UpsetTypes ==
    ASSUME TypeInv, Upset
    PROVE  upsets' \in 0..MaxUpsets
BY SessionsAssumption DEF TypeInv, TypeOK, Upset

LEMMA AnswerWithoutCommitTypeInv ==
    ASSUME TypeInv, NEW t \in Tabs, AnswerWithoutCommit(t) PROVE TypeInv'
<1>1. NewToken(t) \in {DeviceOf[t]} \X Names
    BY NewTokenIsFresh DEF AnswerWithoutCommit, At
<1>2. /\ pc' \in [Tabs -> PcValues] /\ call' \in [Tabs -> Calls]
      /\ CallsFit'
    BY <1>1, GrantTypes DEF AnswerWithoutCommit
<1>3. upsets' \in 0..MaxUpsets
    BY UpsetTypes DEF AnswerWithoutCommit
<1>4. settled' \in [Devices -> Sids \cup {None}]
    BY DEF AnswerWithoutCommit, Unsettle, TypeInv, TypeOK
<1>5. UNCHANGED <<session, active, rows, jar, logins>>
    BY DEF AnswerWithoutCommit, server
<1> QED
    BY <1>2, <1>3, <1>4, <1>5 DEF TypeInv, TypeOK, JarsFit

LEMMA RevokeRows ==
    ASSUME TypeInv, NEW t \in Tabs, Revoke(t)
    PROVE  /\ rows' \in [Tokens -> Rows]
           /\ \A x \in Tokens :
                  /\ rows'[x].sid = rows[x].sid
                  /\ rows'[x].state = "none" <=> rows[x].state = "none"
<1> DEFINE old == call[t].token
<1>1. CASE old = None
    BY <1>1 DEF Revoke, TypeInv, TypeOK
<1>2. CASE old # None
    <2>1. old \in Tokens
        BY <1>2, JarToken, OwnTokens DEF TypeInv, CallsFit, Fits
    <2>2. rows' = [rows EXCEPT ![old] = Revoked(rows[old])]
        BY <1>2 DEF Revoke
    <2>3. \A x \in Tokens : rows[x] \in Rows
        BY DEF TypeInv, TypeOK
    <2>4. /\ Revoked(rows[old]) \in Rows /\ Revoked(rows[old]).sid = rows[old].sid
          /\ Revoked(rows[old]).state = "none" <=> rows[old].state = "none"
        BY <2>1, <2>3, RowOps
    <2> QED
        BY <2>1, <2>2, <2>4 DEF TypeInv, TypeOK
<1> QED
    BY <1>1, <1>2

LEMMA RevokeTypeInv ==
    ASSUME TypeInv, NEW t \in Tabs, Revoke(t) PROVE TypeInv'
<1>1. call[t].kind # "login"
    BY DEF Revoke, At, TypeInv, CallsFit, Fits
<1>2. /\ pc' \in [Tabs -> PcValues] /\ call' \in [Tabs -> Calls]
      /\ CallsFit'
    BY <1>1, ClearTypes DEF Revoke
<1>3. rows' \in [Tokens -> Rows]
    BY RevokeRows
<1> QED
    BY <1>2, <1>3 DEF Revoke, TypeInv, TypeOK, JarsFit

\* A call that ends: only tokens nobody holds any more are blanked.
LEMMA DoneFacts ==
    ASSUME TypeInv, NEW t \in Tabs, Done(t)
    PROVE  /\ Moves(t, "idle", NoCall)
           /\ pc' \in [Tabs -> PcValues] /\ call' \in [Tabs -> Calls]
           /\ CallsFit'
           /\ rows' \in [Tokens -> Rows]
           /\ \A x \in Tokens : rows'[x] = rows[x] \/ rows'[x] = Blank
           /\ \A x \in Tokens : x \in Held(jar', call') => rows'[x] = rows[x]
<1>1. Moves(t, "idle", NoCall)
    BY DEF Done, Go, Set, Moves
<1>2. Fits(t, "idle", NoCall)
    BY NoCallFacts DEF Fits
<1>3. /\ pc' \in [Tabs -> PcValues] /\ call' \in [Tabs -> Calls]
      /\ CallsFit'
    BY <1>1, <1>2, NoCallFacts, MoveTypes DEF PcValues
<1>4. rows' = [x \in Tokens |-> IF x \in Held(jar', call') THEN rows[x] ELSE Blank]
    BY DEF Done
<1>5. rows' \in [Tokens -> Rows]
    BY <1>4, BlankRow DEF TypeInv, TypeOK
<1> QED
    BY <1>1, <1>3, <1>4, <1>5

\* The browser takes the cookie of an answer for its own device.
LEMMA DeliverTypeInv ==
    ASSUME TypeInv, NEW t \in Tabs, Deliver(t) PROVE TypeInv'
<1> DEFINE d == DeviceOf[t]
           c == call[t]
<1>1. d \in Devices
    BY JarToken
<1>2. c.cookie \in ({d} \X Names) \cup {None} /\ c.cookie \in Tokens \cup {None}
    BY <1>1, OwnTokens DEF TypeInv, CallsFit, Fits
<1>3. jar' = [jar EXCEPT ![d] = c.cookie]
    BY DEF Deliver
<1> HIDE DEF d
<1>4. jar' \in [Devices -> Tokens \cup {None}] /\ JarsFit'
    BY <1>1, <1>2, <1>3 DEF TypeInv, TypeOK, JarsFit
<1>5. settled' \in [Devices -> Sids \cup {None}]
    <2>1. CASE c.kind = "login"
        <3>1. c.cookie # None
            BY <2>1 DEF Deliver, At, TypeInv, CallsFit, Fits
        <3>2. rows[c.cookie].sid \in Sids
            BY <1>2, <3>1 DEF TypeInv, TypeOK, Rows
        <3> QED
            BY <1>1, <3>2 DEF Deliver, TypeInv, TypeOK, d
    <2>2. CASE c.kind # "login"
        BY <2>2 DEF Deliver, TypeInv, TypeOK
    <2> QED
        BY <2>1, <2>2
<1>6. /\ rows' \in [Tokens -> Rows]
      /\ pc' \in [Tabs -> PcValues] /\ call' \in [Tabs -> Calls]
      /\ CallsFit'
    BY DoneFacts DEF Deliver
<1>7. UNCHANGED <<session, active, logins, upsets>>
    BY DEF Deliver, Done
<1> QED
    BY <1>4, <1>5, <1>6, <1>7 DEF TypeInv, TypeOK

LEMMA LoseTypeInv ==
    ASSUME TypeInv, NEW t \in Tabs, Lose(t) PROVE TypeInv'
<1>1. /\ rows' \in [Tokens -> Rows]
      /\ pc' \in [Tabs -> PcValues] /\ call' \in [Tabs -> Calls]
      /\ CallsFit'
    BY DoneFacts DEF Lose
<1>2. upsets' \in 0..MaxUpsets
    BY UpsetTypes DEF Lose
<1>3. UNCHANGED <<session, active, jar, logins, settled>>
    BY DEF Lose, Done
<1> QED
    BY <1>1, <1>2, <1>3 DEF TypeInv, TypeOK, JarsFit

LEMMA VanishRows ==
    ASSUME TypeInv, NEW gone, Vanish(gone)
    PROVE  /\ rows' \in [Tokens -> Rows]
           /\ \A x \in Tokens : rows'[x].sid = rows[x].sid
           /\ \A x \in Tokens \ gone : rows'[x] = rows[x]
<1>1. \A x \in Tokens : rows[x] \in Rows
    BY DEF TypeInv, TypeOK
<1>2. ASSUME NEW r \in Rows
      PROVE  [r EXCEPT !.state = "none"] \in Rows /\ [r EXCEPT !.state = "none"].sid = r.sid
    BY DEF Rows
<1>3. rows' = [x \in Tokens |-> IF x \in gone THEN [rows[x] EXCEPT !.state = "none"]
                                ELSE rows[x]]
    BY DEF Vanish
<1> QED
    BY <1>1, <1>2, <1>3

\* A purge or an expiry.
Vanishing == \E gone : Vanish(gone)

\* The steps that are not those of a call.
Around == ResetPassword \/ Deactivate \/ Reactivate \/ Vanishing

LEMMA NextSteps ==
    ASSUME Next
    PROVE  \/ \E t \in Tabs :
                  \/ Login(t) \/ StartSession(t) \/ Refresh(t) \/ Logout(t)
                  \/ Handle(t) \/ AnswerWithoutCommit(t) \/ Lose(t)
           \/ Around
BY DEF Next, Around, Vanishing, Purge, Expire

LEMMA AroundTypeInv ==
    ASSUME TypeInv, Around PROVE TypeInv'
<1>1. RevokeAll \in [Tokens -> Rows]
    BY RevokeAllTypes DEF TypeInv
<1>2. CASE ResetPassword
    <2>1. upsets' \in 0..MaxUpsets
        BY <1>2, UpsetTypes DEF ResetPassword
    <2> QED
        BY <1>1, <1>2, <2>1 DEF ResetPassword, TypeInv, TypeOK, CallsFit, JarsFit
<1>3. CASE Vanishing
    <2>1. PICK gone : Vanish(gone)
        BY <1>3 DEF Vanishing
    <2>2. settled' \in [Devices -> Sids \cup {None}]
        BY <2>1 DEF Vanish, TypeInv, TypeOK
    <2>3. rows' \in [Tokens -> Rows]
        BY <2>1, VanishRows
    <2>4. upsets' \in 0..MaxUpsets
        BY <2>1, UpsetTypes DEF Vanish
    <2>5. UNCHANGED <<session, active, jar, pc, call, logins>>
        BY <2>1 DEF Vanish
    <2> QED
        BY <2>2, <2>3, <2>4, <2>5 DEF TypeInv, TypeOK, CallsFit, JarsFit
<1>4. CASE Deactivate
    <2>1. settled' \in [Devices -> Sids \cup {None}]
        BY <1>4 DEF Deactivate
    <2>2. rows' \in [Tokens -> Rows]
        BY <1>1, <1>4 DEF Deactivate, TypeInv, TypeOK
    <2>3. upsets' \in 0..MaxUpsets
        BY <1>4, UpsetTypes DEF Deactivate
    <2>4. active' \in BOOLEAN /\ UNCHANGED <<session, jar, pc, call, logins>>
        BY <1>4 DEF Deactivate
    <2> QED
        BY <2>1, <2>2, <2>3, <2>4 DEF TypeInv, TypeOK, CallsFit, JarsFit
<1>5. CASE Reactivate
    BY <1>5 DEF Reactivate, TypeInv, TypeOK, CallsFit, JarsFit
<1> QED
    BY <1>2, <1>3, <1>4, <1>5 DEF Around

LEMMA NextTypeInv == TypeInv /\ [Next]_vars => TypeInv'
<1> SUFFICES ASSUME TypeInv, [Next]_vars PROVE TypeInv'
    OBVIOUS
<1>1. CASE UNCHANGED vars
    BY <1>1 DEF vars, server, TypeInv, TypeOK, CallsFit, JarsFit
<1>2. CASE Next
    BY <1>2, NextSteps, LoginTypeInv, StartSessionTypeInv, RefreshTypeInv,
       LogoutTypeInv, IssueTypeInv, LookupTypeInv, AlarmTypeInv, CheckUserTypeInv,
       RotateTypeInv, RevokeTypeInv, DeliverTypeInv, AnswerWithoutCommitTypeInv,
       LoseTypeInv, AroundTypeInv
    DEF Handle
<1> QED
    BY <1>1, <1>2

LEMMA TypeInvHolds == Spec => []TypeInv
BY InitTypeInv, NextTypeInv, PTL DEF Spec

\* Every variable keeps its type, and a fresh token is always found: a tab
\* holds at most one token at a time, so the names never run out.
THEOREM TypeCorrect == Spec => []TypeOK
BY TypeInvHolds, PTL DEF TypeInv

----------------------------------------------------------------------------
(* What a step of a call does to the other rows and calls.                 *)

\* The steps of a call but StartSession, which begins a session.
CallSteps(t) ==
    \/ Login(t) \/ Refresh(t) \/ Logout(t) \/ Handle(t)
    \/ AnswerWithoutCommit(t) \/ Lose(t)

LEMMA StepKinds ==
    ASSUME Next
    PROVE  (\E t \in Tabs : CallSteps(t) \/ StartSession(t)) \/ Around
BY NextSteps DEF CallSteps

\* Of such a step: no call begins to log in, and the one that moves carries
\* no session or the current one.
LEMMA CallStep ==
    ASSUME TypeInv, NEW t \in Tabs, CallSteps(t)
    PROVE  /\ session' = session /\ active' = active /\ logins' = logins
           /\ \E to \in PcValues \ {"insert"}, r \in Calls :
                  /\ Moves(t, to, r) /\ r.sid \in {0, session}
                  /\ r.kind = "login" => call[t].kind = "login"
<1>1. CASE Refresh(t)
    BY <1>1, RefreshMoves DEF Refresh, server, PcValues
<1>2. CASE Logout(t)
    <2> DEFINE x == jar[DeviceOf[t]]
               r == [NoCall EXCEPT !.kind = "logout", !.token = x]
    <2>1. r \in Calls /\ r.kind = "logout" /\ r.sid = 0
        BY JarToken, LogoutRecord
    <2>2. Moves(t, "revoke", r)
        BY <1>2 DEF Logout, Go, Set, Moves
    <2> QED
        BY <1>2, <2>1, <2>2 DEF Logout, server, PcValues
<1>3. ASSUME NEW x \in Tokens \cup {None}, Grant(t, x) \/ Clear(t)
      PROVE  \E r \in Calls :
                 /\ Moves(t, "answer", r) /\ r.sid \in {0, session}
                 /\ r.kind = "login" => call[t].kind = "login"
    BY <1>3, GrantMoves, ClearMoves DEF TypeInv
<1>4. CASE IssueRefreshToken(t)
    BY <1>3, <1>4, IssueIssues DEF Issues, IssueRefreshToken, PcValues
<1>5. CASE Lookup(t)
    BY <1>5, LookupMoves DEF Lookup, server, PcValues
<1>6. CASE Alarm(t)
    BY <1>3, <1>6 DEF Alarm, PcValues
<1>7. CASE Rotate(t)
    BY <1>3, <1>7, RotateIssues DEF Issues, Rotate, PcValues
<1>8. CASE Revoke(t)
    BY <1>3, <1>8 DEF Revoke, PcValues
<1>9. CASE Done(t)
    BY <1>9, DoneFacts, NoCallFacts DEF Done, PcValues
<1>10. CASE AnswerWithoutCommit(t)
    <2>1. NewToken(t) \in Tokens
        BY <1>10, JarToken, OwnTokens, NewTokenIsFresh DEF AnswerWithoutCommit, At
    <2> QED
        BY <1>3, <1>10, <2>1 DEF AnswerWithoutCommit, server, PcValues
<1>11. CASE Login(t)
    <2>1. Moves(t, "session", NoCall)
        BY <1>11 DEF Login, Go, Set, Moves
    <2> QED
        BY <1>11, <2>1, NoCallFacts DEF Login, server, PcValues
<1>12. CASE CheckUser(t)
    <2>1. call[t] \in Calls /\ call[t].sid = 0
        BY <1>12, RotateToken DEF CheckUser, At, TypeInv, TypeOK
    <2>2. \E to \in {"rotate", "answer"}, r \in Calls :
              Moves(t, to, r) /\ r.sid = 0 /\ (r.kind = "login" => call[t].kind = "login")
        <3>1. CASE active
            BY <1>12, <2>1, <3>1, CheckUserMoves
        <3>2. CASE ~active
            BY <1>12, <3>2, CheckUserMoves
        <3> QED
            BY <3>1, <3>2
    <2> QED
        BY <1>12, <2>2 DEF CheckUser, server, PcValues
<1> QED
    BY <1>1, <1>2, <1>4, <1>5, <1>6, <1>7, <1>8, <1>9, <1>10, <1>11, <1>12
    DEF CallSteps, Handle, Deliver, Lose

\* The steps of a call that leave every row its session.
LEMMA QuietRows ==
    ASSUME TypeInv, NEW t \in Tabs,
           \/ Login(t) \/ StartSession(t) \/ Refresh(t) \/ Logout(t) \/ Lookup(t)
           \/ Alarm(t) \/ CheckUser(t) \/ Revoke(t) \/ AnswerWithoutCommit(t)
    PROVE  \A x \in Tokens :
               /\ rows'[x].sid = rows[x].sid
               /\ rows'[x].state = "none" <=> rows[x].state = "none"
<1>1. \A x \in Tokens : rows[x] \in Rows
    BY DEF TypeInv, TypeOK
<1>2. CASE rows' = RevokeAll
    BY <1>1, <1>2, RowOps DEF RevokeAll
<1>3. CASE Alarm(t)
    BY <1>1, <1>3, RowOps DEF Alarm
<1>4. CASE Revoke(t)
    BY <1>4, RevokeRows
<1> QED
    BY <1>2, <1>3, <1>4
    DEF Login, StartSession, Refresh, Logout, Lookup, CheckUser, AnswerWithoutCommit,
        server

LEMMA QuietRowsAround ==
    ASSUME TypeInv, ResetPassword \/ Deactivate \/ Reactivate
    PROVE  \A x \in Tokens :
               /\ rows'[x].sid = rows[x].sid
               /\ rows'[x].state = "none" <=> rows[x].state = "none"
<1>1. \A x \in Tokens : rows[x] \in Rows
    BY DEF TypeInv, TypeOK
<1>2. CASE rows' = RevokeAll
    BY <1>1, <1>2, RowOps DEF RevokeAll
<1> QED
    BY <1>2 DEF ResetPassword, Deactivate, Reactivate

LEMMA IssuesRow ==
    ASSUME NEW t \in Tabs, NEW s, Issues(t, s), NEW x \in Tokens
    PROVE  \/ rows'[x].sid = rows[x].sid
           \/ x[1] = DeviceOf[t] /\ rows'[x].sid = s
<1>1. PICK y \in {DeviceOf[t]} \X Names, row \in Rows :
          /\ row.sid = s /\ rows'[y] = row
          /\ \A z \in Tokens \ {y} : rows'[z].sid = rows[z].sid
    BY DEF Issues
<1>2. y[1] = DeviceOf[t]
    OBVIOUS
<1> QED
    BY <1>1, <1>2

\* A row's session comes from the row itself, or from the login that issues
\* the token, or from another token of the device.
LEMMA RowStep ==
    ASSUME TypeInv, NEW t \in Tabs, CallSteps(t), NEW x \in Tokens
    PROVE  \/ rows'[x].sid \in {0, rows[x].sid}
           \/ /\ x[1] = DeviceOf[t]
              /\ pc[t] = "insert" /\ rows'[x].sid = call[t].sid
           \/ /\ x[1] = DeviceOf[t]
              /\ \E y \in Tokens : y[1] = DeviceOf[t] /\ rows'[x].sid = rows[y].sid
<1>1. CASE IssueRefreshToken(t)
    <2>1. pc[t] = "insert"
        BY <1>1 DEF IssueRefreshToken, At
    <2> QED
        BY <1>1, <2>1, IssueIssues, IssuesRow
<1>2. CASE Rotate(t)
    <2> DEFINE old == call[t].token
    <2>1. old \in Tokens /\ old[1] = DeviceOf[t]
        BY <1>2, RotateToken DEF Rotate, At
    <2>2. rows'[x].sid = rows[x].sid \/ (x[1] = DeviceOf[t] /\ rows'[x].sid = rows[old].sid)
        BY <1>2, RotateIssues, IssuesRow
    <2> QED
        BY <2>1, <2>2
<1>3. CASE Done(t)
    BY <1>3, DoneFacts, BlankRow
<1> QED
    BY <1>1, <1>2, <1>3, QuietRows DEF CallSteps, Handle, Deliver, Lose

\* A token that stays held keeps its session, and its row if it has one.
LEMMA KeptStep ==
    ASSUME TypeInv, NEW t \in Tabs, CallSteps(t) \/ StartSession(t),
           NEW x \in Tokens, x \in Held(jar, call), x \in Held(jar', call')
    PROVE  /\ rows'[x].sid = rows[x].sid
           /\ rows'[x].state = "none" <=> rows[x].state = "none"
<1>1. CASE IssueRefreshToken(t)
    BY <1>1, IssueIssues DEF Issues
<1>2. CASE Rotate(t)
    BY <1>2, RotateIssues DEF Issues
<1>3. CASE Done(t)
    BY <1>3, DoneFacts
<1> QED
    BY <1>1, <1>2, <1>3, QuietRows DEF CallSteps, Handle, Deliver, Lose

----------------------------------------------------------------------------
(* Sessions are numbered by the logins.                                    *)

SidsKnown ==
    /\ session = logins
    /\ \A x \in Tokens : rows[x].sid <= session
    /\ \A t \in Tabs :
           /\ call[t].sid <= session
           /\ pc[t] = "insert" => call[t].sid # 0
           /\ call[t].kind = "login" => session # 0
    /\ \A d \in Devices : settled[d] # None => settled[d] <= session

LEMMA InitSidsKnown == Init => SidsKnown
BY SessionsAssumption, NoCallFacts, BlankRow DEF Init, SidsKnown

LEMMA StartSessionSidsKnown ==
    ASSUME TypeInv, SidsKnown, NEW t \in Tabs, StartSession(t) PROVE SidsKnown'
<1>1. /\ session' = logins' /\ session' = session + 1 /\ session \in Nat
      /\ session' # 0
    BY StartSessionMoves DEF SidsKnown, TypeInv, TypeOK
<1>2. ASSUME NEW x \in Tokens PROVE rows'[x].sid <= session'
    <2>1. rows'[x].sid = rows[x].sid
        BY QuietRows
    <2>2. rows[x].sid \in Nat /\ rows[x].sid <= session
        BY SessionsAssumption DEF SidsKnown, TypeInv, TypeOK, Rows, Sids
    <2> QED
        BY <1>1, <2>1, <2>2
<1>3. PICK r \in Calls :
          /\ Moves(t, "insert", r) /\ r.kind = "login" /\ r.sid = logins'
    BY StartSessionMoves
<1>4. ASSUME NEW u \in Tabs
      PROVE  /\ call'[u].sid <= session'
             /\ pc'[u] = "insert" => call'[u].sid # 0
             /\ call'[u].kind = "login" => session' # 0
    <2>1. CASE u = t
        BY <1>1, <1>3, <2>1 DEF Moves, TypeInv, TypeOK
    <2>2. CASE u # t
        <3>1. pc'[u] = pc[u] /\ call'[u] = call[u]
            BY <1>3, <2>2 DEF Moves, TypeInv, TypeOK
        <3>2. call[u].sid \in Nat /\ call[u].sid <= session
            BY SessionsAssumption DEF SidsKnown, TypeInv, TypeOK, Calls, Sids
        <3> QED
            BY <1>1, <3>1, <3>2 DEF SidsKnown
    <2> QED
        BY <2>1, <2>2
<1>5. ASSUME NEW d \in Devices, settled'[d] # None PROVE settled'[d] <= session'
    <2>1. settled'[d] = settled[d]
        BY <1>5 DEF StartSession, Unsettle, TypeInv, TypeOK
    <2>2. settled[d] \in Nat /\ settled[d] <= session
        BY <1>5, <2>1, SessionsAssumption DEF SidsKnown, TypeInv, TypeOK, Sids
    <2> QED
        BY <1>1, <2>1, <2>2
<1> QED
    BY <1>1, <1>2, <1>4, <1>5 DEF SidsKnown

LEMMA SettledStep ==
    ASSUME TypeInv, NEW t \in Tabs, CallSteps(t), NEW d \in Devices
    PROVE  \/ settled'[d] \in {None, settled[d]}
           \/ /\ d = DeviceOf[t] /\ Deliver(t) /\ call[t].kind = "login"
              /\ call[t].cookie \in Tokens
              /\ Alone(t) /\ active
              /\ rows[call[t].cookie].state # "none"
              /\ settled'[d] = rows[call[t].cookie].sid
<1>1. CASE Deliver(t)
    <2>1. call[t].kind = "login" => call[t].cookie \in Tokens
        BY <1>1, JarToken, OwnTokens DEF Deliver, At, TypeInv, CallsFit, Fits
    <2> QED
        BY <1>1, <2>1 DEF Deliver, TypeInv, TypeOK
<1>2. CASE Unsettle(DeviceOf[t])
    BY <1>2 DEF Unsettle, TypeInv, TypeOK
<1> QED
    BY <1>1, <1>2
    DEF CallSteps, Handle, Login, Refresh, Logout, Lookup, Alarm, CheckUser, Revoke,
        Lose, IssueRefreshToken, Rotate, AnswerWithoutCommit

LEMMA CallSidsKnown ==
    ASSUME TypeInv, SidsKnown, NEW t \in Tabs, CallSteps(t) PROVE SidsKnown'
<1>1. session' = session /\ session' = logins' /\ session \in Nat
    BY CallStep, SessionsAssumption DEF SidsKnown, TypeInv, TypeOK, Sids
<1>2. ASSUME NEW x \in Tokens PROVE rows'[x].sid <= session'
    BY <1>1, RowStep DEF SidsKnown
<1>3. PICK to \in PcValues \ {"insert"}, r \in Calls :
          /\ Moves(t, to, r) /\ r.sid \in {0, session}
          /\ r.kind = "login" => call[t].kind = "login"
    BY CallStep
<1>4. ASSUME NEW u \in Tabs
      PROVE  /\ call'[u].sid <= session'
             /\ pc'[u] = "insert" => call'[u].sid # 0
             /\ call'[u].kind = "login" => session' # 0
    <2>1. CASE u = t
        BY <1>1, <1>3, <2>1 DEF Moves, SidsKnown, TypeInv, TypeOK
    <2>2. CASE u # t
        <3>1. pc'[u] = pc[u] /\ call'[u] = call[u]
            BY <1>3, <2>2 DEF Moves, TypeInv, TypeOK
        <3> QED
            BY <1>1, <3>1 DEF SidsKnown
    <2> QED
        BY <2>1, <2>2
<1>5. ASSUME NEW d \in Devices, settled'[d] # None PROVE settled'[d] <= session'
    BY <1>1, <1>5, SettledStep DEF SidsKnown
<1> QED
    BY <1>1, <1>2, <1>4, <1>5 DEF SidsKnown

LEMMA AroundRows ==
    ASSUME TypeInv, Around
    PROVE  /\ UNCHANGED <<session, jar, pc, call, logins>>
           /\ \A x \in Tokens : rows'[x].sid = rows[x].sid
           /\ \A d \in Devices : settled'[d] \in {None, settled[d]}
<1>1. CASE ResetPassword \/ Deactivate \/ Reactivate
    <2>1. \A x \in Tokens : rows'[x].sid = rows[x].sid
        BY <1>1, QuietRowsAround
    <2> QED
        BY <1>1, <2>1 DEF ResetPassword, Deactivate, Reactivate
<1>2. CASE Vanishing
    BY <1>2, VanishRows DEF Vanishing, Vanish
<1> QED
    BY <1>1, <1>2 DEF Around

LEMMA AroundSidsKnown ==
    ASSUME TypeInv, SidsKnown, Around PROVE SidsKnown'
BY AroundRows DEF SidsKnown

LEMMA NextSidsKnown == TypeInv /\ SidsKnown /\ [Next]_vars => SidsKnown'
<1> SUFFICES ASSUME TypeInv, SidsKnown, [Next]_vars PROVE SidsKnown'
    OBVIOUS
<1>1. CASE UNCHANGED vars
    BY <1>1 DEF vars, server, SidsKnown
<1>2. CASE Next
    BY <1>2, StepKinds, StartSessionSidsKnown, CallSidsKnown, AroundSidsKnown
<1> QED
    BY <1>1, <1>2

LEMMA SidsKnownHolds == Spec => []SidsKnown
BY TypeInvHolds, InitSidsKnown, NextSidsKnown, PTL DEF Spec

----------------------------------------------------------------------------
(* A session belongs to one device.                                        *)

\* Session s is that of a token or of a login under way of device d.
Belongs(s, d) ==
    \/ \E x \in Tokens : rows[x].sid = s /\ x[1] = d
    \/ \E t \in Tabs : pc[t] = "insert" /\ call[t].sid = s /\ DeviceOf[t] = d

Owned == \A s \in Sids \ {0}, d, e \in Devices : Belongs(s, d) /\ Belongs(s, e) => d = e

LEMMA InitOwned == Init => Owned
BY BlankRow DEF Init, Owned, Belongs

\* The new session belongs to no other device.
LEMMA StartSessionOwned ==
    ASSUME TypeInv, SidsKnown, Owned, NEW t \in Tabs, StartSession(t) PROVE Owned'
<1>1. /\ logins' = session + 1 /\ session \in Nat
    BY StartSessionMoves, SessionsAssumption DEF SidsKnown, TypeInv, TypeOK, Sids
<1>2. PICK r \in Calls : Moves(t, "insert", r) /\ r.sid = logins'
    BY StartSessionMoves
<1>3. ASSUME NEW s \in Sids \ {0}, NEW d \in Devices, Belongs(s, d)'
      PROVE  \/ Belongs(s, d) /\ s # logins'
             \/ s = logins' /\ d = DeviceOf[t]
    <2>1. ASSUME NEW x \in Tokens, rows'[x].sid = s, x[1] = d
          PROVE  Belongs(s, d) /\ s # logins'
        <3>1. rows[x].sid = s
            BY <2>1, QuietRows
        <3>2. s \in Nat /\ s <= session
            BY <3>1, SessionsAssumption DEF SidsKnown, Sids
        <3> QED
            BY <1>1, <2>1, <3>1, <3>2 DEF Belongs
    <2>2. ASSUME NEW u \in Tabs, pc'[u] = "insert", call'[u].sid = s, DeviceOf[u] = d
          PROVE  \/ Belongs(s, d) /\ s # logins'
                 \/ s = logins' /\ d = DeviceOf[t]
        <3>1. CASE u = t
            BY <1>2, <2>2, <3>1 DEF Moves, TypeInv, TypeOK
        <3>2. CASE u # t
            <4>1. pc[u] = "insert" /\ call[u].sid = s
                BY <1>2, <2>2, <3>2 DEF Moves, TypeInv, TypeOK
            <4>2. s \in Nat /\ s <= session
                BY <4>1, SessionsAssumption DEF SidsKnown, Sids
            <4> QED
                BY <1>1, <2>2, <4>1, <4>2 DEF Belongs
        <3> QED
            BY <3>1, <3>2
    <2> QED
        BY <1>3, <2>1, <2>2 DEF Belongs
<1> QED
    BY <1>3 DEF Owned

\* No other step gives a session to a device that did not have it.
LEMMA CallOwned ==
    ASSUME TypeInv, Owned, NEW t \in Tabs, CallSteps(t) PROVE Owned'
<1>1. PICK to \in PcValues \ {"insert"}, r \in Calls : Moves(t, to, r)
    BY CallStep
<1>2. ASSUME NEW s \in Sids \ {0}, NEW d \in Devices, Belongs(s, d)'
      PROVE  Belongs(s, d)
    <2>1. ASSUME NEW x \in Tokens, rows'[x].sid = s, x[1] = d
          PROVE  Belongs(s, d)
        BY <2>1, RowStep DEF Belongs
    <2>2. ASSUME NEW u \in Tabs, pc'[u] = "insert", call'[u].sid = s, DeviceOf[u] = d
          PROVE  Belongs(s, d)
        <3>1. pc[u] = "insert" /\ call[u].sid = s
            BY <1>1, <2>2 DEF Moves, TypeInv, TypeOK
        <3> QED
            BY <2>2, <3>1 DEF Belongs
    <2> QED
        BY <1>2, <2>1, <2>2 DEF Belongs
<1> QED
    BY <1>2 DEF Owned

LEMMA NextOwned == TypeInv /\ SidsKnown /\ Owned /\ [Next]_vars => Owned'
<1> SUFFICES ASSUME TypeInv, SidsKnown, Owned, [Next]_vars PROVE Owned'
    OBVIOUS
<1>1. CASE UNCHANGED vars
    BY <1>1 DEF vars, server, Owned, Belongs
<1>2. CASE Around
    BY <1>2, AroundRows DEF Owned, Belongs
<1>3. CASE Next
    BY <1>2, <1>3, StepKinds, StartSessionOwned, CallOwned
<1> QED
    BY <1>1, <1>3

\* Two devices never hold cookies of one session, however logins, refreshes,
\* logouts, resets and purges overlap (auth.ts:50-57, 580-582): a session belongs to
\* the device that began it, and only that device's rotations carry it on.
THEOREM SessionsKeptApart == Spec => []SessionsStayApart
<1>1. TypeInv /\ Owned => SessionsStayApart
    <2> SUFFICES ASSUME TypeInv, Owned, NEW d \in Devices, NEW e \in Devices, d # e,
                        jar[d] # None, jar[e] # None, rows[jar[d]].sid = rows[jar[e]].sid
                 PROVE  rows[jar[d]].sid = 0
        BY DEF SessionsStayApart
    <2> DEFINE s == rows[jar[d]].sid
    <2>1. jar[d] \in Tokens /\ jar[d][1] = d /\ jar[e] \in Tokens /\ jar[e][1] = e
        BY OwnTokens DEF TypeInv, JarsFit
    <2>2. s \in Sids /\ Belongs(s, d) /\ Belongs(s, e)
        BY <2>1 DEF Belongs, TypeInv, TypeOK, Rows
    <2> QED
        BY <2>2 DEF Owned
<1> QED
    BY <1>1, TypeInvHolds, SidsKnownHolds, InitOwned, NextOwned, PTL DEF Spec

----------------------------------------------------------------------------
(* What a refresh has read of its token still holds.                       *)

ReadHolds ==
    \A t \in Tabs :
        /\ pc[t] = "lookup" => rows[call[t].token].sid = call[t].sid
        /\ pc[t] = "alarm" => rows[call[t].token].sid = 0

LEMMA InitReadHolds == Init => ReadHolds
BY DEF Init, ReadHolds

\* Only a refresh leads to a look-up, and only a look-up to the alarm.
LEMMA WaysIn ==
    ASSUME TypeInv, NEW t \in Tabs, CallSteps(t) \/ StartSession(t)
    PROVE  /\ pc'[t] = "lookup" => Refresh(t)
           /\ pc'[t] = "alarm" => Lookup(t)
           /\ pc'[t] = "user" => Lookup(t)
           /\ pc'[t] = "rotate" => CheckUser(t)
<1>1. ASSUME NEW x, Grant(t, x) \/ Clear(t) PROVE pc'[t] = "answer"
    BY <1>1 DEF Grant, Clear, Answer, Go, TypeInv, TypeOK
<1>2. CASE StartSession(t)
    BY <1>2 DEF StartSession, Go, TypeInv, TypeOK
<1>3. CASE Logout(t)
    BY <1>3 DEF Logout, Go, TypeInv, TypeOK
<1>4. CASE Done(t)
    BY <1>4 DEF Done, Go, TypeInv, TypeOK
<1>5. CASE \/ IssueRefreshToken(t) \/ Alarm(t) \/ Rotate(t) \/ Revoke(t)
           \/ AnswerWithoutCommit(t)
    BY <1>1, <1>5 DEF IssueRefreshToken, Alarm, Rotate, Revoke, AnswerWithoutCommit
<1>6. CASE Refresh(t)
    BY <1>6, RefreshMoves DEF Moves, TypeInv, TypeOK
<1>7. CASE Lookup(t)
    BY <1>7, LookupMoves DEF Moves, TypeInv, TypeOK
<1>8. CASE Login(t)
    BY <1>8 DEF Login, Go, TypeInv, TypeOK
<1>9. CASE CheckUser(t)
    BY <1>9, CheckUserMoves DEF Moves, TypeInv, TypeOK
<1> QED
    BY <1>2, <1>3, <1>4, <1>5, <1>6, <1>7, <1>8, <1>9
    DEF CallSteps, Handle, Deliver, Lose

\* The calls of the other tabs stand still.
LEMMA OthersStand ==
    ASSUME TypeInv, NEW t \in Tabs, CallSteps(t) \/ StartSession(t), NEW u \in Tabs \ {t}
    PROVE  pc'[u] = pc[u] /\ call'[u] = call[u]
BY CallStep, StartSessionMoves DEF Moves, TypeInv, TypeOK

LEMMA OtherTokenKept ==
    ASSUME TypeInv, NEW t \in Tabs, CallSteps(t) \/ StartSession(t), NEW u \in Tabs \ {t},
           NEW x \in Tokens, x # None, x \in {call[u].token, call[u].cookie}
    PROVE  /\ rows'[x].sid = rows[x].sid
           /\ rows'[x].state = "none" <=> rows[x].state = "none"
<1>1. call'[u] = call[u]
    BY OthersStand
<1>2. x \in Held(jar, call) /\ x \in Held(jar', call')
    BY <1>1 DEF Held
<1> QED
    BY <1>2, KeptStep

LEMMA CallReadHolds ==
    ASSUME TypeInv, SidsKnown, ReadHolds, NEW t \in Tabs, CallSteps(t) \/ StartSession(t)
    PROVE  ReadHolds'
<1>1. ASSUME NEW u \in Tabs \ {t}
      PROVE  /\ pc'[u] = "lookup" => rows'[call'[u].token].sid = call'[u].sid
             /\ pc'[u] = "alarm" => rows'[call'[u].token].sid = 0
    <2>1. pc'[u] = pc[u] /\ call'[u] = call[u]
        BY OthersStand
    <2>2. CASE pc[u] \in {"lookup", "alarm"}
        <3>1. call[u].token \in Tokens /\ call[u].token # None
            BY <2>2, RotateToken
        <3>2. rows'[call[u].token].sid = rows[call[u].token].sid
            BY <3>1, OtherTokenKept
        <3> QED
            BY <2>1, <3>2 DEF ReadHolds
    <2> QED
        BY <2>1, <2>2
<1>2. ASSUME pc'[t] = "lookup" PROVE rows'[call'[t].token].sid = call'[t].sid
    <2>1. Refresh(t)
        BY <1>2, WaysIn
    <2> DEFINE x == jar[DeviceOf[t]]
    <2>2. /\ x # None /\ x \in {DeviceOf[t]} \X Names
          /\ session = 0 \/ rows[x].sid = session
          /\ call'[t].token = x /\ call'[t].sid = session
        BY <1>2, <2>1, RefreshMoves DEF Moves, TypeInv, TypeOK
    <2>3. x \in Tokens
        BY <2>2, JarToken
    <2>4. rows[x].sid \in Nat /\ rows[x].sid <= session
        BY <2>3, SessionsAssumption DEF SidsKnown, TypeInv, TypeOK, Rows, Sids
    <2>5. rows[x].sid = session
        BY <2>2, <2>4
    <2> QED
        BY <2>1, <2>2, <2>5 DEF Refresh, server
<1>3. ASSUME pc'[t] = "alarm" PROVE rows'[call'[t].token].sid = 0
    <2>1. Lookup(t)
        BY <1>3, WaysIn
    <2> DEFINE row == rows[call[t].token]
    <2>2. /\ TRUE \in Alarming(row, call[t].sid) /\ pc[t] = "lookup"
          /\ call'[t].token = call[t].token
        BY <1>3, <2>1, LookupMoves DEF Moves, TypeInv, TypeOK
    <2>3. row.sid = call[t].sid
        BY <2>2 DEF ReadHolds
    <2>4. row.sid = 0
        BY <2>2, <2>3 DEF Alarming
    <2> QED
        BY <2>1, <2>2, <2>4 DEF Lookup, server
<1> QED
    BY <1>1, <1>2, <1>3 DEF ReadHolds

LEMMA NextReadHolds == TypeInv /\ SidsKnown /\ ReadHolds /\ [Next]_vars => ReadHolds'
<1> SUFFICES ASSUME TypeInv, SidsKnown, ReadHolds, [Next]_vars PROVE ReadHolds'
    OBVIOUS
<1>1. CASE UNCHANGED vars
    BY <1>1 DEF vars, server, ReadHolds
<1>2. CASE Around
    <2>1. \A t \in Tabs : pc[t] \in {"lookup", "alarm"} => call[t].token \in Tokens
        BY RotateToken
    <2> QED
        BY <1>2, <2>1, AroundRows DEF ReadHolds
<1>3. CASE Next
    BY <1>2, <1>3, StepKinds, CallReadHolds
<1> QED
    BY <1>1, <1>3

LEMMA ReadHoldsAlways == Spec => []ReadHolds
BY TypeInvHolds, SidsKnownHolds, InitReadHolds, NextReadHolds, PTL DEF Spec

\* Only these steps turn a refresh down.
LEMMA TurnsDownBy ==
    ASSUME TypeInv, NEW t \in Tabs, CallSteps(t) \/ StartSession(t), TurnsDown(t)
    PROVE  Refresh(t) \/ Lookup(t) \/ Alarm(t) \/ CheckUser(t)
<1>1. ~At(t, "answer") /\ pc'[t] = "answer" /\ call'[t].kind = "refresh" /\ ~call'[t].ok
    BY DEF TurnsDown
<1>2. ASSUME NEW x \in Tokens, Grant(t, x) PROVE FALSE
    <2>1. PICK r \in Calls : Moves(t, "answer", r) /\ r.ok
        BY <1>2, GrantMoves DEF TypeInv
    <2>2. call'[t] = r
        BY <2>1 DEF Moves, TypeInv, TypeOK
    <2> QED
        BY <1>1, <2>1, <2>2
<1>3. CASE IssueRefreshToken(t) \/ Rotate(t)
    BY <1>2, <1>3, IssueIssues, RotateIssues DEF Issues
<1>4. CASE AnswerWithoutCommit(t)
    <2>1. NewToken(t) \in Tokens
        BY <1>4, JarToken, OwnTokens, NewTokenIsFresh DEF AnswerWithoutCommit, At
    <2> QED
        BY <1>2, <1>4, <2>1 DEF AnswerWithoutCommit
<1>5. CASE Login(t) \/ StartSession(t) \/ Logout(t) \/ Done(t)
    BY <1>1, <1>5 DEF Login, StartSession, Logout, Done, Go, TypeInv, TypeOK
<1>6. CASE Revoke(t)
    <2>1. call[t].kind = "logout"
        BY <1>6 DEF Revoke, At, TypeInv, CallsFit, Fits
    <2>2. call'[t].kind = call[t].kind
        BY <1>6, ClearMoves DEF Revoke, Moves, TypeInv, TypeOK
    <2> QED
        BY <1>1, <2>1, <2>2
<1> QED
    BY <1>3, <1>4, <1>5, <1>6 DEF CallSteps, Handle, Deliver, Lose

LEMMA TurnedDownForAReason ==
    ASSUME TypeInv, ReadHolds, NEW t \in Tabs, CallSteps(t) \/ StartSession(t), TurnsDown(t)
    PROVE  Reason(t)
<1>1. pc'[t] = "answer"
    BY DEF TurnsDown
<1>2. CASE Refresh(t)
    BY <1>1, <1>2, RefreshMoves DEF Moves, Reason, At, TypeInv, TypeOK
<1>3. CASE Lookup(t)
    BY <1>1, <1>3, LookupMoves DEF Moves, Reason, At, TypeInv, TypeOK
<1>4. CASE Alarm(t)
    BY <1>4 DEF Alarm, Reason, At, ReadHolds
<1>5. CASE CheckUser(t)
    BY <1>1, <1>5, CheckUserMoves DEF Moves, Reason, At, TypeInv, TypeOK
<1> QED
    BY <1>2, <1>3, <1>4, <1>5, TurnsDownBy

LEMMA NextRefusedForAReason ==
    TypeInv /\ ReadHolds /\ [Next]_vars
        => [\A t \in Tabs : TurnsDown(t) => Reason(t)]_vars
<1> SUFFICES ASSUME TypeInv, ReadHolds, Next, NEW t \in Tabs, TurnsDown(t)
             PROVE  Reason(t)
    OBVIOUS
<1>1. pc'[t] # pc[t]
    BY DEF TurnsDown, At
<1>2. CASE Around
    BY <1>1, <1>2, AroundRows
<1>3. ASSUME NEW u \in Tabs, CallSteps(u) \/ StartSession(u) PROVE Reason(t)
    <2>1. u = t
        BY <1>1, <1>3, OthersStand
    <2> QED
        BY <1>3, <2>1, TurnedDownForAReason
<1> QED
    BY <1>2, <1>3, StepKinds

\* A refresh is turned down only because another session is current, because
\* there is none, because the token's row is gone or expired (auth.ts:519), or
\* because the account is found deactivated (auth.ts:570-574).  Within a
\* session no token is ever taken for a stolen one (auth.ts:523-534), since
\* what the refresh read of the session still agrees with the token when it is
\* looked up.
THEOREM RefusedOnlyForAReason == Spec => RefusedForAReason
BY TypeInvHolds, ReadHoldsAlways, NextRefusedForAReason, PTL DEF Spec, RefusedForAReason

----------------------------------------------------------------------------
(* A device settled in the current session keeps a living cookie of it.    *)

Living(x) == x \in Tokens /\ x # None /\ rows[x].sid = session /\ rows[x].state # "none"

\* What a call of such a device may be at: it has not begun its work, carries a token of the session,
\* or is about to set one.
Harmless(p, c) ==
    \/ p \in {"idle", "session"}
    \/ p = "lookup" /\ Living(c.token) /\ c.sid = session
    \/ p \in {"user", "rotate"} /\ Living(c.token)
    \/ p = "answer" /\ Living(c.cookie)

Settled(d) == settled[d] # None /\ settled[d] = session

Lives(d) ==
    /\ session # 0 /\ active /\ Living(jar[d])
    /\ \A t \in Tabs : DeviceOf[t] = d => Harmless(pc[t], call[t])

SettledLives == \A d \in Devices : Settled(d) => Lives(d)

LEMMA InitSettledLives == Init => SettledLives
BY DEF Init, SettledLives, Settled

\* A new session: no device is settled in it.
LEMMA StartSessionSettledLives ==
    ASSUME TypeInv, SidsKnown, NEW t \in Tabs, StartSession(t) PROVE SettledLives'
<1> SUFFICES ASSUME NEW d \in Devices, Settled(d)' PROVE FALSE
    BY DEF SettledLives
<1>1. session' = session + 1 /\ session \in Nat
    BY StartSessionMoves, SessionsAssumption DEF SidsKnown, TypeInv, TypeOK, Sids
<1>2. settled'[d] = settled[d] /\ settled[d] # None /\ settled[d] = session'
    BY DEF Settled, StartSession, Unsettle, TypeInv, TypeOK
<1>3. settled[d] \in Nat /\ settled[d] <= session
    BY <1>2, SessionsAssumption DEF SidsKnown, TypeInv, TypeOK, Sids
<1> QED
    BY <1>1, <1>2, <1>3

LEMMA HeldStays ==
    ASSUME TypeInv, NEW t \in Tabs, CallSteps(t),
           NEW x, Living(x), x \in Held(jar, call), x \in Held(jar', call')
    PROVE  Living(x)'
<1>1. x \in Tokens /\ x # None
    BY DEF Living
<1>2. rows'[x].sid = rows[x].sid /\ (rows'[x].state = "none" <=> rows[x].state = "none")
    BY <1>1, KeptStep
<1> QED
    BY <1>1, <1>2, CallStep DEF Living

\* A call of another tab leaves what a call carries living.
LEMMA OtherHarmless ==
    ASSUME TypeInv, NEW t \in Tabs, CallSteps(t),
           NEW u \in Tabs \ {t}, Harmless(pc[u], call[u])
    PROVE  Harmless(pc[u], call[u])'
<1>1. pc'[u] = pc[u] /\ call'[u] = call[u]
    BY OthersStand
<1>2. ASSUME NEW x, Living(x), x \in {call[u].token, call[u].cookie}
      PROVE  Living(x)'
    <2>1. x \in Held(jar, call) /\ x \in Held(jar', call')
        BY <1>1, <1>2 DEF Held, Living
    <2> QED
        BY <1>2, <2>1, HeldStays
<1>3. session' = session
    BY CallStep
<1> QED
    BY <1>1, <1>2, <1>3 DEF Harmless

\* A call of another device disturbs neither the jar nor the calls.
LEMMA AwayLives ==
    ASSUME TypeInv, SettledLives, NEW t \in Tabs, CallSteps(t),
           NEW d \in Devices, d # DeviceOf[t], Settled(d)'
    PROVE  Lives(d)'
<1>1. settled'[d] = settled[d] /\ session' = session /\ active' = active
    BY SettledStep, CallStep DEF Settled
<1>2. Lives(d)
    BY <1>1 DEF SettledLives, Settled
<1>3. jar'[d] = jar[d]
    BY DEF CallSteps, Login, Refresh, Logout, Handle, IssueRefreshToken, Lookup,
       Alarm, CheckUser, Rotate, Revoke, Deliver, AnswerWithoutCommit, Lose, server, TypeInv, TypeOK
<1>4. Living(jar[d])'
    <2>1. jar[d] \in Held(jar, call) /\ jar[d] \in Held(jar', call')
        BY <1>2, <1>3 DEF Held, Lives, Living
    <2> QED
        BY <1>2, <1>3, <2>1, HeldStays DEF Lives
<1>5. ASSUME NEW u \in Tabs, DeviceOf[u] = d PROVE Harmless(pc[u], call[u])'
    BY <1>2, <1>5, OtherHarmless DEF Lives
<1> QED
    BY <1>1, <1>2, <1>4, <1>5 DEF Lives


\* What the moving call of a settled device is at afterwards.
LEMMA HomeHarmless ==
    ASSUME TypeInv, NEW t \in Tabs, CallSteps(t),
           settled'[DeviceOf[t]] # None, Lives(DeviceOf[t])
    PROVE  Harmless(pc[t], call[t])' /\ Living(jar[DeviceOf[t]])'
<1> DEFINE d == DeviceOf[t]
<1>0. d \in Devices
    BY JarToken
<1>1. /\ session # 0 /\ active /\ Living(jar[d]) /\ Harmless(pc[t], call[t])
      /\ session' = session
    BY CallStep DEF Lives
<1>2. jar'[d] = jar[d] => Living(jar[d])'
    <2>1. SUFFICES ASSUME jar'[d] = jar[d] PROVE Living(jar[d])'
        OBVIOUS
    <2>2. jar[d] \in Held(jar, call) /\ jar[d] \in Held(jar', call')
        BY <1>0, <1>1, <2>1 DEF Held, Living
    <2> QED
        BY <1>1, <2>1, <2>2, KeptStep DEF Living
<1>3. CASE Refresh(t)
    <2>1. /\ UNCHANGED <<rows, jar>>
        BY <1>3 DEF Refresh, server
    <2>2. pc'[t] = "lookup" /\ call'[t].token = jar[d] /\ call'[t].sid = session
        BY <1>1, <1>3, RefreshMoves DEF Moves, Living, TypeInv, TypeOK
    <2> QED
        BY <1>1, <1>2, <2>1, <2>2 DEF Harmless, Living
<1>4. CASE Logout(t) \/ AnswerWithoutCommit(t)
    BY <1>0, <1>4 DEF Logout, AnswerWithoutCommit, Unsettle, TypeInv, TypeOK
<1>5. CASE IssueRefreshToken(t) \/ Alarm(t) \/ Revoke(t)
    BY <1>1, <1>5 DEF IssueRefreshToken, Alarm, Revoke, At, Harmless
<1>6. CASE Lookup(t)
    <2>1. UNCHANGED <<rows, jar>>
        BY <1>6 DEF Lookup, server
    <2>2. pc[t] = "lookup" /\ Living(call[t].token) /\ call[t].sid = session
        BY <1>1, <1>6 DEF Lookup, At, Harmless
    <2>3. TRUE \notin Alarming(rows[call[t].token], call[t].sid)
        BY <1>1, <2>2 DEF Alarming, Living
    <2>4. pc'[t] = "user" /\ call'[t].token = call[t].token
        BY <1>6, <2>2, <2>3, LookupMoves DEF Moves, Living, TypeInv, TypeOK
    <2> QED
        BY <1>1, <1>2, <2>1, <2>2, <2>4 DEF Harmless, Living
<1>7. CASE Rotate(t)
    <2>1. Living(call[t].token)
        BY <1>1, <1>7 DEF Rotate, At, Harmless
    <2>2. PICK x \in Tokens, row \in Rows :
              /\ x # None /\ row.sid = session /\ row.state = "valid"
              /\ Grant(t, x) /\ rows'[x] = row
        BY <1>7, <2>1, RotateIssues DEF Issues, Living
    <2>3. pc'[t] = "answer" /\ call'[t].cookie = x
        BY <2>2, GrantMoves DEF Moves, TypeInv, TypeOK
    <2>4. jar' = jar
        BY <1>7 DEF Rotate
    <2> QED
        BY <1>1, <1>2, <2>2, <2>3, <2>4 DEF Harmless, Living
<1>8. CASE Deliver(t)
    <2> DEFINE x == call[t].cookie
    <2>1. Living(x) /\ jar'[d] = x
        BY <1>0, <1>1, <1>8 DEF Deliver, At, Harmless, TypeInv, TypeOK
    <2>2. x \in Held(jar', call')
        BY <1>0, <2>1 DEF Held, Living
    <2>3. rows'[x] = rows[x] /\ Moves(t, "idle", NoCall)
        BY <1>8, <2>1, <2>2, DoneFacts DEF Deliver, Living
    <2> QED
        BY <1>1, <2>1, <2>3 DEF Harmless, Living, Moves, TypeInv, TypeOK
<1>9. CASE Lose(t)
    <2>1. Moves(t, "idle", NoCall) /\ jar' = jar
        BY <1>9, DoneFacts DEF Lose
    <2> QED
        BY <1>2, <2>1 DEF Harmless, Moves, TypeInv, TypeOK
<1>10. CASE Login(t)
    <2>1. pc'[t] = "session" /\ jar' = jar
        BY <1>10 DEF Login, Go, TypeInv, TypeOK
    <2> QED
        BY <1>2, <2>1 DEF Harmless
<1>11. CASE CheckUser(t)
    <2>1. UNCHANGED <<rows, jar>>
        BY <1>11 DEF CheckUser, server
    <2>2. pc[t] = "user" /\ Living(call[t].token)
        BY <1>1, <1>11 DEF CheckUser, At, Harmless
    <2>3. pc'[t] = "rotate" /\ call'[t].token = call[t].token
        BY <1>1, <1>11, CheckUserMoves DEF Moves, TypeInv, TypeOK
    <2> QED
        BY <1>1, <1>2, <2>1, <2>2, <2>3 DEF Harmless, Living
<1> QED
    BY <1>3, <1>4, <1>5, <1>6, <1>7, <1>8, <1>9, <1>10, <1>11 DEF CallSteps, Handle

LEMMA HomeLives ==
    ASSUME TypeInv, SidsKnown, SettledLives, NEW t \in Tabs, CallSteps(t),
           Settled(DeviceOf[t])'
    PROVE  Lives(DeviceOf[t])'
<1> DEFINE d == DeviceOf[t]
<1>0. d \in Devices /\ settled'[d] # None /\ settled'[d] = session /\ session' = session
      /\ active' = active
    BY JarToken, CallStep DEF Settled
<1>1. CASE settled'[d] = settled[d]
    <2>1. Lives(d)
        BY <1>0, <1>1 DEF SettledLives, Settled
    <2>2. Harmless(pc[t], call[t])' /\ Living(jar[d])'
        BY <1>0, <2>1, HomeHarmless
    <2>3. ASSUME NEW u \in Tabs \ {t}, DeviceOf[u] = d PROVE Harmless(pc[u], call[u])'
        BY <2>1, <2>3, OtherHarmless DEF Lives
    <2> QED
        BY <1>0, <2>1, <2>2, <2>3 DEF Lives
<1>2. CASE settled'[d] # settled[d]
    <2> DEFINE x == call[t].cookie
    <2>1. /\ Deliver(t) /\ call[t].kind = "login" /\ x \in Tokens /\ Alone(t)
          /\ active /\ rows[x].state # "none" /\ rows[x].sid = session
        BY <1>0, <1>2, SettledStep
    <2>2. session # 0
        BY <2>1 DEF SidsKnown
    <2>3. x # None /\ jar'[d] = x
        BY <1>0, <2>1 DEF Deliver, At, TypeInv, TypeOK, CallsFit, Fits
    <2>4. x \in Held(jar', call')
        BY <1>0, <2>3 DEF Held
    <2>5. rows'[x] = rows[x] /\ Moves(t, "idle", NoCall)
        BY <2>1, <2>4, DoneFacts DEF Deliver
    <2>6. ASSUME NEW u \in Tabs, DeviceOf[u] = d PROVE pc'[u] = "idle"
        BY <2>1, <2>5, <2>6 DEF Alone, At, Moves, TypeInv, TypeOK
    <2> QED
        BY <1>0, <2>1, <2>2, <2>3, <2>5, <2>6 DEF Lives, Living, Harmless
<1> QED
    BY <1>1, <1>2

\* A reset leaves every row its session and its existence.
LEMMA ResetSettledLives ==
    ASSUME TypeInv, SettledLives, ResetPassword PROVE SettledLives'
<1>1. \A x : Living(x) => Living(x)'
    BY QuietRowsAround DEF Living, ResetPassword
<1>2. UNCHANGED <<session, active, jar, pc, call, settled>>
    BY DEF ResetPassword
<1>3. ASSUME NEW d \in Devices, Settled(d)' PROVE Lives(d)'
    <2>1. Lives(d)
        BY <1>2, <1>3 DEF SettledLives, Settled
    <2>2. \A t \in Tabs : Harmless(pc[t], call[t]) => Harmless(pc[t], call[t])'
        BY <1>1, <1>2 DEF Harmless
    <2> QED
        BY <1>1, <1>2, <2>1, <2>2 DEF Lives
<1> QED
    BY <1>3 DEF SettledLives

\* No device is settled while the account is deactivated.
LEMMA DeactivationSettledLives ==
    ASSUME TypeInv, SettledLives, Deactivate \/ Reactivate PROVE SettledLives'
<1>1. CASE Deactivate
    BY <1>1 DEF Deactivate, SettledLives, Settled
<1>2. CASE Reactivate
    BY <1>2 DEF Reactivate, SettledLives, Settled, Lives
<1> QED
    BY <1>1, <1>2

\* A purge or an expiry of a row a device still uses unsettles the device.
LEMMA VanishSettledLives ==
    ASSUME TypeInv, SettledLives, Vanishing PROVE SettledLives'
<1>0. PICK gone : Vanish(gone)
    BY DEF Vanishing
<1>1. UNCHANGED <<session, active, jar, pc, call>>
    BY <1>0 DEF Vanish
<1>2. ASSUME NEW d \in Devices, Settled(d)' PROVE Lives(d)'
    <2> DEFINE used == {jar[d]} \cup UNION {{call[t].token, call[t].cookie} :
                                              t \in {u \in Tabs : DeviceOf[u] = d}}
    <2>1. gone \cap used = {} /\ settled'[d] = settled[d]
        BY <1>0, <1>2 DEF Vanish, Settled
    <2>2. Lives(d)
        BY <1>1, <1>2, <2>1 DEF SettledLives, Settled
    <2>3. ASSUME NEW x, Living(x), x \in used PROVE Living(x)'
        <3>1. x \in Tokens \ gone
            BY <2>1, <2>3 DEF Living
        <3>2. rows'[x] = rows[x]
            BY <1>0, <3>1, VanishRows
        <3> QED
            BY <1>1, <2>3, <3>2 DEF Living
    <2>4. ASSUME NEW t \in Tabs, DeviceOf[t] = d PROVE Harmless(pc[t], call[t])'
        <3>1. call[t].token \in used /\ call[t].cookie \in used
            BY <2>4
        <3>2. Harmless(pc[t], call[t])
            BY <2>2, <2>4 DEF Lives
        <3> HIDE DEF used
        <3> QED
            BY <1>1, <2>3, <3>1, <3>2 DEF Harmless
    <2>5. jar[d] \in used
        OBVIOUS
    <2> HIDE DEF used
    <2> QED
        BY <1>1, <2>2, <2>3, <2>4, <2>5 DEF Lives
<1> QED
    BY <1>2 DEF SettledLives

LEMMA NextSettledLives == TypeInv /\ SidsKnown /\ SettledLives /\ [Next]_vars => SettledLives'
<1> SUFFICES ASSUME TypeInv, SidsKnown, SettledLives, [Next]_vars PROVE SettledLives'
    OBVIOUS
<1>1. CASE UNCHANGED vars
    BY <1>1 DEF vars, server, SettledLives, Settled, Lives, Living, Harmless
<1>2. ASSUME NEW t \in Tabs, CallSteps(t) PROVE SettledLives'
    BY <1>2, HomeLives, AwayLives DEF SettledLives
<1>3. CASE Next
    BY <1>2, <1>3, StepKinds, StartSessionSettledLives, ResetSettledLives,
       DeactivationSettledLives, VanishSettledLives
    DEF Around
<1> QED
    BY <1>1, <1>3

\* A device that logged in while its other tabs were quiet keeps the session
\* until someone logs in or it logs out (auth.ts:523-534), whatever rotations
\* in parallel tabs, lost answers, alarms elsewhere and password resets do:
\* every call of the device carries, or is about to set, a cookie of the session.
\* A deactivation (auth.ts:570-574), a row that vanishes under a token in use and
\* an uncommitted rotation end the promise, and nothing else does.
THEOREM SessionIsKept == Spec => []KeepsSession
<1>1. SettledLives => KeepsSession
    BY DEF SettledLives, Settled, Lives, Living, KeepsSession
<1> QED
    BY <1>1, TypeInvHolds, SidsKnownHolds, InitSettledLives, NextSettledLives, PTL DEF Spec
=============================================================================
