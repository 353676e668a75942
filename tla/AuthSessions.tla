---------------------------- MODULE AuthSessions ----------------------------
(***************************************************************************)
(* Login, refresh and logout of app/services/auth.py over auth_sessions,   *)
(* refresh_tokens and revoked_access_tokens.                               *)
(*                                                                         *)
(* A request is one database transaction at READ COMMITTED.  An action is  *)
(* one of its statements, which reads committed rows and may wait for row  *)
(* locks, or its commit, which makes its writes visible and releases its   *)
(* locks.  SQLAlchemy flushes pending changes before each query, so some   *)
(* rows are locked earlier than the code's text suggests: these flushes    *)
(* are part of the actions.                                                *)
(***************************************************************************)
EXTENDS Naturals, FiniteSets

CONSTANTS
    Users,
    Logins,          \* login requests; each names the session it may create
    UserOf,          \* the user of each login
    Refreshes,       \* refresh requests
    Logouts,         \* logout requests
    MaxSessions,     \* max_active_auth_sessions
    None             \* no token, no session

(* A login or a refresh issues one refresh token and one access token,     *)
(* both named after it.                                                    *)
Issuers == Logins \cup Refreshes
Requests == Issuers \cup Logouts

ASSUME AuthAssumption ==
    /\ UserOf \in [Logins -> Users]
    /\ Logins \cap Refreshes = {} /\ Issuers \cap Logouts = {}
    /\ IsFiniteSet(Logins)
    /\ MaxSessions \in Nat \ {0}
    /\ None \notin Requests

VARIABLES
    sessions,        \* auth_sessions: absent, active or revoked
    born,            \* created_at of the sessions
    lapsed,          \* the sessions whose expires_at has passed
    tokens,          \* refresh_tokens: absent, fresh or consumed
    family,          \* the session of each refresh token
    replaced,        \* replaced_by_id
    denied,          \* revoked_access_tokens, by the access token's issuer
    held,            \* the row locks: pairs of a request and a row
    apc,             \* where each request stands
    cookie,          \* the refresh token a request presents
    bearer,          \* the access token a logout presents
    marked,          \* the sessions a request has decided to revoke
    spent, live,     \* what a refresh has read of its token and its session
    inserts          \* whether a logout will insert its access token

authVars == <<sessions, born, lapsed, tokens, family, replaced, denied, held,
              apc, cookie, bearer, marked, spent, live, inserts>>

tables == <<sessions, born, lapsed, tokens, family, replaced, denied>>
requestVars == <<cookie, bearer, marked, spent, live, inserts>>

-----------------------------------------------------------------------------

UserRow(u) == <<"user", u>>
TokenRow(t) == <<"token", t>>
SessionRow(s) == <<"session", s>>
Rows == {UserRow(u) : u \in Users} \cup {TokenRow(t) : t \in Issuers}
            \cup {SessionRow(s) : s \in Logins}

Answers == {"invalid", "reused", "limited", "rotated", "logged_in",
            "logged_out", "error", "aborted"}

TypeOK ==
    /\ sessions \in [Logins -> {"absent", "active", "revoked"}]
    /\ born \in [Logins -> Nat]
    /\ lapsed \subseteq Logins
    /\ tokens \in [Issuers -> {"absent", "fresh", "consumed"}]
    /\ family \in [Issuers -> Logins \cup {None}]
    /\ replaced \in [Issuers -> Issuers \cup {None}]
    /\ denied \subseteq Issuers
    /\ held \subseteq Requests \X Rows
    /\ apc \in [Requests -> {"idle", "token", "session", "listed", "read",
                             "checked"} \cup Answers]
    /\ cookie \in [Refreshes \cup Logouts -> Issuers \cup {None}]
    /\ bearer \in [Logouts -> Issuers \cup {None}]
    /\ marked \in [Logins \cup Logouts -> SUBSET Logins]
    /\ spent \in [Refreshes -> BOOLEAN]
    /\ live \in [Refreshes -> BOOLEAN]
    /\ inserts \in [Logouts -> BOOLEAN]

Init ==
    /\ sessions = [s \in Logins |-> "absent"]
    /\ born = [s \in Logins |-> 0]
    /\ lapsed = {}
    /\ tokens = [t \in Issuers |-> "absent"]
    /\ family = [t \in Issuers |-> None]
    /\ replaced = [t \in Issuers |-> None]
    /\ denied = {}
    /\ held = {}
    /\ apc = [q \in Requests |-> "idle"]
    /\ cookie = [q \in Refreshes \cup Logouts |-> None]
    /\ bearer = [o \in Logouts |-> None]
    /\ marked = [q \in Logins \cup Logouts |-> {}]
    /\ spent = [r \in Refreshes |-> FALSE]
    /\ live = [r \in Refreshes |-> FALSE]
    /\ inserts = [o \in Logouts |-> FALSE]

-----------------------------------------------------------------------------

Issued == {t \in Issuers : tokens[t] # "absent"}
Active(u) == {s \in Logins : UserOf[s] = u /\ sessions[s] = "active"}

Free(row) == \A h \in held : h[2] # row
Holds(q, row) == <<q, row>> \in held

(* A slip, for the mutation runs: a lock is taken in nobody's name.        *)
TakeAnonymously(q, row) == held' = held \cup {row}

Take(q, row) == held' = held \cup {<<q, row>>}

Goto(q, stage) == apc' = [apc EXCEPT ![q] = stage]

(* The transaction of a request ends: its locks are released.              *)
End(q, result) ==
    /\ Goto(q, result)
    /\ held' = {h \in held : h[1] # q}

Revoke(S) == [s \in Logins |-> IF s \in S THEN "revoked" ELSE sessions[s]]

-----------------------------------------------------------------------------

(* refresh: no row has the hash of the presented token.                    *)
UnknownToken(r) ==
    /\ apc[r] = "idle"
    /\ End(r, "invalid")
    /\ UNCHANGED <<tables, requestVars>>

(* refresh: SELECT ... FOR UPDATE of the token.                            *)
ReadToken(r) ==
    /\ apc[r] = "idle"
    /\ \E t \in Issued :
        /\ cookie' = [cookie EXCEPT ![r] = t]
        /\ spent' = [spent EXCEPT ![r] = tokens[t] = "consumed"]
    /\ Goto(r, "token")
    /\ UNCHANGED <<tables, bearer, marked, live, inserts>>

(* A slip: the token is read without a lock.        *)
ReadTokenUnlocked(r) == ReadToken(r) /\ UNCHANGED held

LockToken(r) ==
    /\ ReadToken(r)
    /\ Free(TokenRow(cookie'[r]))
    /\ Take(r, TokenRow(cookie'[r]))

(* refresh: SELECT ... FOR UPDATE of its session.                          *)
ReadSession(r) ==
    /\ apc[r] = "token"
    /\ live' = [live EXCEPT ![r] = sessions[family[cookie[r]]] = "active"]
    /\ Goto(r, "session")
    /\ UNCHANGED <<tables, cookie, bearer, marked, spent, inserts>>

(* A slip: the session is read without a lock.                             *)
ReadSessionUnlocked(r) == ReadSession(r) /\ UNCHANGED held

LockSession(r) ==
    /\ ReadSession(r)
    /\ Free(SessionRow(family[cookie[r]]))
    /\ Take(r, SessionRow(family[cookie[r]]))

(* A slip: the reuse of a token is refused and nothing else.               *)
ReuseTolerated(r) ==
    /\ apc[r] = "session" /\ spent[r]
    /\ End(r, "reused")
    /\ UNCHANGED <<tables, requestVars>>

(* refresh: a consumed token ends the whole session.                       *)
Reuse(r) ==
    /\ apc[r] = "session"
    /\ spent[r]
    /\ sessions' = IF live[r] THEN Revoke({family[cookie[r]]}) ELSE sessions
    /\ End(r, "reused")
    /\ UNCHANGED <<born, lapsed, tokens, family, replaced, denied, requestVars>>

(* refresh: the session is revoked or has expired.                         *)
Refuse(r) ==
    /\ apc[r] = "session"
    /\ ~spent[r]
    /\ ~live[r] \/ family[cookie[r]] \in lapsed
    /\ End(r, "invalid")
    /\ UNCHANGED <<tables, requestVars>>

(* refresh: the rate limit of the session is exceeded; the rejection is    *)
(* audited in the same transaction.                                        *)
Limit(r) ==
    /\ apc[r] = "session"
    /\ ~spent[r] /\ live[r] /\ family[cookie[r]] \notin lapsed
    /\ End(r, "limited")
    /\ UNCHANGED <<tables, requestVars>>

(* refresh: the token is consumed and replaced.                            *)
Rotate(r) ==
    LET t == cookie[r] IN
    /\ apc[r] = "session"
    /\ ~spent[r] /\ live[r] /\ family[t] \notin lapsed
    /\ tokens' = [tokens EXCEPT ![t] = "consumed", ![r] = "fresh"]
    /\ family' = [family EXCEPT ![r] = family[t]]
    /\ replaced' = [replaced EXCEPT ![t] = r]
    /\ End(r, "rotated")
    /\ UNCHANGED <<sessions, born, lapsed, denied, requestVars>>

-----------------------------------------------------------------------------

(* login: unknown email, wrong password, inactive user or rate limit.      *)
Deny(l) ==
    /\ apc[l] = "idle"
    /\ End(l, "invalid")
    /\ UNCHANGED <<tables, requestVars>>

(* _create_session_tokens: the active sessions of the user, of which the   *)
(* oldest are to make room for a new one: those that leave too little even *)
(* with everything older ended.                                            *)
Oldest(u) ==
    {s \in Active(u) :
        Cardinality({o \in Active(u) : born[o] >= born[s]}) >= MaxSessions}

ReadActive(l) ==
    /\ apc[l] = "idle"
    /\ marked' = [marked EXCEPT ![l] = Oldest(UserOf[l])]
    /\ Goto(l, "listed")
    /\ UNCHANGED <<tables, cookie, bearer, spent, live, inserts>>

(* A slip: the user is not updated before the sessions are listed.         *)
ListUnlocked(l) == ReadActive(l) /\ UNCHANGED held

(* login: last_login_at is flushed before the query, which locks the       *)
(* user's row until the commit.                                            *)
ListSessions(l) ==
    /\ ReadActive(l)
    /\ Free(UserRow(UserOf[l]))
    /\ Take(l, UserRow(UserOf[l]))

(* login, logout: the revocations are flushed, one row after the other, in *)
(* an order the code does not choose.                                      *)
LockMarked(q) ==
    /\ apc[q] \in {"listed", "read"}
    /\ \E s \in marked[q] :
        /\ ~Holds(q, SessionRow(s)) /\ Free(SessionRow(s))
        /\ Take(q, SessionRow(s))
    /\ UNCHANGED <<tables, apc, requestVars>>

AllLocked(q) == \A s \in marked[q] : Holds(q, SessionRow(s))

(* login: the new session and its first token are committed together with  *)
(* the revocations.                                                        *)
LogIn(l) ==
    /\ apc[l] = "listed"
    /\ AllLocked(l)
    /\ sessions' = [Revoke(marked[l]) EXCEPT ![l] = "active"]
    /\ born' = [born EXCEPT ![l] = Cardinality({s \in Logins : sessions[s] # "absent"})]
    /\ tokens' = [tokens EXCEPT ![l] = "fresh"]
    /\ family' = [family EXCEPT ![l] = l]
    /\ End(l, "logged_in")
    /\ UNCHANGED <<lapsed, replaced, denied, requestVars>>

-----------------------------------------------------------------------------

(* logout: the token and its session are read without locks.               *)
ReadCookie(o) ==
    /\ apc[o] = "idle"
    /\ \E t, j \in Issued \cup {None} :
        /\ cookie' = [cookie EXCEPT ![o] = t]
        /\ bearer' = [bearer EXCEPT ![o] = j]
        /\ marked' = [marked EXCEPT ![o] =
                {s \in Logins : t # None /\ family[t] = s /\ sessions[s] = "active"}]
    /\ Goto(o, "read")
    /\ UNCHANGED <<tables, held, spent, live, inserts>>

(* logout: the access token is looked up.                                  *)
ReadBearer(o) ==
    /\ apc[o] = "read"
    /\ inserts' = [inserts EXCEPT ![o] = bearer[o] \notin denied \cup {None}]
    /\ Goto(o, "checked")
    /\ UNCHANGED <<tables, held, cookie, bearer, marked, spent, live>>

(* The query flushes the revocation of the session first.                  *)
CheckBearer(o) == AllLocked(o) /\ ReadBearer(o)

(* logout: the insertion meets the primary key of revoked_access_tokens.   *)
Collides(o) == inserts[o] /\ bearer[o] \in denied

(* A slip: only the session is revoked.                                    *)
LogOutOfSession(o) ==
    /\ apc[o] = "checked"
    /\ ~Collides(o)
    /\ sessions' = Revoke(marked[o])
    /\ End(o, "logged_out")
    /\ UNCHANGED <<born, lapsed, tokens, family, replaced, denied, requestVars>>

LogOut(o) ==
    /\ apc[o] = "checked"
    /\ ~Collides(o)
    /\ sessions' = Revoke(marked[o])
    /\ denied' = denied \cup {j \in Issuers : inserts[o] /\ j = bearer[o]}
    /\ End(o, "logged_out")
    /\ UNCHANGED <<born, lapsed, tokens, family, replaced, requestVars>>

(* A slip: the failed transaction is left open.                            *)
FailOpen(o) ==
    /\ apc[o] = "checked"
    /\ Collides(o)
    /\ Goto(o, "error")
    /\ UNCHANGED <<tables, held, requestVars>>

(* logout: the IntegrityError is an internal error, all is rolled back.    *)
FailLogOut(o) ==
    /\ apc[o] = "checked"
    /\ Collides(o)
    /\ End(o, "error")
    /\ UNCHANGED <<tables, requestVars>>

-----------------------------------------------------------------------------

Ended(q) == apc[q] \in Answers

(* A request is lost and its transaction rolled back.                      *)
Abort(q) ==
    /\ apc[q] # "idle" /\ ~Ended(q)
    /\ End(q, "aborted")
    /\ UNCHANGED <<tables, requestVars>>

(* refresh_session_days pass.                                              *)
Lapse(s) ==
    /\ sessions[s] # "absent" /\ s \notin lapsed
    /\ lapsed' = lapsed \cup {s}
    /\ UNCHANGED <<sessions, born, tokens, family, replaced, denied, held,
                   apc, requestVars>>

Refresh(r) == \/ LockToken(r) \/ LockSession(r) \/ Reuse(r) \/ Refuse(r)
              \/ Limit(r) \/ Rotate(r)
Login(l) == ListSessions(l) \/ LockMarked(l) \/ LogIn(l)
Logout(o) == \/ ReadCookie(o) \/ LockMarked(o) \/ CheckBearer(o)
             \/ LogOut(o) \/ FailLogOut(o)

Quiet == (\A q \in Requests : Ended(q) \/ apc[q] = "idle") /\ UNCHANGED authVars

Next ==
    \/ \E r \in Refreshes : UnknownToken(r) \/ Refresh(r)
    \/ \E l \in Logins : Deny(l) \/ Login(l)
    \/ \E o \in Logouts : Logout(o)
    \/ \E q \in Requests : Abort(q)
    \/ \E s \in Logins : Lapse(s)
    \/ Quiet

Spec == Init /\ [][Next]_authVars

-----------------------------------------------------------------------------

(* Every session has exactly one fresh refresh token, and every consumed   *)
(* one names the token that replaced it: two refreshes never rotate one    *)
(* token, and no rotation loses the session (auth.py:210-277).             *)
SingleFreshToken ==
    /\ \A s \in Logins : sessions[s] # "absent" =>
        Cardinality({t \in Issued : family[t] = s /\ tokens[t] = "fresh"}) = 1
    /\ \A t \in Issued : tokens[t] = "consumed" <=> replaced[t] # None
    /\ \A t, u \in Issued : replaced[t] = replaced[u] /\ replaced[t] # None => t = u

(* Whoever presents a consumed token ends its session, so neither side of  *)
(* a token used twice goes on (auth.py:224-236).                           *)
ReuseEndsSession ==
    \A r \in Refreshes :
        apc[r] = "reused" => sessions[family[cookie[r]]] = "revoked"

(* No user has more active sessions than the limit, although the sessions  *)
(* are counted in one statement and created in another (auth.py:333-347).  *)
SessionLimit == \A u \in Users : Cardinality(Active(u)) <= MaxSessions

(* A logout that is answered has revoked the session of its cookie and its *)
(* access token, whatever it read before (auth.py:287-320).                *)
LogoutTakesEffect ==
    \A o \in Logouts : apc[o] = "logged_out" =>
        /\ cookie[o] # None => sessions[family[cookie[o]]] = "revoked"
        /\ bearer[o] # None => bearer[o] \in denied

(* Two logouts that end the same session do not collide on their access    *)
(* token: the one that fails met a logout of another session or of none.   *)
CollisionNeedsTwoSessions ==
    \A o \in Logouts : apc[o] = "error" =>
        \E p \in Logouts \ {o} :
            /\ apc[p] = "logged_out" /\ bearer[p] = bearer[o]
            /\ marked[p] \cap marked[o] = {}

(* A revoked session stays revoked and gets no further token.              *)
RevokedStaysRevoked ==
    [][\A s \in Logins : sessions[s] = "revoked" =>
        /\ sessions'[s] = "revoked"
        /\ \A t \in Issuers : family[t] = None => family'[t] # s]_authVars

InProgress(q) == apc[q] # "idle" /\ ~Ended(q)

(* The rows that a request has to lock, or has locked, in the statements   *)
(* where it stands: the session of its token, or those it has marked.      *)
Wanted(q) ==
    {row \in Rows :
        \/ /\ q \in Refreshes /\ apc[q] = "token"
           /\ row = SessionRow(family[cookie[q]])
        \/ /\ q \in Logins \cup Logouts /\ apc[q] \in {"listed", "read"}
           /\ \E s \in marked[q] : row = SessionRow(s)}

(* Requests never wait for each other's locks in a circle, nor for those   *)
(* of one that has ended: of the requests in progress one has or can take  *)
(* every row it needs, in whatever order its flush takes them              *)
(* (auth.py:210-236, 300-315, 333-360).                                    *)
SomeRequestProceeds ==
    (\E q \in Requests : InProgress(q)) =>
        \E q \in Requests :
            InProgress(q) /\ \A row \in Wanted(q) : Free(row) \/ Holds(q, row)

=============================================================================
