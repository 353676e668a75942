------------------------- MODULE AuthSessionsProofs -------------------------
(***************************************************************************)
(* Proofs that the safety properties of AuthSessions hold for any users,   *)
(* requests and session limit.                                             *)
(***************************************************************************)
EXTENDS AuthSessions, FiniteSetTheorems, WellFoundedInduction, TLAPS

(* A row is locked by one request at a time.                               *)
LocksExclusive ==
    \A q, p \in Requests : \A row \in Rows :
        Holds(q, row) /\ Holds(p, row) => q = p

(* A request has created its session and its tokens exactly when it has    *)
(* been answered so; tokens belong to sessions that exist.                 *)
IssuedByAnswer ==
    /\ \A l \in Logins :
        /\ sessions[l] # "absent" <=> apc[l] = "logged_in"
        /\ tokens[l] # "absent" <=> apc[l] = "logged_in"
    /\ \A r \in Refreshes : tokens[r] # "absent" <=> apc[r] = "rotated"
    /\ \A t \in Issuers :
        /\ tokens[t] # "absent" <=> family[t] # None
        /\ family[t] # None => sessions[family[t]] # "absent"
    /\ \A q \in Logins \cup Logouts : \A s \in marked[q] : sessions[s] # "absent"

(* What a refresh has read is still so, because it holds the rows.         *)
ReadsAreCurrent(r) ==
    /\ apc[r] \in {"token", "session"} =>
        /\ cookie[r] \in Issued
        /\ Holds(r, TokenRow(cookie[r]))
        /\ spent[r] <=> tokens[cookie[r]] = "consumed"
    /\ apc[r] = "session" =>
        /\ Holds(r, SessionRow(family[cookie[r]]))
        /\ live[r] <=> sessions[family[cookie[r]]] = "active"
    /\ apc[r] = "reused" => cookie[r] \in Issued

RefreshCurrent == \A r \in Refreshes : ReadsAreCurrent(r)

(* A login that has listed the sessions holds the user's row, and what it  *)
(* leaves active makes room for one more.                                  *)
MakesRoom(l) ==
    apc[l] = "listed" =>
        /\ Holds(l, UserRow(UserOf[l]))
        /\ Cardinality(Active(UserOf[l]) \ marked[l]) < MaxSessions

LoginMakesRoom == \A l \in Logins : MakesRoom(l)

(* A logout ends the session of its cookie unless another has done so, and *)
(* has locked what it ends before it looks up its access token.            *)
Prepared(o) ==
    /\ apc[o] \in {"read", "checked"} /\ cookie[o] # None =>
        /\ cookie[o] \in Issued
        /\ \/ sessions[family[cookie[o]]] = "revoked"
           \/ family[cookie[o]] \in marked[o]
    /\ apc[o] = "checked" =>
        /\ AllLocked(o)
        /\ bearer[o] # None <=> inserts[o] \/ bearer[o] \in denied
    /\ apc[o] = "logged_out" /\ cookie[o] # None => cookie[o] \in Issued

LogoutPrepared == \A o \in Logouts : Prepared(o)

(* A denied access token was denied by a logout, and a logout that is to   *)
(* deny it again shares no session with that one.                          *)
SharesNothing(o) ==
    apc[o] = "checked" /\ inserts[o] =>
        \A p \in Logouts : apc[p] = "logged_out" /\ bearer[p] = bearer[o]
                            => marked[p] \cap marked[o] = {}

DeniedByLogout ==
    /\ \A j \in denied : \E p \in Logouts :
        apc[p] = "logged_out" /\ bearer[p] = j
    /\ \A o \in Logouts : SharesNothing(o)

(* Every session has one fresh token, and tokens are replaced in a chain.  *)
OneFreshToken ==
    /\ \A s \in Logins : sessions[s] # "absent" =>
        \E t \in Issued :
            /\ family[t] = s /\ tokens[t] = "fresh"
            /\ \A v \in Issued : family[v] = s /\ tokens[v] = "fresh" => v = t
    /\ \A t \in Issuers :
        /\ tokens[t] = "consumed" <=> replaced[t] # None
        /\ replaced[t] # None => tokens[replaced[t]] # "absent"
    /\ \A t, v \in Issuers :
        replaced[t] = replaced[v] /\ replaced[t] # None => t = v

IndInv ==
    /\ TypeOK
    /\ LocksExclusive
    /\ IssuedByAnswer
    /\ RefreshCurrent
    /\ LoginMakesRoom
    /\ LogoutPrepared
    /\ DeniedByLogout
    /\ OneFreshToken
    /\ SessionLimit
    /\ ReuseEndsSession
    /\ LogoutTakesEffect
    /\ CollisionNeedsTwoSessions

-----------------------------------------------------------------------------

(* Rows of different tables, or of different keys, are different.          *)
LEMMA RowsDiffer ==
  /\ \A a, b : UserRow(a) = UserRow(b) => a = b
  /\ \A a, b : TokenRow(a) = TokenRow(b) => a = b
  /\ \A a, b : SessionRow(a) = SessionRow(b) => a = b
  /\ \A a, b : UserRow(a) # SessionRow(b) /\ UserRow(a) # TokenRow(b)
                    /\ TokenRow(a) # SessionRow(b)
  BY DEF UserRow, TokenRow, SessionRow

(* A free row is taken by one request and leaves the others' locks.        *)
LEMMA Taking ==
  ASSUME TypeOK, LocksExclusive, NEW q \in Requests, NEW row \in Rows,
         Free(row), Take(q, row)
  PROVE  /\ held' \subseteq Requests \X Rows
         /\ LocksExclusive'
         /\ Holds(q, row)'
         /\ \A p \in Requests : \A x \in Rows : Holds(p, x) => Holds(p, x)'
<1>1. held \subseteq Requests \X Rows /\ held' = held \cup {<<q, row>>}
  BY DEF TypeOK, Take
<1>2. \A p : <<p, row>> \notin held
  BY DEF Free
<1> QED
  BY <1>1, <1>2 DEF LocksExclusive, Holds

(* The end of a request releases its locks and no others.                  *)
LEMMA Releasing ==
  ASSUME TypeOK, LocksExclusive, NEW q \in Requests, NEW result \in Answers,
         End(q, result)
  PROVE  /\ held' \subseteq Requests \X Rows
         /\ LocksExclusive'
         /\ \A p \in Requests \ {q} : \A x \in Rows : Holds(p, x) => Holds(p, x)'
         /\ apc' \in [Requests -> {"idle", "token", "session", "listed", "read",
                                   "checked"} \cup Answers]
         /\ apc'[q] = result
         /\ \A p \in Requests \ {q} : apc'[p] = apc[p]
<1>1. held \subseteq Requests \X Rows /\ held' = {h \in held : h[1] # q}
  BY DEF TypeOK, End
<1>2. \A p \in Requests \ {q} : \A x \in Rows : Holds(p, x) => Holds(p, x)'
  BY <1>1 DEF Holds
<1>3. LocksExclusive'
  BY <1>1 DEF LocksExclusive, Holds
<1>4. /\ apc' \in [Requests -> {"idle", "token", "session", "listed", "read",
                                "checked"} \cup Answers]
      /\ apc'[q] = result
      /\ \A p \in Requests \ {q} : apc'[p] = apc[p]
  BY DEF TypeOK, End, Goto
<1> QED
  BY <1>1, <1>2, <1>3, <1>4

(* The rows of existing users, tokens and sessions.                        *)
LEMMA RowsOfKinds ==
  /\ \A l \in Logins : UserRow(UserOf[l]) \in Rows
  /\ \A t \in Issuers : TokenRow(t) \in Rows
  /\ \A s \in Logins : SessionRow(s) \in Rows
  BY AuthAssumption DEF Rows

(* Of an issued token the session is a login that has been answered.       *)
LEMMA IssuedTokens ==
  ASSUME TypeOK, IssuedByAnswer
  PROVE  \A t \in Issued : /\ t \in Issuers /\ t # None
                           /\ family[t] \in Logins
                           /\ sessions[family[t]] # "absent"
  BY AuthAssumption DEF TypeOK, IssuedByAnswer, Issued, Requests

(* A request ends and neither the tables nor what it has read change.      *)
LEMMA EndQuietly ==
  ASSUME IndInv, NEW q \in Requests,
         NEW result \in {"invalid", "limited", "error", "aborted"},
         End(q, result), apc[q] \notin Answers,
         UNCHANGED <<tables, requestVars>>,
         q \in Logouts /\ result = "error" =>
            \E p \in Logouts \ {q} : /\ apc[p] = "logged_out" /\ bearer[p] = bearer[q]
                                     /\ marked[p] \cap marked[q] = {}
  PROVE  IndInv'
<1> USE AuthAssumption
<1>1. TypeOK /\ LocksExclusive /\ result \in Answers
  BY DEF IndInv, Answers
<1>2. /\ held' \subseteq Requests \X Rows
      /\ LocksExclusive'
      /\ \A p \in Requests \ {q} : \A x \in Rows : Holds(p, x) => Holds(p, x)'
      /\ apc' \in [Requests -> {"idle", "token", "session", "listed", "read",
                                "checked"} \cup Answers]
      /\ apc'[q] = result
      /\ \A p \in Requests \ {q} : apc'[p] = apc[p]
  BY <1>1, Releasing
<1>3. /\ UNCHANGED <<sessions, born, lapsed, tokens, family, replaced, denied>>
      /\ UNCHANGED <<cookie, bearer, marked, spent, live, inserts>>
  BY DEF tables, requestVars
<1>4. TypeOK'
  BY <1>1, <1>2, <1>3 DEF TypeOK
<1>5. IssuedByAnswer'
  BY <1>2, <1>3 DEF IndInv, IssuedByAnswer, Answers, Requests, Issuers
<1>6. RefreshCurrent'
  <2>1. ASSUME NEW r \in Refreshes, apc'[r] \in {"token", "session", "reused"}
        PROVE  r # q /\ apc'[r] = apc[r]
    BY <1>2, <2>1 DEF Requests, Issuers
  <2>2. \A t \in Issued : TokenRow(t) \in Rows /\ SessionRow(family[t]) \in Rows
    BY <1>1, IssuedTokens, RowsOfKinds DEF IndInv
  <2>3. \A r \in Refreshes : r \in Requests
    BY DEF Requests, Issuers
  <2> QED
    BY <1>2, <1>3, <2>1, <2>2, <2>3 DEF IndInv, RefreshCurrent, ReadsAreCurrent, Issued
<1>7. LoginMakesRoom'
  <2>1. \A l \in Logins : l \in Requests /\ UserRow(UserOf[l]) \in Rows
    BY RowsOfKinds DEF Requests, Issuers
  <2> QED
    BY <1>2, <1>3, <2>1 DEF IndInv, LoginMakesRoom, MakesRoom, Active
<1>8. LogoutPrepared'
  <2>1. \A o \in Logouts : o \in Requests /\ marked[o] \subseteq Logins
    BY <1>1 DEF Requests, TypeOK
  <2>2. \A s \in Logins : SessionRow(s) \in Rows
    BY RowsOfKinds
  <2> QED
    BY <1>2, <1>3, <2>1, <2>2 DEF IndInv, LogoutPrepared, Prepared, AllLocked, Issued
<1>9. DeniedByLogout' /\ LogoutTakesEffect'
  BY <1>2, <1>3 DEF IndInv, DeniedByLogout, SharesNothing, LogoutTakesEffect, Answers,
                    Requests
<1>10. OneFreshToken' /\ SessionLimit'
  BY <1>3 DEF IndInv, OneFreshToken, SessionLimit, Issued, Active
<1>11. ReuseEndsSession'
  BY <1>2, <1>3 DEF IndInv, ReuseEndsSession, Requests, Issuers
<1>12. CollisionNeedsTwoSessions'
  BY <1>2, <1>3 DEF IndInv, CollisionNeedsTwoSessions, Answers, Requests
<1> QED
  BY <1>2, <1>4, <1>5, <1>6, <1>7, <1>8, <1>9, <1>10, <1>11, <1>12 DEF IndInv

-----------------------------------------------------------------------------

LEMMA InitIndInv == Init => IndInv
<1> SUFFICES ASSUME Init PROVE IndInv
  OBVIOUS
<1> USE AuthAssumption
<1>1. TypeOK
  BY DEF Init, TypeOK
<1>2. /\ Issued = {} /\ \A v \in Users : Active(v) = {}
      /\ \A q \in Requests : apc[q] = "idle"
  BY DEF Init, Issued, Active
<1>3. LocksExclusive /\ IssuedByAnswer
  BY <1>2 DEF Init, LocksExclusive, Holds, IssuedByAnswer, Requests, Issuers
<1>4. RefreshCurrent /\ LoginMakesRoom /\ LogoutPrepared
  BY <1>2 DEF RefreshCurrent, ReadsAreCurrent, LoginMakesRoom, MakesRoom,
              LogoutPrepared, Prepared, Requests, Issuers
<1>5. DeniedByLogout /\ OneFreshToken
  BY <1>2 DEF Init, DeniedByLogout, SharesNothing, OneFreshToken, Requests, Issuers
<1>6. SessionLimit
  BY <1>2, FS_EmptySet DEF SessionLimit
<1>7. ReuseEndsSession /\ LogoutTakesEffect /\ CollisionNeedsTwoSessions
  BY <1>2 DEF ReuseEndsSession, LogoutTakesEffect, CollisionNeedsTwoSessions,
              Requests, Issuers
<1> QED
  BY <1>1, <1>3, <1>4, <1>5, <1>6, <1>7 DEF IndInv

(* A request reads and locks: the tables and the other requests stay.      *)
LEMMA Reading ==
  ASSUME IndInv, NEW q \in Requests, TypeOK', LocksExclusive', UNCHANGED tables,
         \A p \in Requests : \A x \in Rows : Holds(p, x) => Holds(p, x)',
         apc[q] \notin Answers, apc'[q] \notin Answers,
         \A p \in Requests \ {q} : apc'[p] = apc[p],
         \A p \in (Refreshes \cup Logouts) \ {q} : cookie'[p] = cookie[p],
         \A p \in Logouts \ {q} : bearer'[p] = bearer[p] /\ inserts'[p] = inserts[p],
         \A p \in (Logins \cup Logouts) \ {q} : marked'[p] = marked[p],
         \A p \in Refreshes \ {q} : spent'[p] = spent[p] /\ live'[p] = live[p],
         q \in Refreshes => ReadsAreCurrent(q)',
         q \in Logins => MakesRoom(q)',
         q \in Logouts => Prepared(q)' /\ SharesNothing(q)',
         q \in Logins \cup Logouts => \A s \in marked'[q] : sessions[s] # "absent"
  PROVE  IndInv'
<1> USE AuthAssumption
<1>1. /\ UNCHANGED <<sessions, born, lapsed, tokens, family, replaced, denied>>
      /\ Issued' = Issued
  BY DEF tables, Issued
<1>2. IssuedByAnswer'
  BY <1>1 DEF IndInv, IssuedByAnswer, Answers, Requests, Issuers
<1>3. RefreshCurrent'
  <2> SUFFICES ASSUME NEW r \in Refreshes, r # q PROVE ReadsAreCurrent(r)'
    BY DEF RefreshCurrent
  <2>1. \A t \in Issued : TokenRow(t) \in Rows /\ SessionRow(family[t]) \in Rows
    BY IssuedTokens, RowsOfKinds DEF IndInv
  <2>2. r \in Requests
    BY DEF Requests, Issuers
  <2> QED
    BY <1>1, <2>1, <2>2 DEF IndInv, RefreshCurrent, ReadsAreCurrent
<1>4. LoginMakesRoom'
  <2> SUFFICES ASSUME NEW l \in Logins, l # q PROVE MakesRoom(l)'
    BY DEF LoginMakesRoom
  <2>1. l \in Requests /\ UserRow(UserOf[l]) \in Rows
    BY RowsOfKinds DEF Requests, Issuers
  <2> QED
    BY <1>1, <2>1 DEF IndInv, LoginMakesRoom, MakesRoom, Active
<1>5. LogoutPrepared'
  <2> SUFFICES ASSUME NEW o \in Logouts, o # q PROVE Prepared(o)'
    BY DEF LogoutPrepared
  <2>1. o \in Requests /\ marked[o] \subseteq Logins
    BY DEF Requests, IndInv, TypeOK
  <2>2. \A s \in Logins : SessionRow(s) \in Rows
    BY RowsOfKinds
  <2> QED
    BY <1>1, <2>1, <2>2 DEF IndInv, LogoutPrepared, Prepared, AllLocked
<1>6. DeniedByLogout' /\ LogoutTakesEffect'
  <2>1. \A p \in Logouts : apc'[p] = "logged_out" =>
            p # q /\ apc[p] = "logged_out"
    BY DEF Requests, Answers
  <2>2. \A p \in Logouts : apc[p] = "logged_out" =>
            p # q /\ apc'[p] = "logged_out"
    BY DEF Requests, Answers
  <2>3. \A o \in Logouts : SharesNothing(o)'
    <3> SUFFICES ASSUME NEW o \in Logouts, o # q PROVE SharesNothing(o)'
      OBVIOUS
    <3> QED
      BY <2>1 DEF IndInv, DeniedByLogout, SharesNothing, Requests
  <2> QED
    BY <1>1, <2>1, <2>2, <2>3 DEF IndInv, DeniedByLogout, LogoutTakesEffect, Requests
<1>7. OneFreshToken' /\ SessionLimit'
  BY <1>1 DEF IndInv, OneFreshToken, SessionLimit, Active
<1>8. ReuseEndsSession'
  BY <1>1 DEF IndInv, ReuseEndsSession, Requests, Issuers, Answers
<1>9. CollisionNeedsTwoSessions'
  <2>1. \A p \in Logouts : apc'[p] = "error" \/ apc[p] \in {"error", "logged_out"} =>
            p # q /\ apc'[p] = apc[p]
    BY DEF Requests, Answers
  <2> QED
    BY <1>1, <2>1 DEF IndInv, CollisionNeedsTwoSessions
<1> QED
  BY <1>2, <1>3, <1>4, <1>5, <1>6, <1>7, <1>8, <1>9 DEF IndInv

LEMMA LockTokenPreserves ==
  ASSUME IndInv, NEW r \in Refreshes, LockToken(r)
  PROVE  IndInv'
<1> USE AuthAssumption
<1>1. TypeOK /\ LocksExclusive
  BY DEF IndInv
<1>2. PICK t \in Issued : /\ cookie' = [cookie EXCEPT ![r] = t]
                          /\ spent' = [spent EXCEPT ![r] = tokens[t] = "consumed"]
  BY DEF LockToken, ReadToken
<1>3. /\ apc[r] = "idle" /\ apc' = [apc EXCEPT ![r] = "token"]
      /\ UNCHANGED tables
      /\ UNCHANGED <<sessions, born, lapsed, tokens, family, replaced, denied>>
      /\ UNCHANGED <<bearer, marked, live, inserts>>
  BY DEF LockToken, ReadToken, Goto, tables
<1>4. r \in Requests /\ r \notin Logins \cup Logouts /\ cookie'[r] = t /\ t \in Issuers
  BY <1>1, <1>2 DEF Requests, Issuers, Issued, TypeOK
<1>5. /\ held' \subseteq Requests \X Rows /\ LocksExclusive'
      /\ Holds(r, TokenRow(t))'
      /\ \A p \in Requests : \A x \in Rows : Holds(p, x) => Holds(p, x)'
  <2>1. TokenRow(t) \in Rows /\ Free(TokenRow(t)) /\ Take(r, TokenRow(t))
    BY <1>4, RowsOfKinds DEF LockToken
  <2> QED
    BY <1>1, <1>4, <2>1, Taking
<1>6. TypeOK'
  BY <1>1, <1>2, <1>3, <1>4, <1>5 DEF TypeOK
<1>7. ReadsAreCurrent(r)'
  <2>1. apc'[r] = "token" /\ spent'[r] = (tokens[t] = "consumed")
    BY <1>1, <1>2, <1>3, <1>4 DEF TypeOK
  <2>2. Holds(r, TokenRow(cookie[r]))'
    BY <1>4, <1>5
  <2> QED
    BY <1>3, <1>4, <2>1, <2>2 DEF ReadsAreCurrent, Issued
<1>8. apc[r] \notin Answers /\ apc'[r] \notin Answers
  BY <1>1, <1>3, <1>4 DEF TypeOK, Answers
<1>9. /\ \A p \in Requests \ {r} : apc'[p] = apc[p]
      /\ \A p \in (Refreshes \cup Logouts) \ {r} : cookie'[p] = cookie[p]
      /\ \A p \in Refreshes \ {r} : spent'[p] = spent[p]
  BY <1>1, <1>2, <1>3 DEF TypeOK
<1> QED
  BY <1>3, <1>4, <1>5, <1>6, <1>7, <1>8, <1>9, Reading

LEMMA LockSessionPreserves ==
  ASSUME IndInv, NEW r \in Refreshes, LockSession(r)
  PROVE  IndInv'
<1> USE AuthAssumption
<1>1. TypeOK /\ LocksExclusive
  BY DEF IndInv
<1>2. /\ cookie[r] \in Issued /\ r \in Requests /\ r \notin Logins \cup Logouts
      /\ ReadsAreCurrent(r) /\ apc[r] = "token"
  BY DEF LockSession, ReadSession, IndInv, RefreshCurrent, ReadsAreCurrent,
         Requests, Issuers
<1>3. PICK s \in Logins : s = family[cookie[r]]
  BY <1>1, <1>2, IssuedTokens DEF IndInv
<1>4. /\ apc' = [apc EXCEPT ![r] = "session"]
      /\ live' = [live EXCEPT ![r] = sessions[s] = "active"]
      /\ UNCHANGED tables
      /\ UNCHANGED <<sessions, born, lapsed, tokens, family, replaced, denied>>
      /\ UNCHANGED <<cookie, bearer, marked, spent, inserts>>
  BY <1>3 DEF LockSession, ReadSession, Goto, tables
<1>5. /\ held' \subseteq Requests \X Rows /\ LocksExclusive'
      /\ Holds(r, SessionRow(s))'
      /\ \A p \in Requests : \A x \in Rows : Holds(p, x) => Holds(p, x)'
  <2>1. SessionRow(s) \in Rows /\ Free(SessionRow(s)) /\ Take(r, SessionRow(s))
    BY <1>3, RowsOfKinds DEF LockSession
  <2> QED
    BY <1>1, <1>2, <2>1, Taking
<1>6. TypeOK'
  BY <1>1, <1>2, <1>4, <1>5 DEF TypeOK
<1>7. /\ \A p \in Requests \ {r} : apc'[p] = apc[p]
      /\ \A p \in Refreshes \ {r} : live'[p] = live[p]
      /\ apc'[r] = "session" /\ live'[r] = (sessions[s] = "active")
  BY <1>1, <1>2, <1>4 DEF TypeOK
<1>8. ReadsAreCurrent(r)'
  <2>1. Issued' = Issued /\ s = family'[cookie'[r]]
    BY <1>3, <1>4 DEF Issued
  <2>2. Holds(r, SessionRow(family[cookie[r]]))'
    BY <1>5, <2>1
  <2>3. /\ Holds(r, TokenRow(cookie[r]))'
        /\ spent'[r] <=> tokens'[cookie'[r]] = "consumed"
    <3>1. TokenRow(cookie[r]) \in Rows
      BY <1>2, RowsOfKinds DEF Issued
    <3> QED
      BY <1>2, <1>4, <1>5, <3>1 DEF ReadsAreCurrent
  <2> QED
    BY <1>2, <1>3, <1>4, <1>7, <2>1, <2>2, <2>3 DEF ReadsAreCurrent
<1>9. apc[r] \notin Answers /\ apc'[r] \notin Answers
  BY <1>2, <1>7 DEF Answers
<1> QED
  BY <1>2, <1>4, <1>5, <1>6, <1>7, <1>8, <1>9, Reading

(* A nonempty set of numbers has a smallest one.                           *)
LEMMA SmallestNumber ==
  ASSUME NEW T \in SUBSET Nat, T # {}
  PROVE  \E m \in T : \A k \in T : m <= k
<1>1. PICK m \in T : \A k \in T : <<k, m>> \notin OpToRel(<, Nat)
  BY WFMin, NatLessThanWellFounded, Zenon
<1>2. \A k \in T : ~(k < m)
  BY <1>1, Zenon DEF OpToRel
<1> QED
  BY <1>2

LEMMA ActiveFinite ==
  ASSUME NEW v
  PROVE  IsFiniteSet(Active(v)) /\ Cardinality(Active(v)) \in Nat
<1>1. IsFiniteSet(Logins) /\ Active(v) \in SUBSET Logins
  BY AuthAssumption DEF Active
<1>2. IsFiniteSet(Active(v))
  BY <1>1, FS_Subset
<1> QED
  BY <1>2, FS_CardinalityType

(* With the oldest sessions ended there is room for one more.              *)
LEMMA OldestLeaveRoom ==
  ASSUME TypeOK, NEW v
  PROVE  Cardinality(Active(v) \ Oldest(v)) < MaxSessions
<1> DEFINE K == Active(v) \ Oldest(v)
<1>1. MaxSessions \in Nat \ {0}
  BY AuthAssumption
<1>2. CASE K = {}
  BY <1>1, <1>2, FS_EmptySet
<1>3. CASE K # {}
  <2>1. \A s \in K : s \in Logins /\ born[s] \in Nat
    BY DEF TypeOK, Active
  <2>2. PICK m \in K : \A o \in K : born[m] <= born[o]
    <3> DEFINE B == {born[s] : s \in K}
    <3>1. B \in SUBSET Nat /\ B # {}
      BY <1>3, <2>1
    <3>2. PICK n \in B : \A k \in B : n <= k
      <4> HIDE DEF B
      <4> QED
        BY <3>1, SmallestNumber
    <3>3. PICK m \in K : n = born[m]
      OBVIOUS
    <3>4. \A o \in K : born[m] <= born[o]
      BY <3>2, <3>3
    <3> QED
      BY <3>4
  <2> DEFINE G == {o \in Active(v) : born[o] >= born[m]}
  <2>3. K \in SUBSET G /\ G \in SUBSET Active(v)
    BY <2>1, <2>2
  <2>4. IsFiniteSet(G) /\ Cardinality(G) \in Nat
    BY <2>3, ActiveFinite, FS_Subset, FS_CardinalityType
  <2>5. Cardinality(K) \in Nat /\ Cardinality(K) <= Cardinality(G)
    BY <2>3, <2>4, FS_Subset, FS_CardinalityType
  <2>6. ~(Cardinality(G) >= MaxSessions)
    BY <2>2 DEF Oldest
  <2> QED
    BY <1>1, <2>4, <2>5, <2>6
<1> QED
  BY <1>2, <1>3

LEMMA ListSessionsPreserves ==
  ASSUME IndInv, NEW l \in Logins, ListSessions(l)
  PROVE  IndInv'
<1> USE AuthAssumption
<1>1. TypeOK /\ LocksExclusive
  BY DEF IndInv
<1>2. l \in Requests /\ l \notin Refreshes \cup Logouts
  BY DEF Requests, Issuers
<1>3. /\ apc[l] = "idle" /\ apc' = [apc EXCEPT ![l] = "listed"]
      /\ marked' = [marked EXCEPT ![l] = Oldest(UserOf[l])]
      /\ UNCHANGED tables
      /\ UNCHANGED <<sessions, born, lapsed, tokens, family, replaced, denied>>
      /\ UNCHANGED <<cookie, bearer, spent, live, inserts>>
  BY DEF ListSessions, ReadActive, Goto, tables
<1>4. /\ held' \subseteq Requests \X Rows /\ LocksExclusive'
      /\ Holds(l, UserRow(UserOf[l]))'
      /\ \A p \in Requests : \A x \in Rows : Holds(p, x) => Holds(p, x)'
  <2>1. UserRow(UserOf[l]) \in Rows /\ Free(UserRow(UserOf[l])) /\ Take(l, UserRow(UserOf[l]))
    BY RowsOfKinds DEF ListSessions
  <2> QED
    BY <1>1, <1>2, <2>1, Taking
<1>5. Oldest(UserOf[l]) \subseteq Active(UserOf[l]) /\ Active(UserOf[l]) \subseteq Logins
  BY DEF Oldest, Active
<1>6. TypeOK'
  BY <1>1, <1>2, <1>3, <1>4, <1>5 DEF TypeOK
<1>7. /\ \A p \in Requests \ {l} : apc'[p] = apc[p]
      /\ \A p \in (Logins \cup Logouts) \ {l} : marked'[p] = marked[p]
      /\ apc'[l] = "listed" /\ marked'[l] = Oldest(UserOf[l])
  BY <1>1, <1>2, <1>3 DEF TypeOK
<1>8. MakesRoom(l)'
  <2>1. Cardinality(Active(UserOf[l]) \ Oldest(UserOf[l])) < MaxSessions
    BY <1>1, OldestLeaveRoom
  <2>2. Active(UserOf[l])' = Active(UserOf[l])
    BY <1>3 DEF Active
  <2> QED
    BY <1>4, <1>7, <2>1, <2>2 DEF MakesRoom
<1>9. apc[l] \notin Answers /\ apc'[l] \notin Answers
  BY <1>3, <1>7 DEF Answers
<1>10. \A s \in marked'[l] : sessions[s] # "absent"
  BY <1>5, <1>7 DEF Active
<1> QED
  BY <1>2, <1>3, <1>4, <1>6, <1>7, <1>8, <1>9, <1>10, Reading

LEMMA LockMarkedPreserves ==
  ASSUME IndInv, NEW q \in Logins \cup Logouts, LockMarked(q)
  PROVE  IndInv'
<1> USE AuthAssumption
<1>1. TypeOK /\ LocksExclusive
  BY DEF IndInv
<1>2. q \in Requests /\ q \notin Refreshes /\ ~(q \in Logins /\ q \in Logouts)
  BY DEF Requests, Issuers
<1>3. /\ apc[q] \in {"listed", "read"} /\ UNCHANGED apc
      /\ UNCHANGED tables
      /\ UNCHANGED <<sessions, born, lapsed, tokens, family, replaced, denied>>
      /\ UNCHANGED <<cookie, bearer, marked, spent, live, inserts>>
  BY DEF LockMarked, tables, requestVars
<1>4. /\ held' \subseteq Requests \X Rows /\ LocksExclusive'
      /\ \A p \in Requests : \A x \in Rows : Holds(p, x) => Holds(p, x)'
  <2>1. PICK s \in marked[q] : Free(SessionRow(s)) /\ Take(q, SessionRow(s))
    BY DEF LockMarked
  <2>2. SessionRow(s) \in Rows
    BY <1>1, RowsOfKinds DEF TypeOK
  <2> QED
    BY <1>1, <1>2, <2>1, <2>2, Taking
<1>5. TypeOK'
  BY <1>1, <1>3, <1>4 DEF TypeOK
<1>6. q \in Logins => MakesRoom(q)'
  BY <1>2, <1>3, <1>4, RowsOfKinds DEF IndInv, LoginMakesRoom, MakesRoom, Active
<1>7. q \in Logouts => Prepared(q)' /\ SharesNothing(q)'
  BY <1>3 DEF IndInv, LogoutPrepared, Prepared, SharesNothing, Issued
<1>8. apc[q] \notin Answers /\ apc'[q] \notin Answers
  BY <1>3 DEF Answers
<1>9. \A s \in marked'[q] : sessions[s] # "absent"
  BY <1>3 DEF IndInv, IssuedByAnswer
<1> QED
  BY <1>2, <1>3, <1>4, <1>5, <1>6, <1>7, <1>8, <1>9, Reading

LEMMA ReadCookiePreserves ==
  ASSUME IndInv, NEW o \in Logouts, ReadCookie(o)
  PROVE  IndInv'
<1> USE AuthAssumption
<1>1. TypeOK /\ LocksExclusive
  BY DEF IndInv
<1>2. o \in Requests /\ o \notin Refreshes \cup Logins
  BY DEF Requests, Issuers
<1>3. PICK t \in Issued \cup {None}, j \in Issued \cup {None} :
        /\ cookie' = [cookie EXCEPT ![o] = t]
        /\ bearer' = [bearer EXCEPT ![o] = j]
        /\ marked' = [marked EXCEPT ![o] =
                {s \in Logins : t # None /\ family[t] = s /\ sessions[s] = "active"}]
  BY DEF ReadCookie
<1>4. /\ apc[o] = "idle" /\ apc' = [apc EXCEPT ![o] = "read"]
      /\ UNCHANGED tables
      /\ UNCHANGED <<sessions, born, lapsed, tokens, family, replaced, denied>>
      /\ UNCHANGED <<held, spent, live, inserts>>
  BY DEF ReadCookie, Goto, tables
<1>5. TypeOK'
  BY <1>1, <1>2, <1>3, <1>4 DEF TypeOK, Issued
<1>6. LocksExclusive' /\ \A p \in Requests : \A x \in Rows : Holds(p, x) => Holds(p, x)'
  BY <1>1, <1>4 DEF LocksExclusive, Holds
<1>7. /\ \A p \in Requests \ {o} : apc'[p] = apc[p]
      /\ \A p \in (Refreshes \cup Logouts) \ {o} : cookie'[p] = cookie[p]
      /\ \A p \in Logouts \ {o} : bearer'[p] = bearer[p]
      /\ \A p \in (Logins \cup Logouts) \ {o} : marked'[p] = marked[p]
      /\ apc'[o] = "read" /\ cookie'[o] = t
      /\ marked'[o] = {s \in Logins : t # None /\ family[t] = s /\ sessions[s] = "active"}
  BY <1>1, <1>2, <1>3, <1>4 DEF TypeOK
<1>8. Prepared(o)'
  <2>1. t # None => /\ t \in Issued /\ family[t] \in Logins
                    /\ sessions[family[t]] \in {"active", "revoked"}
    BY <1>1, <1>3, IssuedTokens DEF IndInv, TypeOK
  <2> QED
    BY <1>4, <1>7, <2>1 DEF Prepared, Issued
<1>9. SharesNothing(o)'
  BY <1>7 DEF SharesNothing
<1>10. apc[o] \notin Answers /\ apc'[o] \notin Answers
  BY <1>4, <1>7 DEF Answers
<1>11. \A s \in marked'[o] : sessions[s] # "absent"
  BY <1>7
<1> QED
  BY <1>2, <1>4, <1>5, <1>6, <1>7, <1>8, <1>9, <1>10, <1>11, Reading

LEMMA CheckBearerPreserves ==
  ASSUME IndInv, NEW o \in Logouts, CheckBearer(o)
  PROVE  IndInv'
<1> USE AuthAssumption
<1>1. TypeOK /\ LocksExclusive
  BY DEF IndInv
<1>2. o \in Requests /\ o \notin Refreshes \cup Logins
  BY DEF Requests, Issuers
<1>3. /\ AllLocked(o)
      /\ apc[o] = "read" /\ apc' = [apc EXCEPT ![o] = "checked"]
      /\ inserts' = [inserts EXCEPT ![o] = bearer[o] \notin denied \cup {None}]
      /\ UNCHANGED tables
      /\ UNCHANGED <<sessions, born, lapsed, tokens, family, replaced, denied>>
      /\ UNCHANGED <<held, cookie, bearer, marked, spent, live>>
  BY DEF CheckBearer, ReadBearer, Goto, tables
<1>4. TypeOK'
  BY <1>1, <1>2, <1>3 DEF TypeOK
<1>5. LocksExclusive' /\ \A p \in Requests : \A x \in Rows : Holds(p, x) => Holds(p, x)'
  BY <1>1, <1>3 DEF LocksExclusive, Holds
<1>6. /\ \A p \in Requests \ {o} : apc'[p] = apc[p]
      /\ \A p \in Logouts \ {o} : inserts'[p] = inserts[p]
      /\ apc'[o] = "checked"
      /\ inserts'[o] <=> bearer[o] \notin denied /\ bearer[o] # None
  BY <1>1, <1>2, <1>3 DEF TypeOK
<1>7. Prepared(o)'
  <2>1. None \notin denied
    BY <1>1 DEF TypeOK, Requests
  <2>2. AllLocked(o)'
    BY <1>3 DEF AllLocked, Holds
  <2> QED
    BY <1>3, <1>6, <2>1, <2>2 DEF IndInv, LogoutPrepared, Prepared, Issued
<1>8. SharesNothing(o)'
  BY <1>2, <1>3, <1>6 DEF IndInv, LogoutTakesEffect, SharesNothing, Requests
<1>9. apc[o] \notin Answers /\ apc'[o] \notin Answers
  BY <1>3, <1>6 DEF Answers
<1>10. \A s \in marked'[o] : sessions[s] # "absent"
  BY <1>3 DEF IndInv, IssuedByAnswer
<1> QED
  BY <1>2, <1>3, <1>4, <1>5, <1>6, <1>7, <1>8, <1>9, <1>10, Reading

-----------------------------------------------------------------------------

(* What the revocation of some sessions changes.                           *)
LEMMA Revoking ==
  ASSUME TypeOK, NEW S \in SUBSET Logins, \A s \in S : sessions[s] # "absent",
         sessions' = Revoke(S)
  PROVE  /\ sessions' \in [Logins -> {"absent", "active", "revoked"}]
         /\ \A s \in Logins : sessions'[s] = IF s \in S THEN "revoked" ELSE sessions[s]
         /\ \A s \in Logins : sessions'[s] = "absent" <=> sessions[s] = "absent"
         /\ \A v, X : Cardinality((Active(v) \ X)') <= Cardinality(Active(v) \ X)
         /\ \A v : Cardinality(Active(v)') <= Cardinality(Active(v))
<1>1. /\ sessions' \in [Logins -> {"absent", "active", "revoked"}]
      /\ \A s \in Logins : sessions'[s] = IF s \in S THEN "revoked" ELSE sessions[s]
  BY DEF TypeOK, Revoke
<1>2. \A v : Active(v)' \subseteq Active(v)
  BY <1>1 DEF Active
<1>3. ASSUME NEW v, NEW X
      PROVE  Cardinality((Active(v) \ X)') <= Cardinality(Active(v) \ X)
  <2>1. (Active(v) \ X)' \in SUBSET (Active(v) \ X)
    BY <1>2
  <2>2. IsFiniteSet(Active(v) \ X)
    BY ActiveFinite, FS_Difference
  <2> QED
    BY <2>1, <2>2, FS_Subset
<1>4. ASSUME NEW v
      PROVE  Cardinality(Active(v)') <= Cardinality(Active(v))
  BY <1>2, ActiveFinite, FS_Subset
<1> QED
  BY <1>1, <1>3, <1>4

LEMMA ReusePreserves ==
  ASSUME IndInv, NEW r \in Refreshes, Reuse(r)
  PROVE  IndInv'
<1> USE AuthAssumption
<1>1. /\ TypeOK /\ LocksExclusive /\ IssuedByAnswer /\ ReadsAreCurrent(r)
      /\ apc[r] = "session" /\ r \in Requests /\ End(r, "reused")
  BY DEF IndInv, RefreshCurrent, Reuse, Requests, Issuers
<1>2. PICK f \in Logins : f = family[cookie[r]]
  BY <1>1, IssuedTokens DEF ReadsAreCurrent
<1>3. cookie[r] \in Issued /\ sessions[f] # "absent" /\ Holds(r, SessionRow(f))
  BY <1>1, <1>2, IssuedTokens DEF ReadsAreCurrent
<1>4. PICK S \in SUBSET Logins : S = IF live[r] THEN {f} ELSE {}
  OBVIOUS
<1>5. sessions' = Revoke(S)
  BY <1>1, <1>2, <1>4 DEF Reuse, Revoke, TypeOK
<1>6. /\ sessions' \in [Logins -> {"absent", "active", "revoked"}]
      /\ \A s \in Logins : sessions'[s] = IF s \in S THEN "revoked" ELSE sessions[s]
      /\ \A s \in Logins : sessions'[s] = "absent" <=> sessions[s] = "absent"
      /\ \A v, X : Cardinality((Active(v) \ X)') <= Cardinality(Active(v) \ X)
      /\ \A v : Cardinality(Active(v)') <= Cardinality(Active(v))
  BY <1>1, <1>3, <1>4, <1>5, Revoking
<1>7. /\ held' \subseteq Requests \X Rows
      /\ LocksExclusive'
      /\ \A p \in Requests \ {r} : \A x \in Rows : Holds(p, x) => Holds(p, x)'
      /\ apc' \in [Requests -> {"idle", "token", "session", "listed", "read",
                                "checked"} \cup Answers]
      /\ apc'[r] = "reused"
      /\ \A p \in Requests \ {r} : apc'[p] = apc[p]
  BY <1>1, Releasing DEF Answers
<1>8. /\ UNCHANGED <<born, lapsed, tokens, family, replaced, denied>>
      /\ UNCHANGED <<cookie, bearer, marked, spent, live, inserts>>
      /\ Issued' = Issued
  BY DEF Reuse, requestVars, Issued
<1>9. TypeOK'
  BY <1>1, <1>6, <1>7, <1>8 DEF TypeOK
<1>10. IssuedByAnswer'
  BY <1>1, <1>6, <1>7, <1>8 DEF IssuedByAnswer, TypeOK, Requests, Issuers
<1>11. RefreshCurrent'
  <2> SUFFICES ASSUME NEW p \in Refreshes PROVE ReadsAreCurrent(p)'
    BY DEF RefreshCurrent
  <2>1. p \in Requests /\ ReadsAreCurrent(p)
    BY DEF IndInv, RefreshCurrent, Requests, Issuers
  <2>2. CASE p = r
    BY <1>3, <1>7, <1>8, <2>2 DEF ReadsAreCurrent
  <2>3. CASE p # r
    <3>1. \A t \in Issued : /\ TokenRow(t) \in Rows /\ SessionRow(family[t]) \in Rows
                            /\ family[t] \in Logins
      BY <1>1, IssuedTokens, RowsOfKinds
    <3>2. apc[p] = "session" => family[cookie[p]] # f
      BY <1>1, <1>3, <2>1, <2>3, <3>1 DEF ReadsAreCurrent, LocksExclusive
    <3> QED
      BY <1>4, <1>6, <1>7, <1>8, <2>1, <2>3, <3>1, <3>2 DEF ReadsAreCurrent
  <2> QED
    BY <2>2, <2>3
<1>12. LoginMakesRoom'
  <2> SUFFICES ASSUME NEW l \in Logins, apc[l] = "listed",
                      Holds(l, UserRow(UserOf[l])) => Holds(l, UserRow(UserOf[l]))'
               PROVE  MakesRoom(l)'
    <3>1. \A l \in Logins : l \in Requests \ {r} /\ UserRow(UserOf[l]) \in Rows
      BY RowsOfKinds DEF Requests, Issuers
    <3> QED
      BY <1>7, <3>1 DEF LoginMakesRoom, MakesRoom
  <2>1. Cardinality(Active(UserOf[l])' \ marked[l]) <= Cardinality(Active(UserOf[l]) \ marked[l])
    BY <1>6
  <2>2. /\ Cardinality(Active(UserOf[l])' \ marked[l]) \in Nat
        /\ Cardinality(Active(UserOf[l]) \ marked[l]) \in Nat
    <3>1. /\ IsFiniteSet(Logins)
          /\ Active(UserOf[l])' \ marked[l] \in SUBSET Logins
          /\ Active(UserOf[l]) \ marked[l] \in SUBSET Logins
      BY DEF Active
    <3> QED
      BY <3>1, FS_Subset, FS_CardinalityType
  <2> QED
    BY <1>8, <2>1, <2>2 DEF IndInv, LoginMakesRoom, MakesRoom
<1>13. LogoutPrepared'
  <2> SUFFICES ASSUME NEW o \in Logouts PROVE Prepared(o)'
    BY DEF LogoutPrepared
  <2>1. /\ o \in Requests \ {r} /\ marked[o] \subseteq Logins /\ Prepared(o)
        /\ \A s \in Logins : SessionRow(s) \in Rows
        /\ \A t \in Issued : family[t] \in Logins
    BY <1>1, IssuedTokens, RowsOfKinds DEF IndInv, LogoutPrepared, Requests, Issuers, TypeOK
  <2>2. AllLocked(o) => AllLocked(o)'
    BY <1>7, <1>8, <2>1 DEF AllLocked
  <2> QED
    BY <1>6, <1>7, <1>8, <2>1, <2>2 DEF Prepared
<1>14. DeniedByLogout'
  BY <1>7, <1>8 DEF IndInv, DeniedByLogout, SharesNothing, Requests, Issuers
<1>15. OneFreshToken'
  BY <1>6, <1>8 DEF IndInv, OneFreshToken
<1>16. SessionLimit'
  <2>1. \A v \in Users : Cardinality(Active(v)') \in Nat /\ Cardinality(Active(v)) \in Nat
    <3>1. \A v : /\ IsFiniteSet(Logins)
                 /\ Active(v)' \in SUBSET Logins /\ Active(v) \in SUBSET Logins
      BY DEF Active
    <3> QED
      BY <3>1, FS_Subset, FS_CardinalityType
  <2> QED
    BY <1>6, <2>1 DEF IndInv, SessionLimit
<1>17. ReuseEndsSession'
  <2> SUFFICES ASSUME NEW p \in Refreshes, apc'[p] = "reused"
               PROVE  sessions'[family[cookie[p]]] = "revoked"
    BY <1>8 DEF ReuseEndsSession
  <2>1. CASE p = r
    BY <1>1, <1>2, <1>3, <1>4, <1>6, <2>1 DEF ReadsAreCurrent, TypeOK
  <2>2. CASE p # r
    <3>1. /\ p \in Requests /\ apc[p] = "reused" /\ cookie[p] \in Issued
          /\ sessions[family[cookie[p]]] = "revoked"
      BY <1>7, <2>2 DEF IndInv, ReuseEndsSession, RefreshCurrent, ReadsAreCurrent,
                        Requests, Issuers
    <3> QED
      BY <1>1, <1>6, <3>1, IssuedTokens
  <2> QED
    BY <2>1, <2>2
<1>18. LogoutTakesEffect'
  <2> SUFFICES ASSUME NEW o \in Logouts, apc'[o] = "logged_out"
               PROVE  /\ cookie[o] # None => sessions'[family[cookie[o]]] = "revoked"
                      /\ bearer[o] # None => bearer[o] \in denied
    BY <1>8 DEF LogoutTakesEffect
  <2>1. apc[o] = "logged_out" /\ (cookie[o] # None => cookie[o] \in Issued)
    BY <1>7 DEF IndInv, LogoutPrepared, Prepared, Requests
  <2> QED
    BY <1>1, <1>6, <2>1, IssuedTokens DEF IndInv, LogoutTakesEffect
<1>19. CollisionNeedsTwoSessions'
  BY <1>7, <1>8 DEF IndInv, CollisionNeedsTwoSessions, Requests, Issuers
<1> QED
  BY <1>7, <1>9, <1>10, <1>11, <1>12, <1>13, <1>14, <1>15, <1>16, <1>17, <1>18, <1>19
     DEF IndInv

LEMMA RotatePreserves ==
  ASSUME IndInv, NEW r \in Refreshes, Rotate(r)
  PROVE  IndInv'
<1> USE AuthAssumption
<1>1. /\ TypeOK /\ LocksExclusive /\ IssuedByAnswer /\ ReadsAreCurrent(r)
      /\ apc[r] = "session" /\ r \in Requests /\ r \in Issuers /\ End(r, "rotated")
  BY DEF IndInv, RefreshCurrent, Rotate, Requests, Issuers
<1>2. PICK t \in Issued : t = cookie[r]
  BY <1>1 DEF ReadsAreCurrent
<1>3. PICK f \in Logins : f = family[t]
  BY <1>1, IssuedTokens
<1>4. /\ tokens[t] = "fresh" /\ t \in Issuers /\ t # r /\ sessions[f] # "absent"
      /\ tokens[r] = "absent" /\ family[r] = None /\ Holds(r, TokenRow(t))
  <2>1. ~spent[r] /\ t \in Issuers /\ tokens[t] # "absent"
    BY DEF Rotate, Issued
  <2>2. tokens[t] # "consumed" /\ Holds(r, TokenRow(t))
    BY <1>1, <1>2, <2>1 DEF ReadsAreCurrent
  <2>3. tokens[r] = "absent"
    BY <1>1 DEF IssuedByAnswer, TypeOK
  <2>4. family[r] = None
    BY <1>1, <2>3 DEF IssuedByAnswer
  <2> QED
    BY <1>1, <1>3, <2>1, <2>2, <2>3, <2>4, IssuedTokens DEF TypeOK
<1>5. /\ tokens' = [tokens EXCEPT ![t] = "consumed", ![r] = "fresh"]
      /\ family' = [family EXCEPT ![r] = f]
      /\ replaced' = [replaced EXCEPT ![t] = r]
      /\ UNCHANGED <<sessions, born, lapsed, denied>>
      /\ UNCHANGED <<cookie, bearer, marked, spent, live, inserts>>
  BY <1>2, <1>3 DEF Rotate, requestVars
<1>6. /\ tokens'[r] = "fresh" /\ tokens'[t] = "consumed"
      /\ family'[r] = f /\ replaced'[t] = r
      /\ \A v \in Issuers \ {r} : family'[v] = family[v]
      /\ \A v \in Issuers \ {t} : replaced'[v] = replaced[v]
      /\ \A v \in Issuers \ {r, t} : tokens'[v] = tokens[v]
  BY <1>1, <1>4, <1>5 DEF TypeOK
<1>7. /\ held' \subseteq Requests \X Rows
      /\ LocksExclusive'
      /\ \A p \in Requests \ {r} : \A x \in Rows : Holds(p, x) => Holds(p, x)'
      /\ apc' \in [Requests -> {"idle", "token", "session", "listed", "read",
                                "checked"} \cup Answers]
      /\ apc'[r] = "rotated"
      /\ \A p \in Requests \ {r} : apc'[p] = apc[p]
  BY <1>1, Releasing DEF Answers
<1>8. Issued' = Issued \cup {r} /\ r \notin Issued
  BY <1>1, <1>4, <1>6 DEF Issued
<1>9. TypeOK'
  BY <1>1, <1>5, <1>7 DEF TypeOK
<1>10. IssuedByAnswer'
  <2>1. \A l \in Logins :
            /\ sessions'[l] # "absent" <=> apc'[l] = "logged_in"
            /\ tokens'[l] # "absent" <=> apc'[l] = "logged_in"
    <3> TAKE l \in Logins
    <3>1. l # r /\ l \in Requests /\ l \in Issuers
      BY DEF Requests, Issuers
    <3>2. tokens'[l] # "absent" <=> tokens[l] # "absent"
      BY <1>4, <1>6, <3>1
    <3>3. apc'[l] = apc[l] /\ sessions' = sessions
      BY <1>5, <1>7, <3>1
    <3> QED
      BY <1>1, <3>2, <3>3 DEF IssuedByAnswer
  <2>2. \A p \in Refreshes : tokens'[p] # "absent" <=> apc'[p] = "rotated"
    <3> TAKE p \in Refreshes
    <3>1. p \in Requests /\ p \in Issuers
      BY DEF Requests, Issuers
    <3> QED
      BY <1>1, <1>4, <1>6, <1>7, <3>1 DEF IssuedByAnswer
  <2>3. \A v \in Issuers :
            /\ tokens'[v] # "absent" <=> family'[v] # None
            /\ family'[v] # None => sessions'[family'[v]] # "absent"
    <3> TAKE v \in Issuers
    <3>1. f # None
      BY DEF Requests, Issuers
    <3>2. CASE v = r
      BY <1>4, <1>5, <1>6, <3>1, <3>2
    <3>3. CASE v # r
      <4>1. /\ tokens'[v] # "absent" <=> tokens[v] # "absent"
            /\ family'[v] = family[v] /\ sessions' = sessions
        BY <1>4, <1>5, <1>6, <3>3
      <4> QED
        BY <1>1, <4>1 DEF IssuedByAnswer
    <3> QED
      BY <3>2, <3>3
  <2>4. \A q \in Logins \cup Logouts : \A s \in marked'[q] : sessions'[s] # "absent"
    BY <1>1, <1>5 DEF IssuedByAnswer
  <2> QED
    BY <2>1, <2>2, <2>3, <2>4 DEF IssuedByAnswer
<1>11. RefreshCurrent'
  <2> SUFFICES ASSUME NEW p \in Refreshes, p # r PROVE ReadsAreCurrent(p)'
    BY <1>7 DEF RefreshCurrent, ReadsAreCurrent
  <2>1. p \in Requests /\ ReadsAreCurrent(p)
    BY DEF IndInv, RefreshCurrent, Requests, Issuers
  <2>2. \A v \in Issued : /\ TokenRow(v) \in Rows /\ SessionRow(family[v]) \in Rows
                          /\ v \in Issuers
    BY <1>1, IssuedTokens, RowsOfKinds
  <2>3. apc[p] \in {"token", "session"} => cookie[p] # t
    BY <1>1, <1>4, <2>1, <2>2 DEF ReadsAreCurrent, LocksExclusive
  <2>4. \A v \in Issued : /\ v \in Issued' /\ family'[v] = family[v]
                          /\ v # t => tokens'[v] = tokens[v]
    BY <1>6, <1>8, <2>2
  <2>5. apc'[p] = apc[p] /\ UNCHANGED <<sessions, cookie, spent, live>>
    BY <1>5, <1>7, <2>1
  <2>6. /\ cookie[p] \in Issued /\ apc[p] \in {"token", "session"} =>
            Holds(p, TokenRow(cookie[p]))'
        /\ cookie[p] \in Issued /\ apc[p] = "session" => 
            Holds(p, SessionRow(family[cookie[p]]))'
    <3> SUFFICES ASSUME cookie[p] \in Issued, apc[p] \in {"token", "session"}
                 PROVE  /\ Holds(p, TokenRow(cookie[p]))'
                        /\ apc[p] = "session" => Holds(p, SessionRow(family[cookie[p]]))'
      OBVIOUS
    <3>1. PICK v \in Issued : v = cookie[p]
      OBVIOUS
    <3>2. Holds(p, TokenRow(v))'
      BY <1>7, <2>1, <2>2, <3>1 DEF ReadsAreCurrent
    <3>3. PICK x : x = family[v]
      OBVIOUS
    <3>4. apc[p] = "session" => Holds(p, SessionRow(x))'
      BY <1>7, <2>1, <2>2, <3>1, <3>3 DEF ReadsAreCurrent
    <3>5. v = cookie'[p] /\ x = family'[v]
      BY <2>4, <2>5, <3>1, <3>3
    <3> QED
      BY <3>2, <3>4, <3>5
  <2> QED
    BY <2>1, <2>3, <2>4, <2>5, <2>6 DEF ReadsAreCurrent
<1>12. LoginMakesRoom'
  <2> SUFFICES ASSUME NEW l \in Logins PROVE MakesRoom(l)'
    BY DEF LoginMakesRoom
  <2>1. l \in Requests \ {r} /\ UserRow(UserOf[l]) \in Rows /\ MakesRoom(l)
    BY RowsOfKinds DEF IndInv, LoginMakesRoom, Requests, Issuers
  <2> QED
    BY <1>5, <1>7, <2>1 DEF MakesRoom, Active
<1>13. LogoutPrepared'
  <2> SUFFICES ASSUME NEW o \in Logouts PROVE Prepared(o)'
    BY DEF LogoutPrepared
  <2>1. /\ o \in Requests \ {r} /\ marked[o] \subseteq Logins /\ Prepared(o)
        /\ \A s \in Logins : SessionRow(s) \in Rows
        /\ \A v \in Issued : v \in Issuers \ {r}
    BY <1>1, <1>8, IssuedTokens, RowsOfKinds
       DEF IndInv, LogoutPrepared, Requests, Issuers, TypeOK
  <2>2. AllLocked(o) => AllLocked(o)'
    BY <1>5, <1>7, <2>1 DEF AllLocked
  <2> QED
    BY <1>5, <1>6, <1>7, <1>8, <2>1, <2>2 DEF Prepared
<1>14. DeniedByLogout' /\ SessionLimit'
  BY <1>5, <1>7 DEF IndInv, DeniedByLogout, SharesNothing, SessionLimit, Active,
                    Requests, Issuers
<1>15. OneFreshToken'
  <2>1. ASSUME NEW s \in Logins, sessions'[s] # "absent"
        PROVE  \E w \in Issued' :
                  /\ family'[w] = s /\ tokens'[w] = "fresh"
                  /\ \A v \in Issued' : family'[v] = s /\ tokens'[v] = "fresh" => v = w
    <3>1. PICK w \in Issued :
              /\ family[w] = s /\ tokens[w] = "fresh"
              /\ \A v \in Issued : family[v] = s /\ tokens[v] = "fresh" => v = w
      BY <1>5, <2>1 DEF IndInv, OneFreshToken
    <3>2. CASE s = f
      <4>1. w = t
        BY <1>3, <1>4, <3>1, <3>2
      <4>2. \A v \in Issued' : family'[v] = s /\ tokens'[v] = "fresh" => v = r
        BY <1>6, <1>8, <3>1, <4>1 DEF Issued
      <4> QED
        BY <1>6, <1>8, <3>2, <4>2
    <3>3. CASE s # f
      <4>1. w # t /\ w # r /\ w \in Issuers
        BY <1>3, <1>8, <3>1, <3>3 DEF Issued
      <4>2. \A v \in Issued' : family'[v] = s /\ tokens'[v] = "fresh" => v = w
        BY <1>6, <1>8, <3>1, <3>3 DEF Issued
      <4> QED
        BY <1>6, <1>8, <3>1, <4>1, <4>2
    <3> QED
      BY <3>2, <3>3
  <2>2. /\ \A v \in Issuers : /\ tokens[v] = "consumed" <=> replaced[v] # None
                              /\ replaced[v] # None => tokens[replaced[v]] # "absent"
        /\ \A v, w \in Issuers : replaced[v] = replaced[w] /\ replaced[v] # None => v = w
        /\ \A v \in Issuers : replaced[v] \in Issuers \cup {None}
        /\ r # None
    BY <1>1 DEF IndInv, OneFreshToken, TypeOK, Requests
  <2>3. \A v \in Issuers : replaced[v] # r
    BY <1>4, <2>2
  <2>4. \A v \in Issuers : /\ tokens'[v] = "consumed" <=> replaced'[v] # None
                           /\ replaced'[v] # None => tokens'[replaced'[v]] # "absent"
    BY <1>1, <1>4, <1>6, <2>2, <2>3
  <2>5. \A v, w \in Issuers : replaced'[v] = replaced'[w] /\ replaced'[v] # None => v = w
    BY <1>4, <1>6, <2>2, <2>3
  <2> QED
    BY <2>1, <2>4, <2>5 DEF OneFreshToken
<1>16. ReuseEndsSession'
  <2> SUFFICES ASSUME NEW p \in Refreshes, apc'[p] = "reused"
               PROVE  sessions'[family'[cookie'[p]]] = "revoked"
    BY DEF ReuseEndsSession
  <2>1. /\ apc[p] = "reused" /\ cookie[p] \in Issued
        /\ sessions[family[cookie[p]]] = "revoked"
    BY <1>7 DEF IndInv, ReuseEndsSession, RefreshCurrent, ReadsAreCurrent, Requests, Issuers
  <2> QED
    BY <1>5, <1>6, <1>8, <2>1 DEF Issued
<1>17. LogoutTakesEffect'
  <2> SUFFICES ASSUME NEW o \in Logouts, apc'[o] = "logged_out"
               PROVE  /\ cookie[o] # None => sessions[family'[cookie[o]]] = "revoked"
                      /\ bearer[o] # None => bearer[o] \in denied
    BY <1>5 DEF LogoutTakesEffect
  <2>1. apc[o] = "logged_out" /\ (cookie[o] # None => cookie[o] \in Issued)
    BY <1>7 DEF IndInv, LogoutPrepared, Prepared, Requests
  <2> QED
    BY <1>6, <1>8, <2>1 DEF IndInv, LogoutTakesEffect, Issued
<1>18. CollisionNeedsTwoSessions'
  BY <1>5, <1>7 DEF IndInv, CollisionNeedsTwoSessions, Requests, Issuers
<1> QED
  BY <1>7, <1>9, <1>10, <1>11, <1>12, <1>13, <1>14, <1>15, <1>16, <1>17, <1>18 DEF IndInv

(* A request leaves the room another login needs, unless it adds sessions. *)
LEMMA RoomLeft ==
  ASSUME TypeOK, NEW v, NEW X, Active(v)' \subseteq Active(v),
         NEW n \in Nat, Cardinality(Active(v) \ X) < n
  PROVE  Cardinality(Active(v)' \ X) < n
<1>1. /\ IsFiniteSet(Active(v) \ X)
      /\ Active(v)' \ X \in SUBSET (Active(v) \ X)
  BY ActiveFinite, FS_Difference
<1>2. /\ Cardinality(Active(v)' \ X) <= Cardinality(Active(v) \ X)
      /\ Cardinality(Active(v)' \ X) \in Nat
      /\ Cardinality(Active(v) \ X) \in Nat
  BY <1>1, FS_Subset, FS_CardinalityType
<1> QED
  BY <1>2

LEMMA LogOutPreserves ==
  ASSUME IndInv, NEW o \in Logouts, LogOut(o)
  PROVE  IndInv'
<1> USE AuthAssumption
<1>1. /\ TypeOK /\ LocksExclusive /\ IssuedByAnswer /\ Prepared(o) /\ AllLocked(o)
      /\ apc[o] = "checked" /\ o \in Requests /\ o \notin Issuers /\ End(o, "logged_out")
      /\ ~Collides(o)
  BY DEF IndInv, LogoutPrepared, Prepared, LogOut, Requests
<1>2. PICK S \in SUBSET Logins : S = marked[o]
  BY <1>1 DEF TypeOK
<1>3. /\ sessions' \in [Logins -> {"absent", "active", "revoked"}]
      /\ \A s \in Logins : sessions'[s] = IF s \in S THEN "revoked" ELSE sessions[s]
      /\ \A s \in Logins : sessions'[s] = "absent" <=> sessions[s] = "absent"
  <2>1. sessions' = Revoke(S) /\ \A s \in S : sessions[s] # "absent"
    BY <1>1, <1>2 DEF LogOut, IssuedByAnswer
  <2> QED
    BY <1>1, <2>1, Revoking
<1>4. \A v : Active(v)' \subseteq Active(v)
  BY <1>3 DEF Active
<1>5. /\ held' \subseteq Requests \X Rows
      /\ LocksExclusive'
      /\ \A p \in Requests \ {o} : \A x \in Rows : Holds(p, x) => Holds(p, x)'
      /\ apc' \in [Requests -> {"idle", "token", "session", "listed", "read",
                                "checked"} \cup Answers]
      /\ apc'[o] = "logged_out"
      /\ \A p \in Requests \ {o} : apc'[p] = apc[p]
  BY <1>1, Releasing DEF Answers
<1>6. /\ denied' = denied \cup {j \in Issuers : inserts[o] /\ j = bearer[o]}
      /\ UNCHANGED <<born, lapsed, tokens, family, replaced>>
      /\ UNCHANGED <<cookie, bearer, marked, spent, live, inserts>>
      /\ Issued' = Issued
  BY DEF LogOut, requestVars, Issued
<1>7. TypeOK'
  BY <1>1, <1>3, <1>5, <1>6 DEF TypeOK
<1>8. IssuedByAnswer'
  BY <1>1, <1>3, <1>5, <1>6 DEF IssuedByAnswer, TypeOK, Requests, Issuers
<1>9. RefreshCurrent'
  <2> SUFFICES ASSUME NEW p \in Refreshes PROVE ReadsAreCurrent(p)'
    BY DEF RefreshCurrent
  <2>1. p \in Requests \ {o} /\ ReadsAreCurrent(p)
    BY DEF IndInv, RefreshCurrent, Requests, Issuers
  <2>2. \A t \in Issued : /\ TokenRow(t) \in Rows /\ SessionRow(family[t]) \in Rows
                          /\ family[t] \in Logins
    BY <1>1, IssuedTokens, RowsOfKinds
  <2>3. apc[p] = "session" => family[cookie[p]] \notin S
    BY <1>1, <1>2, <2>1, <2>2 DEF ReadsAreCurrent, LocksExclusive, AllLocked
  <2> QED
    BY <1>3, <1>5, <1>6, <2>1, <2>2, <2>3 DEF ReadsAreCurrent
<1>10. LoginMakesRoom'
  <2> SUFFICES ASSUME NEW l \in Logins PROVE MakesRoom(l)'
    BY DEF LoginMakesRoom
  <2>1. l \in Requests \ {o} /\ UserRow(UserOf[l]) \in Rows /\ MakesRoom(l)
    BY RowsOfKinds DEF IndInv, LoginMakesRoom, Requests, Issuers
  <2>2. Cardinality(Active(UserOf[l]) \ marked[l]) < MaxSessions =>
            Cardinality(Active(UserOf[l])' \ marked[l]) < MaxSessions
    BY <1>1, <1>4, RoomLeft
  <2> QED
    BY <1>5, <1>6, <2>1, <2>2 DEF MakesRoom
<1>11. LogoutPrepared'
  <2> SUFFICES ASSUME NEW p \in Logouts PROVE Prepared(p)'
    BY DEF LogoutPrepared
  <2>1. /\ p \in Requests /\ marked[p] \subseteq Logins /\ Prepared(p)
        /\ \A s \in Logins : SessionRow(s) \in Rows
        /\ \A t \in Issued : family[t] \in Logins
        /\ None \notin Issuers /\ denied \subseteq Issuers
    BY <1>1, IssuedTokens, RowsOfKinds DEF IndInv, LogoutPrepared, Requests, TypeOK
  <2>2. CASE p = o
    BY <1>1, <1>5, <1>6, <2>2 DEF Prepared
  <2>3. CASE p # o
    <3>1. AllLocked(p) => AllLocked(p)'
      BY <1>5, <1>6, <2>1, <2>3 DEF AllLocked
    <3>2. apc[p] = "checked" =>
              (bearer[p] # None <=> inserts[p] \/ bearer[p] \in denied')
      BY <1>6, <2>1 DEF Prepared
    <3> QED
      BY <1>3, <1>5, <1>6, <2>1, <2>3, <3>1, <3>2 DEF Prepared
  <2> QED
    BY <2>2, <2>3
<1>12. DeniedByLogout'
  <2>1. ASSUME NEW j \in denied'
        PROVE  \E p \in Logouts : apc'[p] = "logged_out" /\ bearer'[p] = j
    <3>1. CASE j \in denied
      <4>1. PICK p \in Logouts : apc[p] = "logged_out" /\ bearer[p] = j
        BY <3>1 DEF IndInv, DeniedByLogout
      <4> QED
        BY <1>1, <1>5, <1>6, <4>1 DEF Requests
    <3>2. CASE j = bearer[o]
      BY <1>5, <1>6, <3>2
    <3> QED
      BY <1>6, <2>1, <3>1, <3>2
  <2>2. ASSUME NEW p \in Logouts, apc'[p] = "checked", inserts'[p],
               NEW q \in Logouts, apc'[q] = "logged_out", bearer'[q] = bearer'[p]
        PROVE  marked'[q] \cap marked'[p] = {}
    <3>1. p # o /\ apc[p] = "checked" /\ p \in Requests /\ q \in Requests
      BY <1>5, <2>2 DEF Requests
    <3>2. CASE q = o
      <4>1. AllLocked(p) /\ marked[p] \subseteq Logins
        BY <1>1, <3>1 DEF IndInv, LogoutPrepared, Prepared, TypeOK
      <4> QED
        BY <1>1, <1>2, <1>6, <3>1, <3>2, <4>1, RowsOfKinds DEF AllLocked, LocksExclusive
    <3>3. CASE q # o
      BY <1>5, <1>6, <2>2, <3>1, <3>3 DEF IndInv, DeniedByLogout, SharesNothing
    <3> QED
      BY <3>2, <3>3
  <2> QED
    BY <2>1, <2>2 DEF DeniedByLogout, SharesNothing
<1>13. OneFreshToken'
  BY <1>3, <1>6 DEF IndInv, OneFreshToken
<1>14. SessionLimit'
  <2> SUFFICES ASSUME NEW v \in Users PROVE Cardinality(Active(v)') <= MaxSessions
    BY DEF SessionLimit
  <2>1. /\ Cardinality(Active(v)') <= Cardinality(Active(v))
        /\ Cardinality(Active(v)') \in Nat /\ Cardinality(Active(v)) \in Nat
    BY <1>4, ActiveFinite, FS_Subset, FS_CardinalityType
  <2> QED
    BY <2>1 DEF IndInv, SessionLimit
<1>15. ReuseEndsSession'
  <2> SUFFICES ASSUME NEW p \in Refreshes, apc'[p] = "reused"
               PROVE  sessions'[family[cookie[p]]] = "revoked"
    BY <1>6 DEF ReuseEndsSession
  <2>1. /\ apc[p] = "reused" /\ cookie[p] \in Issued
        /\ sessions[family[cookie[p]]] = "revoked"
    BY <1>5 DEF IndInv, ReuseEndsSession, RefreshCurrent, ReadsAreCurrent, Requests, Issuers
  <2> QED
    BY <1>1, <1>3, <2>1, IssuedTokens
<1>16. LogoutTakesEffect'
  <2> SUFFICES ASSUME NEW p \in Logouts, apc'[p] = "logged_out"
               PROVE  /\ cookie[p] # None => sessions'[family[cookie[p]]] = "revoked"
                      /\ bearer[p] # None => bearer[p] \in denied'
    BY <1>6 DEF LogoutTakesEffect
  <2>1. CASE p = o
    <3>1. cookie[o] # None => /\ cookie[o] \in Issued
                              /\ family[cookie[o]] \in Logins
                              /\ \/ sessions[family[cookie[o]]] = "revoked"
                                 \/ family[cookie[o]] \in S
      BY <1>1, <1>2, IssuedTokens DEF Prepared
    <3>2. bearer[o] # None => bearer[o] \in denied'
      BY <1>1, <1>6 DEF Prepared, TypeOK
    <3> QED
      BY <1>3, <2>1, <3>1, <3>2
  <2>2. CASE p # o
    <3>1. apc[p] = "logged_out" /\ (cookie[p] # None => cookie[p] \in Issued)
      BY <1>5, <2>2 DEF IndInv, LogoutPrepared, Prepared, Requests
    <3> QED
      BY <1>1, <1>3, <1>6, <3>1, IssuedTokens DEF IndInv, LogoutTakesEffect
  <2> QED
    BY <2>1, <2>2
<1>17. CollisionNeedsTwoSessions'
  <2> SUFFICES ASSUME NEW p \in Logouts, apc'[p] = "error"
               PROVE  \E q \in Logouts \ {p} :
                        /\ apc'[q] = "logged_out" /\ bearer'[q] = bearer'[p]
                        /\ marked'[q] \cap marked'[p] = {}
    BY DEF CollisionNeedsTwoSessions
  <2>1. apc[p] = "error"
    BY <1>5 DEF Requests
  <2>2. PICK q \in Logouts \ {p} :
            /\ apc[q] = "logged_out" /\ bearer[q] = bearer[p]
            /\ marked[q] \cap marked[p] = {}
    BY <2>1 DEF IndInv, CollisionNeedsTwoSessions
  <2> QED
    BY <1>1, <1>5, <1>6, <2>2 DEF Requests
<1> QED
  BY <1>5, <1>7, <1>8, <1>9, <1>10, <1>11, <1>12, <1>13, <1>14, <1>15, <1>16, <1>17
     DEF IndInv

LEMMA LogInPreserves ==
  ASSUME IndInv, NEW l \in Logins, LogIn(l)
  PROVE  IndInv'
<1> USE AuthAssumption
<1>1. /\ TypeOK /\ LocksExclusive /\ IssuedByAnswer /\ MakesRoom(l) /\ AllLocked(l)
      /\ apc[l] = "listed" /\ l \in Requests /\ l \in Issuers /\ l \notin Refreshes
      /\ End(l, "logged_in")
  BY DEF IndInv, LoginMakesRoom, LogIn, Requests, Issuers
<1>2. PICK S \in SUBSET Logins : S = marked[l]
  BY <1>1 DEF TypeOK
<1>3. /\ sessions[l] = "absent" /\ tokens[l] = "absent" /\ family[l] = None
      /\ l \notin S /\ l # None
  <2>1. sessions[l] = "absent" /\ tokens[l] = "absent"
    BY <1>1 DEF IssuedByAnswer
  <2>2. family[l] = None
    BY <1>1, <2>1 DEF IssuedByAnswer
  <2>3. l \notin S
    BY <1>1, <1>2, <2>1 DEF IssuedByAnswer
  <2> QED
    BY <1>1, <2>1, <2>2, <2>3
<1>4. /\ sessions' = [Revoke(S) EXCEPT ![l] = "active"]
      /\ born' = [born EXCEPT ![l] = Cardinality({s \in Logins : sessions[s] # "absent"})]
      /\ tokens' = [tokens EXCEPT ![l] = "fresh"]
      /\ family' = [family EXCEPT ![l] = l]
      /\ UNCHANGED <<lapsed, replaced, denied>>
      /\ UNCHANGED <<cookie, bearer, marked, spent, live, inserts>>
  BY <1>2 DEF LogIn, requestVars
<1>5. /\ sessions' \in [Logins -> {"absent", "active", "revoked"}]
      /\ sessions'[l] = "active"
      /\ \A s \in Logins \ {l} :
            sessions'[s] = IF s \in S THEN "revoked" ELSE sessions[s]
      /\ tokens'[l] = "fresh" /\ family'[l] = l
      /\ \A t \in Issuers \ {l} : tokens'[t] = tokens[t] /\ family'[t] = family[t]
  BY <1>1, <1>4 DEF TypeOK, Revoke
<1>6. \A s \in Logins \ {l} : sessions'[s] = "absent" <=> sessions[s] = "absent"
  BY <1>1, <1>2, <1>5 DEF IssuedByAnswer
<1>7. /\ held' \subseteq Requests \X Rows
      /\ LocksExclusive'
      /\ \A p \in Requests \ {l} : \A x \in Rows : Holds(p, x) => Holds(p, x)'
      /\ apc' \in [Requests -> {"idle", "token", "session", "listed", "read",
                                "checked"} \cup Answers]
      /\ apc'[l] = "logged_in"
      /\ \A p \in Requests \ {l} : apc'[p] = apc[p]
  BY <1>1, Releasing DEF Answers
<1>8. /\ Issued' = Issued \cup {l} /\ l \notin Issued
      /\ \A t \in Issued :
            /\ t \in Issuers /\ t # l /\ family[t] # l
            /\ family[t] \in Logins /\ family'[t] = family[t]
            /\ tokens'[t] = tokens[t]
            /\ TokenRow(t) \in Rows /\ SessionRow(family[t]) \in Rows
  <2>1. Issued' = Issued \cup {l} /\ l \notin Issued
    BY <1>1, <1>3, <1>5 DEF Issued
  <2>2. \A t \in Issued : t \in Issuers /\ t # l /\ family[t] # l /\ family[t] \in Logins
    BY <1>1, <1>3, <2>1, IssuedTokens
  <2> QED
    BY <1>5, <2>1, <2>2, RowsOfKinds
<1>9. TypeOK'
  <2>1. Cardinality({s \in Logins : sessions[s] # "absent"}) \in Nat
    BY FS_Subset, FS_CardinalityType
  <2> QED
    BY <1>1, <1>4, <1>5, <1>7, <2>1 DEF TypeOK
<1>10. IssuedByAnswer'
  <2>1. \A k \in Logins :
            /\ sessions'[k] # "absent" <=> apc'[k] = "logged_in"
            /\ tokens'[k] # "absent" <=> apc'[k] = "logged_in"
    <3> TAKE k \in Logins
    <3>1. k \in Requests /\ k \in Issuers
      BY DEF Requests, Issuers
    <3>2. CASE k = l
      BY <1>5, <1>7, <3>2
    <3>3. CASE k # l
      <4>1. /\ apc'[k] = apc[k] /\ tokens'[k] = tokens[k]
            /\ sessions'[k] = "absent" <=> sessions[k] = "absent"
        BY <1>5, <1>6, <1>7, <3>1, <3>3
      <4> QED
        BY <1>1, <4>1 DEF IssuedByAnswer
    <3> QED
      BY <3>2, <3>3
  <2>2. \A p \in Refreshes : tokens'[p] # "absent" <=> apc'[p] = "rotated"
    <3> TAKE p \in Refreshes
    <3>1. p \in Requests \ {l} /\ p \in Issuers \ {l}
      BY DEF Requests, Issuers
    <3> QED
      BY <1>1, <1>5, <1>7, <3>1 DEF IssuedByAnswer
  <2>3. \A t \in Issuers :
            /\ tokens'[t] # "absent" <=> family'[t] # None
            /\ family'[t] # None => sessions'[family'[t]] # "absent"
    <3> TAKE t \in Issuers
    <3>1. CASE t = l
      BY <1>3, <1>5, <3>1
    <3>2. CASE t # l
      <4>1. tokens'[t] = tokens[t] /\ family'[t] = family[t]
        BY <1>5, <3>2
      <4>2. tokens[t] # "absent" <=> family[t] # None
        BY <1>1 DEF IssuedByAnswer
      <4>3. family[t] # None => /\ family[t] \in Logins /\ family[t] # l
                                /\ sessions[family[t]] # "absent"
        BY <1>1, <1>3 DEF IssuedByAnswer, TypeOK
      <4> QED
        BY <1>6, <4>1, <4>2, <4>3
    <3> QED
      BY <3>1, <3>2
  <2>4. \A q \in Logins \cup Logouts : \A s \in marked'[q] : sessions'[s] # "absent"
    BY <1>1, <1>4, <1>5, <1>6 DEF IssuedByAnswer, TypeOK
  <2> QED
    BY <2>1, <2>2, <2>3, <2>4 DEF IssuedByAnswer
<1>11. RefreshCurrent'
  <2> SUFFICES ASSUME NEW p \in Refreshes PROVE ReadsAreCurrent(p)'
    BY DEF RefreshCurrent
  <2>1. p \in Requests \ {l} /\ ReadsAreCurrent(p)
    BY <1>1 DEF IndInv, RefreshCurrent, Requests, Issuers
  <2>2. apc[p] = "session" => family[cookie[p]] \notin S
    BY <1>1, <1>2, <1>8, <2>1 DEF ReadsAreCurrent, LocksExclusive, AllLocked
  <2>3. apc'[p] = apc[p] /\ UNCHANGED <<cookie, spent, live>>
    BY <1>4, <1>7, <2>1
  <2>4. cookie[p] \in Issued =>
            /\ cookie[p] \in Issued' /\ tokens'[cookie[p]] = tokens[cookie[p]]
            /\ family'[cookie[p]] = family[cookie[p]]
            /\ apc[p] = "session" =>
                sessions'[family[cookie[p]]] = sessions[family[cookie[p]]]
    BY <1>5, <1>8, <2>2
  <2>5. apc[p] \in {"token", "session"} => Holds(p, TokenRow(cookie[p]))'
    <3> SUFFICES ASSUME apc[p] \in {"token", "session"}
                 PROVE  Holds(p, TokenRow(cookie[p]))'
      OBVIOUS
    <3>1. PICK t \in Issued : t = cookie[p]
      BY <2>1 DEF ReadsAreCurrent
    <3>2. Holds(p, TokenRow(t))'
      BY <1>7, <1>8, <2>1, <3>1 DEF ReadsAreCurrent
    <3> QED
      BY <2>3, <3>1, <3>2
  <2>6. apc[p] = "session" => Holds(p, SessionRow(family[cookie[p]]))'
    <3> SUFFICES ASSUME apc[p] = "session"
                 PROVE  Holds(p, SessionRow(family[cookie[p]]))'
      OBVIOUS
    <3>1. PICK t \in Issued : t = cookie[p]
      BY <2>1 DEF ReadsAreCurrent
    <3>2. PICK x : x = family[t]
      OBVIOUS
    <3>3. Holds(p, SessionRow(x))'
      BY <1>7, <1>8, <2>1, <3>1, <3>2 DEF ReadsAreCurrent
    <3>4. x = family'[cookie'[p]]
      BY <1>8, <2>3, <3>1, <3>2
    <3> QED
      BY <3>3, <3>4
  <2> QED
    BY <2>1, <2>3, <2>4, <2>5, <2>6 DEF ReadsAreCurrent
<1>12. \A v : Active(v)' = IF UserOf[l] = v THEN (Active(v) \ S) \cup {l}
                                           ELSE Active(v) \ S
  BY <1>3, <1>5 DEF Active
<1>13. LoginMakesRoom'
  <2> SUFFICES ASSUME NEW k \in Logins, k # l PROVE MakesRoom(k)'
    BY <1>7 DEF LoginMakesRoom, MakesRoom
  <2>1. k \in Requests \ {l} /\ UserRow(UserOf[k]) \in Rows /\ MakesRoom(k)
    BY RowsOfKinds DEF IndInv, LoginMakesRoom, Requests, Issuers
  <2>2. apc[k] = "listed" => UserOf[k] # UserOf[l]
    BY <1>1, <2>1 DEF MakesRoom, LocksExclusive
  <2>3. UserOf[k] # UserOf[l] /\ Cardinality(Active(UserOf[k]) \ marked[k]) < MaxSessions
            => Cardinality(Active(UserOf[k])' \ marked[k]) < MaxSessions
    BY <1>1, <1>12, RoomLeft
  <2> QED
    BY <1>4, <1>7, <2>1, <2>2, <2>3 DEF MakesRoom
<1>14. LogoutPrepared'
  <2> SUFFICES ASSUME NEW o \in Logouts PROVE Prepared(o)'
    BY DEF LogoutPrepared
  <2>1. /\ o \in Requests \ {l} /\ marked[o] \subseteq Logins /\ Prepared(o)
        /\ \A s \in Logins : SessionRow(s) \in Rows
    BY <1>1, RowsOfKinds DEF IndInv, LogoutPrepared, Requests, Issuers, TypeOK
  <2>2. AllLocked(o) => AllLocked(o)'
    BY <1>4, <1>7, <2>1 DEF AllLocked
  <2>3. apc'[o] = apc[o] /\ UNCHANGED <<denied, cookie, bearer, marked, inserts>>
    BY <1>4, <1>7, <2>1
  <2>4. cookie[o] \in Issued =>
            /\ cookie[o] \in Issued' /\ family'[cookie[o]] = family[cookie[o]]
            /\ sessions[family[cookie[o]]] = "revoked" =>
                sessions'[family[cookie[o]]] = "revoked"
    BY <1>5, <1>8
  <2> QED
    BY <2>1, <2>2, <2>3, <2>4 DEF Prepared
<1>15. DeniedByLogout'
  BY <1>4, <1>7 DEF IndInv, DeniedByLogout, SharesNothing, Requests, Issuers
<1>16. OneFreshToken'
  <2>1. ASSUME NEW s \in Logins, sessions'[s] # "absent"
        PROVE  \E w \in Issued' :
                  /\ family'[w] = s /\ tokens'[w] = "fresh"
                  /\ \A v \in Issued' : family'[v] = s /\ tokens'[v] = "fresh" => v = w
    <3>1. CASE s = l
      BY <1>5, <1>8, <3>1
    <3>2. CASE s # l
      <4>1. PICK w \in Issued :
                /\ family[w] = s /\ tokens[w] = "fresh"
                /\ \A v \in Issued : family[v] = s /\ tokens[v] = "fresh" => v = w
        BY <1>6, <2>1, <3>2 DEF IndInv, OneFreshToken
      <4> QED
        BY <1>5, <1>8, <3>2, <4>1
    <3> QED
      BY <3>1, <3>2
  <2>2. /\ \A v \in Issuers : /\ tokens[v] = "consumed" <=> replaced[v] # None
                              /\ replaced[v] # None => tokens[replaced[v]] # "absent"
        /\ \A v, w \in Issuers : replaced[v] = replaced[w] /\ replaced[v] # None => v = w
        /\ \A v \in Issuers : replaced[v] \in Issuers \cup {None}
    BY <1>1 DEF IndInv, OneFreshToken, TypeOK
  <2>3. \A v \in Issuers : /\ tokens'[v] = "consumed" <=> replaced'[v] # None
                           /\ replaced'[v] # None => tokens'[replaced'[v]] # "absent"
    <3> TAKE v \in Issuers
    <3>1. tokens'[v] = "consumed" <=> tokens[v] = "consumed"
      BY <1>3, <1>5
    <3>2. replaced[v] # None => tokens'[replaced[v]] # "absent"
      BY <1>5, <2>2
    <3> QED
      BY <1>4, <2>2, <3>1, <3>2
  <2>4. \A v, w \in Issuers : replaced'[v] = replaced'[w] /\ replaced'[v] # None => v = w
    BY <1>4, <2>2
  <2> QED
    BY <2>1, <2>3, <2>4 DEF OneFreshToken
<1>17. SessionLimit'
  <2> SUFFICES ASSUME NEW v \in Users PROVE Cardinality(Active(v)') <= MaxSessions
    BY DEF SessionLimit
  <2>1. /\ IsFiniteSet(Active(v) \ S)
        /\ Cardinality(Active(v) \ S) \in Nat /\ Cardinality(Active(v)) \in Nat
        /\ Cardinality(Active(v) \ S) <= Cardinality(Active(v))
        /\ MaxSessions \in Nat
    BY ActiveFinite, FS_Difference, FS_Subset, FS_CardinalityType
  <2>2. CASE UserOf[l] = v
    <3>1. Cardinality(Active(v) \ S) < MaxSessions
      BY <1>1, <1>2, <2>2 DEF MakesRoom
    <3>2. PICK K : K = Active(v) \ S
      OBVIOUS
    <3>3. /\ IsFiniteSet(K \cup {l})
          /\ Cardinality(K \cup {l}) <= Cardinality(K) + 1
      <4>1. IsFiniteSet(K) /\ Cardinality(K) \in Nat
        BY <2>1, <3>2
      <4>2. /\ IsFiniteSet(K \cup {l})
            /\ Cardinality(K \cup {l}) =
                    IF l \in K THEN Cardinality(K) ELSE Cardinality(K) + 1
        BY <4>1, FS_AddElement, Zenon
      <4> QED
        BY <4>1, <4>2
    <3>4. Cardinality(K \cup {l}) \in Nat
      BY <3>3, FS_CardinalityType
    <3>5. Active(v)' = K \cup {l}
      BY <1>12, <2>2, <3>2
    <3> QED
      BY <2>1, <3>1, <3>2, <3>3, <3>4, <3>5
  <2>3. CASE UserOf[l] # v
    <3>1. Active(v)' = Active(v) \ S
      BY <1>12, <2>3
    <3>2. Cardinality(Active(v)) <= MaxSessions
      BY DEF IndInv, SessionLimit
    <3> QED
      BY <2>1, <3>1, <3>2
  <2> QED
    BY <2>2, <2>3
<1>18. ReuseEndsSession'
  <2> SUFFICES ASSUME NEW p \in Refreshes, apc'[p] = "reused"
               PROVE  sessions'[family'[cookie[p]]] = "revoked"
    BY <1>4 DEF ReuseEndsSession
  <2>1. /\ apc[p] = "reused" /\ cookie[p] \in Issued
        /\ sessions[family[cookie[p]]] = "revoked"
    BY <1>7 DEF IndInv, ReuseEndsSession, RefreshCurrent, ReadsAreCurrent, Requests, Issuers
  <2> QED
    BY <1>5, <1>8, <2>1
<1>19. LogoutTakesEffect'
  <2> SUFFICES ASSUME NEW o \in Logouts, apc'[o] = "logged_out"
               PROVE  /\ cookie[o] # None => sessions'[family'[cookie[o]]] = "revoked"
                      /\ bearer[o] # None => bearer[o] \in denied
    BY <1>4 DEF LogoutTakesEffect
  <2>1. apc[o] = "logged_out" /\ (cookie[o] # None => cookie[o] \in Issued)
    BY <1>7 DEF IndInv, LogoutPrepared, Prepared, Requests
  <2> QED
    BY <1>5, <1>8, <2>1 DEF IndInv, LogoutTakesEffect
<1>20. CollisionNeedsTwoSessions'
  BY <1>4, <1>7 DEF IndInv, CollisionNeedsTwoSessions, Requests, Issuers
<1> QED
  BY <1>7, <1>9, <1>10, <1>11, <1>13, <1>14, <1>15, <1>16, <1>17, <1>18, <1>19, <1>20
     DEF IndInv

-----------------------------------------------------------------------------

(* Nothing changes, or sessions lapse.                                     *)
LEMMA TimePasses ==
  ASSUME IndInv, lapsed' \subseteq Logins,
         UNCHANGED <<sessions, born, tokens, family, replaced, denied, held, apc>>,
         UNCHANGED requestVars
  PROVE  IndInv'
<1>1. /\ UNCHANGED <<sessions, born, tokens, family, replaced, denied, held, apc>>
      /\ UNCHANGED <<cookie, bearer, marked, spent, live, inserts>>
  BY DEF requestVars
<1>2. TypeOK' /\ LocksExclusive' /\ IssuedByAnswer'
  BY <1>1 DEF IndInv, TypeOK, LocksExclusive, Holds, IssuedByAnswer
<1>3. RefreshCurrent' /\ LogoutPrepared'
  BY <1>1 DEF IndInv, RefreshCurrent, ReadsAreCurrent, LogoutPrepared, Prepared, AllLocked,
              Holds, Issued
<1>4. LoginMakesRoom' /\ SessionLimit'
  BY <1>1 DEF IndInv, LoginMakesRoom, MakesRoom, SessionLimit, Active, Holds
<1>5. DeniedByLogout' /\ OneFreshToken'
  BY <1>1 DEF IndInv, DeniedByLogout, SharesNothing, OneFreshToken, Issued
<1>6. ReuseEndsSession' /\ LogoutTakesEffect' /\ CollisionNeedsTwoSessions'
  BY <1>1 DEF IndInv, ReuseEndsSession, LogoutTakesEffect, CollisionNeedsTwoSessions
<1> QED
  BY <1>2, <1>3, <1>4, <1>5, <1>6 DEF IndInv

(* The steps that only end a request.                                      *)
LEMMA EndingPreserves ==
  ASSUME IndInv,
         \/ \E r \in Refreshes : UnknownToken(r) \/ Refuse(r) \/ Limit(r)
         \/ \E l \in Logins : Deny(l)
         \/ \E o \in Logouts : FailLogOut(o)
         \/ \E q \in Requests : Abort(q)
  PROVE  IndInv'
<1> USE AuthAssumption
<1>1. ASSUME NEW r \in Refreshes, UnknownToken(r) \/ Refuse(r) \/ Limit(r)
      PROVE  IndInv'
  <2>1. /\ r \in Requests /\ apc[r] \notin Answers
        /\ End(r, "invalid") \/ End(r, "limited")
        /\ UNCHANGED <<tables, requestVars>>
    BY <1>1 DEF UnknownToken, Refuse, Limit, Requests, Issuers, Answers
  <2> QED
    BY <2>1, EndQuietly
<1>2. ASSUME NEW l \in Logins, Deny(l)
      PROVE  IndInv'
  <2>1. /\ l \in Requests /\ apc[l] \notin Answers /\ End(l, "invalid")
        /\ UNCHANGED <<tables, requestVars>>
    BY <1>2 DEF Deny, Requests, Issuers, Answers
  <2> QED
    BY <2>1, EndQuietly
<1>3. ASSUME NEW o \in Logouts, FailLogOut(o)
      PROVE  IndInv'
  <2>1. /\ o \in Requests /\ apc[o] \notin Answers /\ End(o, "error")
        /\ UNCHANGED <<tables, requestVars>>
    BY <1>3 DEF FailLogOut, Requests, Answers
  <2>2. apc[o] = "checked" /\ inserts[o] /\ bearer[o] \in denied
    BY <1>3 DEF FailLogOut, Collides
  <2>3. PICK p \in Logouts : apc[p] = "logged_out" /\ bearer[p] = bearer[o]
    BY <2>2 DEF IndInv, DeniedByLogout
  <2>4. p # o /\ marked[p] \cap marked[o] = {}
    BY <2>2, <2>3 DEF IndInv, DeniedByLogout, SharesNothing
  <2> QED
    BY <2>1, <2>3, <2>4, EndQuietly
<1>4. ASSUME NEW q \in Requests, Abort(q)
      PROVE  IndInv'
  <2>1. /\ apc[q] \notin Answers /\ End(q, "aborted")
        /\ UNCHANGED <<tables, requestVars>>
    BY <1>4 DEF Abort, Ended
  <2> QED
    BY <2>1, EndQuietly
<1> QED
  BY <1>1, <1>2, <1>3, <1>4

LEMMA NextIndInv == IndInv /\ [Next]_authVars => IndInv'
<1> SUFFICES ASSUME IndInv, [Next]_authVars PROVE IndInv'
  OBVIOUS
<1>1. ASSUME NEW r \in Refreshes, Refresh(r)
      PROVE  IndInv'
  BY <1>1, LockTokenPreserves, LockSessionPreserves, ReusePreserves, RotatePreserves,
     EndingPreserves DEF Refresh
<1>2. ASSUME NEW l \in Logins, Login(l)
      PROVE  IndInv'
  BY <1>2, ListSessionsPreserves, LockMarkedPreserves, LogInPreserves DEF Login
<1>3. ASSUME NEW o \in Logouts, Logout(o)
      PROVE  IndInv'
  BY <1>3, ReadCookiePreserves, LockMarkedPreserves, CheckBearerPreserves, LogOutPreserves,
     EndingPreserves DEF Logout
<1>4. ASSUME \/ UNCHANGED authVars
             \/ \E s \in Logins : Lapse(s)
      PROVE  IndInv'
  <2>1. /\ lapsed' \subseteq Logins
        /\ UNCHANGED <<sessions, born, tokens, family, replaced, denied, held, apc>>
        /\ UNCHANGED requestVars
    BY <1>4 DEF authVars, requestVars, Lapse, IndInv, TypeOK
  <2> QED
    BY <2>1, TimePasses
<1> QED
  BY <1>1, <1>2, <1>3, <1>4, EndingPreserves DEF Next, Quiet

LEMMA Invariance == Spec => []IndInv
BY InitIndInv, NextIndInv, PTL DEF Spec

(* A revoked session stays so, and gets no further token: a refresh issues *)
(* one only to the session it holds and has seen active.                   *)
LEMMA NextRevoked ==
  ASSUME IndInv, [Next]_authVars, NEW s \in Logins, sessions[s] = "revoked"
  PROVE  /\ sessions'[s] = "revoked"
         /\ \A t \in Issuers : family[t] = None => family'[t] # s
<1> USE AuthAssumption
<1>1. \A t \in Issuers : family[t] = None => family[t] # s
  BY DEF Requests, Issuers
<1>2. ASSUME NEW r \in Refreshes, Reuse(r)
      PROVE  sessions'[s] = "revoked" /\ UNCHANGED family
  BY <1>2 DEF Reuse, Revoke
<1>3. ASSUME NEW r \in Refreshes, Rotate(r)
      PROVE  /\ sessions'[s] = "revoked"
             /\ \A t \in Issuers : family[t] = None => family'[t] # s
  <2>1. family[cookie[r]] # s /\ r \in Issuers
    BY <1>3 DEF Rotate, IndInv, RefreshCurrent, ReadsAreCurrent, Issuers
  <2>2. UNCHANGED sessions /\ family' = [family EXCEPT ![r] = family[cookie[r]]]
    BY <1>3 DEF Rotate
  <2> QED
    BY <1>1, <2>1, <2>2 DEF IndInv, TypeOK
<1>4. ASSUME NEW l \in Logins, LogIn(l)
      PROVE  /\ sessions'[s] = "revoked"
             /\ \A t \in Issuers : family[t] = None => family'[t] # s
  <2>1. l # s
    BY <1>4 DEF LogIn, IndInv, IssuedByAnswer
  <2>2. /\ sessions' = [Revoke(marked[l]) EXCEPT ![l] = "active"]
        /\ family' = [family EXCEPT ![l] = l]
    BY <1>4 DEF LogIn
  <2> QED
    BY <1>1, <2>1, <2>2 DEF Revoke, IndInv, TypeOK
<1>5. ASSUME NEW o \in Logouts, LogOut(o)
      PROVE  sessions'[s] = "revoked" /\ UNCHANGED family
  BY <1>5 DEF LogOut, Revoke
<1>6. ASSUME UNCHANGED <<sessions, family>>
      PROVE  sessions'[s] = "revoked" /\ UNCHANGED family
  BY <1>6
<1>7. \/ \E r \in Refreshes : Reuse(r) \/ Rotate(r)
      \/ \E l \in Logins : LogIn(l)
      \/ \E o \in Logouts : LogOut(o)
      \/ UNCHANGED <<sessions, family>>
  <2>1. CASE \E r \in Refreshes : UnknownToken(r) \/ Refresh(r)
    BY <2>1 DEF Refresh, UnknownToken, LockToken, ReadToken, LockSession, ReadSession,
                Refuse, Limit, tables
  <2>2. CASE \E l \in Logins : Deny(l) \/ Login(l)
    BY <2>2 DEF Login, Deny, ListSessions, ReadActive, LockMarked, tables
  <2>3. CASE \E o \in Logouts : Logout(o)
    BY <2>3 DEF Logout, ReadCookie, LockMarked, CheckBearer, ReadBearer, FailLogOut, tables
  <2>4. CASE \/ \E q \in Requests : Abort(q)
             \/ \E x \in Logins : Lapse(x)
             \/ Quiet \/ UNCHANGED authVars
    BY <2>4 DEF Abort, Lapse, Quiet, authVars, tables
  <2> QED
    BY <2>1, <2>2, <2>3, <2>4 DEF Next
<1> QED
  BY <1>1, <1>2, <1>3, <1>4, <1>5, <1>6, <1>7

-----------------------------------------------------------------------------

(* The tables, the locks and what the requests have read keep their types. *)
THEOREM TypeCorrect == Spec => []TypeOK
<1>1. IndInv => TypeOK
  BY DEF IndInv
<1> QED
  BY Invariance, <1>1, PTL

(* No user exceeds the session limit: a login lists, ends and creates the  *)
(* sessions of its user while it holds the user's row (auth.py:333-347).   *)
THEOREM SessionLimitHolds == Spec => []SessionLimit
<1>1. IndInv => SessionLimit
  BY DEF IndInv
<1> QED
  BY Invariance, <1>1, PTL

(* Every session has exactly one fresh token and every consumed one names  *)
(* its replacement, however refreshes interleave (auth.py:210-277).        *)
THEOREM OneTokenPerSession == Spec => []SingleFreshToken
<1>1. IndInv => SingleFreshToken
  <2> SUFFICES ASSUME IndInv PROVE SingleFreshToken
    OBVIOUS
  <2>1. ASSUME NEW s \in Logins, sessions[s] # "absent"
        PROVE  Cardinality({t \in Issued : family[t] = s /\ tokens[t] = "fresh"}) = 1
    <3>1. PICK t \in Issued :
            /\ family[t] = s /\ tokens[t] = "fresh"
            /\ \A v \in Issued : family[v] = s /\ tokens[v] = "fresh" => v = t
      BY <2>1 DEF IndInv, OneFreshToken
    <3>2. {v \in Issued : family[v] = s /\ tokens[v] = "fresh"} = {t}
      BY <3>1
    <3> QED
      BY <3>2, FS_Singleton
  <2> QED
    BY <2>1 DEF SingleFreshToken, IndInv, OneFreshToken, Issued
<1> QED
  BY Invariance, <1>1, PTL

(* Once the reuse of a consumed token is answered, its session has ended   *)
(* and stays so (auth.py:224-236).                                         *)
THEOREM ReuseEnds == Spec => []ReuseEndsSession
<1>1. IndInv => ReuseEndsSession
  BY DEF IndInv
<1> QED
  BY Invariance, <1>1, PTL

(* An answered logout has revoked its session and its access token,        *)
(* although it read both without locks (auth.py:287-320).                  *)
THEOREM LogoutsTakeEffect == Spec => []LogoutTakesEffect
<1>1. IndInv => LogoutTakesEffect
  BY DEF IndInv
<1> QED
  BY Invariance, <1>1, PTL

(* A logout fails on its access token only if another session's logout, or *)
(* one of no session, has presented the same token (auth.py:306-315).      *)
THEOREM CollisionsNeedTwoSessions == Spec => []CollisionNeedsTwoSessions
<1>1. IndInv => CollisionNeedsTwoSessions
  BY DEF IndInv
<1> QED
  BY Invariance, <1>1, PTL

(* No step brings a revoked session back or gives it a token.              *)
THEOREM RevocationIsFinal == Spec => RevokedStaysRevoked
<1>1. ASSUME IndInv, [Next]_authVars
      PROVE  [\A s \in Logins : sessions[s] = "revoked" =>
                /\ sessions'[s] = "revoked"
                /\ \A t \in Issuers : family[t] = None => family'[t] # s]_authVars
  BY <1>1, NextRevoked
<1> QED
  BY Invariance, <1>1, PTL DEF Spec, RevokedStaysRevoked

-----------------------------------------------------------------------------
(* Waiting for locks.                                                      *)

(* Requests stand only where their own statements are.                     *)
Stands(q) ==
    /\ q \in Refreshes => apc[q] \in {"idle", "token", "session"} \cup Answers
    /\ q \in Logins => apc[q] \in {"idle", "listed"} \cup Answers
    /\ q \in Logouts => apc[q] \in {"idle", "read", "checked"} \cup Answers

(* A login ends sessions of its own user, and a logout at most one.        *)
EndsOwn(q) ==
    /\ q \in Logins => \A s \in marked[q] : UserOf[s] = UserOf[q]
    /\ q \in Logouts => \A s, t \in marked[q] : s = t

(* A request holds rows while it is in progress: a refresh a token until   *)
(* it has its session too, a login its user and sessions it ends, a logout *)
(* the session it ends.                                                    *)
HoldsFor(q, row) ==
    /\ InProgress(q)
    /\ q \in Refreshes => apc[q] = "session" \/ \E t \in Issuers : row = TokenRow(t)
    /\ q \in Logins => \/ row = UserRow(UserOf[q])
                       \/ \E s \in marked[q] : row = SessionRow(s)
    /\ q \in Logouts => \E s \in marked[q] : row = SessionRow(s)

LocksInUse ==
    \A q \in Requests : /\ Stands(q) /\ EndsOwn(q)
                        /\ \A row \in Rows : Holds(q, row) => HoldsFor(q, row)

LEMMA LocksInit == Init => LocksInUse
BY AuthAssumption DEF Init, LocksInUse, Stands, EndsOwn, Holds, Requests, Issuers

(* The step of one request.                                                *)
LEMMA OneActs ==
  ASSUME LocksInUse, NEW q \in Requests,
         \A p \in Requests \ {q} : apc'[p] = apc[p],
         \A p \in (Logins \cup Logouts) \ {q} : marked'[p] = marked[p],
         \A p \in Requests \ {q} : \A x \in Rows : Holds(p, x)' => Holds(p, x),
         \A x \in Rows : Holds(q, x)' => HoldsFor(q, x)',
         Stands(q)', EndsOwn(q)'
  PROVE  LocksInUse'
<1> SUFFICES ASSUME NEW p \in Requests, p # q
             PROVE  /\ Stands(p)' /\ EndsOwn(p)'
                    /\ \A row \in Rows : Holds(p, row)' => HoldsFor(p, row)'
  BY DEF LocksInUse
<1>1. /\ Stands(p) /\ EndsOwn(p) /\ apc'[p] = apc[p]
      /\ p \in Logins \cup Logouts => marked'[p] = marked[p]
      /\ \A row \in Rows : Holds(p, row)' => HoldsFor(p, row)
  BY DEF LocksInUse
<1>2. Stands(p)'
  BY <1>1 DEF Stands
<1>3. EndsOwn(p)'
  BY <1>1 DEF EndsOwn
<1>4. ASSUME NEW row \in Rows, HoldsFor(p, row) PROVE HoldsFor(p, row)'
  BY <1>1, <1>4 DEF HoldsFor, InProgress, Ended
<1> QED
  BY <1>1, <1>2, <1>3, <1>4

LEMMA OneEnds ==
  ASSUME TypeOK, LocksInUse, NEW q \in Requests, NEW result \in Answers,
         End(q, result), UNCHANGED marked
  PROVE  LocksInUse'
<1>1. /\ apc'[q] = result
      /\ \A p \in Requests \ {q} : apc'[p] = apc[p]
      /\ held' = {h \in held : h[1] # q}
  BY DEF End, Goto, TypeOK
<1>2. /\ \A p \in Requests \ {q} : \A x \in Rows : Holds(p, x)' => Holds(p, x)
      /\ \A x \in Rows : ~Holds(q, x)'
  BY <1>1 DEF Holds
<1>3. Stands(q)' /\ EndsOwn(q)'
  BY <1>1 DEF Stands, EndsOwn, LocksInUse
<1> QED
  BY <1>1, <1>2, <1>3, OneActs

(* A request takes a row it needs and goes on.                             *)
LEMMA OneTakes ==
  ASSUME TypeOK, LocksInUse, NEW q \in Requests, NEW row \in Rows,
         Take(q, row), HoldsFor(q, row)',
         \A p \in Requests \ {q} : apc'[p] = apc[p],
         \A p \in (Logins \cup Logouts) \ {q} : marked'[p] = marked[p],
         \A x \in Rows : Holds(q, x) => HoldsFor(q, x)',
         Stands(q)', EndsOwn(q)'
  PROVE  LocksInUse'
<1>1. held' = held \cup {<<q, row>>}
  BY DEF Take
<1>2. /\ \A p \in Requests \ {q} : \A x \in Rows : Holds(p, x)' => Holds(p, x)
      /\ \A x \in Rows : Holds(q, x)' => Holds(q, x) \/ x = row
  BY <1>1 DEF Holds
<1> QED
  BY <1>2, OneActs

LEMMA RefreshLocks ==
  ASSUME IndInv, LocksInUse, NEW r \in Refreshes, LockToken(r) \/ LockSession(r)
  PROVE  LocksInUse'
<1> USE AuthAssumption
<1>0. /\ TypeOK /\ r \in Requests /\ r \notin Logins \cup Logouts
      /\ marked' = marked
  BY DEF IndInv, Requests, Issuers, LockToken, ReadToken, LockSession, ReadSession
<1>1. CASE LockToken(r)
  <2>1. PICK t \in Issued : cookie' = [cookie EXCEPT ![r] = t]
    BY <1>1 DEF LockToken, ReadToken
  <2>2. /\ apc[r] = "idle" /\ apc'[r] = "token" /\ cookie'[r] = t /\ t \in Issuers
        /\ \A p \in Requests \ {r} : apc'[p] = apc[p]
    BY <1>0, <1>1, <2>1 DEF LockToken, ReadToken, Goto, TypeOK, Issued
  <2>3. Take(r, TokenRow(t)) /\ TokenRow(t) \in Rows
    BY <1>1, <2>2, RowsOfKinds DEF LockToken
  <2>4. InProgress(r)' /\ Stands(r)' /\ EndsOwn(r)'
    BY <1>0, <2>2 DEF InProgress, Ended, Answers, Stands, EndsOwn
  <2>5. HoldsFor(r, TokenRow(t))'
    BY <1>0, <2>2, <2>4 DEF HoldsFor
  <2>6. \A x \in Rows : ~Holds(r, x)
    BY <1>0, <2>2 DEF LocksInUse, HoldsFor, InProgress
  <2> QED
    BY <1>0, <2>2, <2>3, <2>4, <2>5, <2>6, OneTakes
<1>2. CASE LockSession(r)
  <2> DEFINE s == family[cookie[r]]
  <2>1. apc[r] = "token" /\ cookie[r] \in Issued
    BY <1>2 DEF LockSession, ReadSession, IndInv, RefreshCurrent, ReadsAreCurrent
  <2>2. SessionRow(s) \in Rows
    BY <1>0, <2>1, IssuedTokens, RowsOfKinds DEF IndInv
  <2>3. /\ Take(r, SessionRow(s)) /\ apc'[r] = "session"
        /\ \A p \in Requests \ {r} : apc'[p] = apc[p]
    BY <1>0, <1>2 DEF LockSession, ReadSession, Goto, TypeOK
  <2>4. InProgress(r)' /\ Stands(r)' /\ EndsOwn(r)'
    BY <1>0, <2>3 DEF InProgress, Ended, Answers, Stands, EndsOwn
  <2>5. \A x : HoldsFor(r, x)'
    BY <1>0, <2>3, <2>4 DEF HoldsFor
  <2> QED
    BY <1>0, <2>2, <2>3, <2>4, <2>5, OneTakes
<1> QED
  BY <1>1, <1>2

LEMMA LoginLocks ==
  ASSUME IndInv, LocksInUse, NEW l \in Logins, ListSessions(l)
  PROVE  LocksInUse'
<1> USE AuthAssumption
<1>0. /\ TypeOK /\ l \in Requests /\ l \notin Refreshes \cup Logouts
  BY DEF IndInv, Requests, Issuers
<1>1. /\ apc[l] = "idle" /\ apc'[l] = "listed"
      /\ marked'[l] = Oldest(UserOf[l])
      /\ \A p \in Requests \ {l} : apc'[p] = apc[p]
      /\ \A p \in (Logins \cup Logouts) \ {l} : marked'[p] = marked[p]
      /\ Take(l, UserRow(UserOf[l]))
  BY <1>0 DEF ListSessions, ReadActive, Goto, TypeOK
<1>2. \A s \in marked'[l] : UserOf[s] = UserOf[l]
  BY <1>1 DEF Oldest, Active
<1>3. InProgress(l)' /\ Stands(l)' /\ EndsOwn(l)'
  BY <1>0, <1>1, <1>2 DEF InProgress, Ended, Answers, Stands, EndsOwn
<1>4. HoldsFor(l, UserRow(UserOf[l]))'
  BY <1>0, <1>3 DEF HoldsFor
<1>5. \A x \in Rows : ~Holds(l, x)
  BY <1>0, <1>1 DEF LocksInUse, HoldsFor, InProgress
<1>6. UserRow(UserOf[l]) \in Rows
  BY RowsOfKinds
<1> QED
  BY <1>0, <1>1, <1>3, <1>4, <1>5, <1>6, OneTakes

LEMMA MarkedLocks ==
  ASSUME IndInv, LocksInUse, NEW q \in Logins \cup Logouts, LockMarked(q)
  PROVE  LocksInUse'
<1> USE AuthAssumption
<1>0. /\ TypeOK /\ q \in Requests /\ q \notin Refreshes
      /\ UNCHANGED <<apc, marked>>
  BY DEF IndInv, Requests, Issuers, LockMarked, requestVars
<1>1. PICK s \in marked[q] : Take(q, SessionRow(s))
  BY DEF LockMarked
<1>2. SessionRow(s) \in Rows
  BY <1>0, <1>1, RowsOfKinds DEF TypeOK
<1>3. apc[q] \in {"listed", "read"} /\ Stands(q) /\ EndsOwn(q)
  BY <1>0 DEF LockMarked, LocksInUse
<1>4. InProgress(q)' /\ Stands(q)' /\ EndsOwn(q)'
  BY <1>0, <1>3 DEF InProgress, Ended, Answers, Stands, EndsOwn
<1>5. HoldsFor(q, SessionRow(s))'
  BY <1>0, <1>1, <1>4 DEF HoldsFor
<1>6. \A x \in Rows : Holds(q, x) => HoldsFor(q, x)'
  BY <1>0, <1>4 DEF LocksInUse, HoldsFor
<1> QED
  BY <1>0, <1>1, <1>2, <1>4, <1>5, <1>6, OneTakes

LEMMA LogoutReads ==
  ASSUME IndInv, LocksInUse, NEW o \in Logouts, ReadCookie(o) \/ CheckBearer(o)
  PROVE  LocksInUse'
<1> USE AuthAssumption
<1>0. /\ TypeOK /\ o \in Requests /\ o \notin Issuers /\ held' = held
  BY DEF IndInv, Requests, Issuers, ReadCookie, CheckBearer, ReadBearer
<1>1. CASE ReadCookie(o)
  <2>1. PICK t \in Issued \cup {None} :
          marked' = [marked EXCEPT ![o] =
            {s \in Logins : t # None /\ family[t] = s /\ sessions[s] = "active"}]
    BY <1>1 DEF ReadCookie
  <2>2. /\ apc[o] = "idle" /\ apc'[o] = "read"
        /\ \A p \in Requests \ {o} : apc'[p] = apc[p]
    BY <1>0, <1>1 DEF ReadCookie, Goto, TypeOK
  <2>3. /\ \A s, x \in marked'[o] : s = x
        /\ \A p \in (Logins \cup Logouts) \ {o} : marked'[p] = marked[p]
    BY <1>0, <2>1 DEF TypeOK
  <2>4. Stands(o)' /\ EndsOwn(o)'
    BY <1>0, <2>2, <2>3 DEF Stands, EndsOwn, Issuers
  <2>5. \A x \in Rows : ~Holds(o, x)'
    BY <1>0, <2>2 DEF LocksInUse, HoldsFor, InProgress, Holds
  <2>6. \A p \in Requests \ {o} : \A x \in Rows : Holds(p, x)' => Holds(p, x)
    BY <1>0 DEF Holds
  <2> QED
    BY <1>0, <2>2, <2>3, <2>4, <2>5, <2>6, OneActs
<1>2. CASE CheckBearer(o)
  <2>1. /\ apc[o] = "read" /\ apc'[o] = "checked" /\ marked' = marked
        /\ \A p \in Requests \ {o} : apc'[p] = apc[p]
    BY <1>0, <1>2 DEF CheckBearer, ReadBearer, Goto, TypeOK
  <2>2. InProgress(o)' /\ Stands(o)' /\ EndsOwn(o)'
    BY <1>0, <2>1 DEF Stands, EndsOwn, Issuers, LocksInUse, InProgress, Ended, Answers
  <2>3. \A p \in Requests : \A x \in Rows : Holds(p, x)' => Holds(p, x)
    BY <1>0 DEF Holds
  <2>4. \A x \in Rows : Holds(o, x)' => HoldsFor(o, x)'
    BY <1>0, <2>1, <2>2, <2>3 DEF LocksInUse, HoldsFor, Issuers
  <2> QED
    BY <1>0, <2>1, <2>2, <2>3, <2>4, OneActs
<1> QED
  BY <1>1, <1>2

LEMMA LocksStep ==
  ASSUME IndInv, LocksInUse, [Next]_authVars
  PROVE  LocksInUse'
<1>0. TypeOK
  BY DEF IndInv
<1>1. ASSUME NEW q \in Requests,
             \E result \in Answers : End(q, result), UNCHANGED marked
      PROVE  LocksInUse'
  BY <1>0, <1>1, OneEnds
<1>2. CASE \E r \in Refreshes : UnknownToken(r) \/ Refresh(r)
  <2> PICK r \in Refreshes : UnknownToken(r) \/ Refresh(r)
    BY <1>2
  <2>1. r \in Requests
    BY DEF Requests, Issuers
  <2>2. CASE LockToken(r) \/ LockSession(r)
    BY <2>2, RefreshLocks
  <2>3. CASE UnknownToken(r) \/ Reuse(r) \/ Refuse(r) \/ Limit(r) \/ Rotate(r)
    BY <1>1, <2>1, <2>3
       DEF UnknownToken, Reuse, Refuse, Limit, Rotate, requestVars, Answers
  <2> QED
    BY <2>2, <2>3 DEF Refresh
<1>3. CASE \E l \in Logins : Deny(l) \/ Login(l)
  <2> PICK l \in Logins : Deny(l) \/ Login(l)
    BY <1>3
  <2>1. l \in Requests
    BY DEF Requests, Issuers
  <2>2. CASE ListSessions(l) \/ LockMarked(l)
    BY <2>2, LoginLocks, MarkedLocks
  <2>3. CASE Deny(l) \/ LogIn(l)
    BY <1>1, <2>1, <2>3 DEF Deny, LogIn, requestVars, Answers
  <2> QED
    BY <2>2, <2>3 DEF Login
<1>4. CASE \E o \in Logouts : Logout(o)
  <2> PICK o \in Logouts : Logout(o)
    BY <1>4
  <2>1. o \in Requests
    BY DEF Requests
  <2>2. CASE ReadCookie(o) \/ CheckBearer(o) \/ LockMarked(o)
    BY <2>2, LogoutReads, MarkedLocks
  <2>3. CASE LogOut(o) \/ FailLogOut(o)
    BY <1>1, <2>1, <2>3 DEF LogOut, FailLogOut, requestVars, Answers
  <2> QED
    BY <2>2, <2>3 DEF Logout
<1>5. CASE \E q \in Requests : Abort(q)
  BY <1>1, <1>5 DEF Abort, requestVars, Answers
<1>6. CASE (\E s \in Logins : Lapse(s)) \/ Quiet \/ UNCHANGED authVars
  <2>1. UNCHANGED <<apc, held, marked>>
    BY <1>6 DEF Lapse, Quiet, authVars, requestVars
  <2> QED
    BY <2>1 DEF LocksInUse, Stands, EndsOwn, Holds, HoldsFor, InProgress, Ended
<1> QED
  BY <1>2, <1>3, <1>4, <1>5, <1>6 DEF Next

(* Who holds a session's row and is no login has all it wants: a refresh   *)
(* takes its session last, and a logout needs no other row.                *)
Unblocked(q) == \A row \in Wanted(q) : Free(row) \/ Holds(q, row)

LEMMA HolderUnblocked ==
  ASSUME IndInv, LocksInUse, NEW p \in Requests, p \notin Logins,
         NEW s \in Logins, Holds(p, SessionRow(s))
  PROVE  Unblocked(p)
<1> USE AuthAssumption
<1>1. SessionRow(s) \in Rows
  BY RowsOfKinds
<1>2. HoldsFor(p, SessionRow(s)) /\ EndsOwn(p)
  BY <1>1 DEF LocksInUse
<1>3. CASE p \in Refreshes
  <2>1. apc[p] = "session"
    BY <1>2, <1>3, RowsDiffer DEF HoldsFor
  <2> QED
    BY <1>3, <2>1 DEF Unblocked, Wanted, Issuers
<1>4. CASE p \in Logouts
  <2>1. PICK m \in marked[p] : SessionRow(s) = SessionRow(m)
    BY <1>2, <1>4 DEF HoldsFor
  <2>2. \A t \in marked[p] : SessionRow(t) = SessionRow(s)
    BY <1>2, <1>4, <2>1 DEF EndsOwn
  <2>3. p \notin Refreshes
    BY <1>4 DEF Issuers
  <2> QED
    BY <2>2, <2>3 DEF Unblocked, Wanted
<1> QED
  BY <1>3, <1>4 DEF Requests, Issuers

(* A blocked request waits for another one that holds a session's row.     *)
LEMMA BlockedByHolder ==
  ASSUME IndInv, LocksInUse, NEW q \in Requests, ~Unblocked(q)
  PROVE  \E p \in Requests \ {q} : \E s \in Logins :
            /\ Holds(p, SessionRow(s)) /\ InProgress(p)
            /\ q \in Logins => s \in marked[q] /\ apc[q] = "listed"
<1> USE AuthAssumption
<1>0. TypeOK /\ held \subseteq Requests \X Rows /\ Stands(q)
  BY DEF IndInv, TypeOK, LocksInUse
<1>1. PICK row \in Wanted(q) : ~Free(row) /\ ~Holds(q, row)
  BY DEF Unblocked
<1>2. PICK h \in held : h[2] = row
  BY <1>1 DEF Free
<1>3. h[1] \in Requests /\ row \in Rows /\ Holds(h[1], row)
  BY <1>0, <1>2 DEF Holds
<1>4. h[1] # q /\ InProgress(h[1])
  BY <1>1, <1>3 DEF LocksInUse, HoldsFor
<1>5. \E s \in Logins : /\ row = SessionRow(s)
                        /\ q \in Logins => s \in marked[q] /\ apc[q] = "listed"
  <2>1. CASE q \in Refreshes /\ apc[q] = "token" /\ row = SessionRow(family[cookie[q]])
    <3>1. cookie[q] \in Issued
      BY <2>1 DEF IndInv, RefreshCurrent, ReadsAreCurrent
    <3>2. family[cookie[q]] \in Logins
      BY <1>0, <3>1, IssuedTokens DEF IndInv
    <3> QED
      BY <2>1, <3>2
  <2>2. CASE /\ q \in Logins \cup Logouts /\ apc[q] \in {"listed", "read"}
             /\ \E s \in marked[q] : row = SessionRow(s)
    <3>1. PICK s \in marked[q] : row = SessionRow(s)
      BY <2>2
    <3>2. s \in Logins
      BY <1>0, <2>2, <3>1 DEF TypeOK
    <3>3. q \in Logins => apc[q] = "listed"
      BY <1>0, <2>2 DEF Stands, Answers
    <3> QED
      BY <3>1, <3>2, <3>3
  <2> QED
    BY <1>1, <2>1, <2>2 DEF Wanted
<1> QED
  BY <1>3, <1>4, <1>5

(* Of two logins that end one session only one can be under way, as both   *)
(* hold the row of its user.                                               *)
LEMMA ProgressOf ==
  ASSUME IndInv, LocksInUse
  PROVE  SomeRequestProceeds
<1> USE AuthAssumption
<1> SUFFICES ASSUME NEW q \in Requests, InProgress(q)
             PROVE  \E p \in Requests : InProgress(p) /\ Unblocked(p)
  BY DEF SomeRequestProceeds, Unblocked
<1>1. CASE Unblocked(q)
  BY <1>1
<1>2. CASE ~Unblocked(q)
  <2>1. PICK p \in Requests, s \in Logins :
          Holds(p, SessionRow(s)) /\ InProgress(p)
    BY <1>2, BlockedByHolder
  <2>2. CASE p \notin Logins \/ Unblocked(p)
    BY <2>1, <2>2, HolderUnblocked
  <2>3. CASE p \in Logins /\ ~Unblocked(p)
    <3>1. PICK o \in Requests \ {p}, t \in Logins :
            /\ Holds(o, SessionRow(t)) /\ InProgress(o)
            /\ t \in marked[p] /\ apc[p] = "listed"
      BY <2>3, BlockedByHolder
    <3>2. o \notin Logins
      <4> SUFFICES ASSUME o \in Logins PROVE FALSE
        OBVIOUS
      <4>1. SessionRow(t) \in Rows /\ UserRow(UserOf[p]) \in Rows
        BY <2>3, RowsOfKinds
      <4>2. HoldsFor(o, SessionRow(t)) /\ Stands(o) /\ EndsOwn(o) /\ EndsOwn(p)
        BY <3>1, <4>1 DEF LocksInUse
      <4>3. t \in marked[o]
        BY <4>2, RowsDiffer DEF HoldsFor
      <4>4. UserOf[t] = UserOf[p] /\ UserOf[t] = UserOf[o]
        BY <2>3, <3>1, <4>2, <4>3 DEF EndsOwn
      <4>5. apc[o] = "listed"
        BY <3>1, <4>2 DEF Stands, InProgress, Ended
      <4>6. Holds(o, UserRow(UserOf[p])) /\ Holds(p, UserRow(UserOf[p]))
        BY <2>3, <3>1, <4>4, <4>5 DEF IndInv, LoginMakesRoom, MakesRoom
      <4> QED
        BY <3>1, <4>1, <4>6 DEF IndInv, LocksExclusive
    <3> QED
      BY <3>1, <3>2, HolderUnblocked
  <2> QED
    BY <2>2, <2>3
<1> QED
  BY <1>1, <1>2

(* No circle of requests waits for each other's rows, whatever logins,     *)
(* refreshes and logouts meet and whatever fails, and nobody waits for one *)
(* that has ended: the user's row orders the logins, a refresh takes its   *)
(* session last and a logout nothing else (auth.py:210-236, 300-360).      *)
THEOREM NobodyDeadlocks == Spec => []SomeRequestProceeds
<1>1. IndInv /\ LocksInUse /\ [Next]_authVars => LocksInUse'
  BY LocksStep
<1>2. IndInv /\ LocksInUse => SomeRequestProceeds
  BY ProgressOf
<1> QED
  BY LocksInit, Invariance, <1>1, <1>2, PTL DEF Spec

=============================================================================
