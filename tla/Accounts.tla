------------------------------ MODULE Accounts ------------------------------
(***************************************************************************)
(* The accounts of services/auth.py: register, and ensure_bootstrap_admin, *)
(* which every process runs at startup before it serves a request.  Both   *)
(* look for an account, insert one with a flush and commit, each in one    *)
(* transaction.  An insertion waits while another transaction has inserted *)
(* a row that one of the two unique indexes of users excludes, and fails   *)
(* when such a row is committed.  No code deletes accounts.                *)
(***************************************************************************)
EXTENDS Naturals, FiniteSets

CONSTANTS
    Registrations,   \* calls of register
    Servers,         \* processes, started and restarted at any time
    Emails,          \* normalized addresses
    EmailOf,         \* the address each registration asks for
    NoEmail,         \* no administrator is configured
    Faults           \* "lost": calls and processes may die, commits may fail

Actors == Registrations \cup Servers

ASSUME AccountsAssumption ==
    /\ Registrations \cap Servers = {}
    /\ EmailOf \in [Registrations -> Emails]
    /\ NoEmail \notin Emails
    /\ Faults \subseteq {"lost"}

VARIABLES
    adminEmail,      \* bootstrap_admin_email of the settings
    row,             \* the row of users that each actor may insert
    apc              \* where each actor stands

accountVars == <<adminEmail, row, apc>>

InFlight == {"insert", "commit", "reload"}

(* The type invariant; a row that is not committed belongs to a            *)
(* transaction in progress.                                                *)
TypeOK ==
    /\ adminEmail \in Emails \cup {NoEmail}
    /\ row \in [Actors -> {"none", "inserted", "committed"}]
    /\ apc \in [Actors -> InFlight \cup {"idle", "starting", "serving", "failed",
                                "created", "denied", "internal_error", "lost"}]
    /\ \A a \in Actors : row[a] = "inserted" <=> apc[a] = "commit"

Init ==
    /\ adminEmail \in Emails \cup {NoEmail}
    /\ row = [a \in Actors |-> "none"]
    /\ apc = [a \in Actors |-> IF a \in Servers THEN "starting" ELSE "idle"]

-----------------------------------------------------------------------------

Goto(a, stage) == apc' = [apc EXCEPT ![a] = stage]

Email(a) == IF a \in Servers THEN adminEmail ELSE EmailOf[a]
Committed(a) == row[a] = "committed"
AdminExists == \E s \in Servers : Committed(s)
Taken(email) == \E a \in Actors : Committed(a) /\ Email(a) = email

(* The two partial unique indexes of users.                                *)
Excludes(a, b) ==
    /\ a # b
    /\ Email(a) = Email(b) \/ {a, b} \subseteq Servers

(* ensure_bootstrap_admin looks for an administrator.                      *)
LookupAdmin(s) ==
    /\ apc[s] = "starting"
    /\ Goto(s, CASE AdminExists -> "serving"
                 [] ~AdminExists /\ adminEmail = NoEmail -> "failed"
                 [] OTHER -> "insert")
    /\ UNCHANGED <<adminEmail, row>>

(* A slip, for the mutation runs: requests are served during startup.      *)
CheckEmailAnytime(r) ==
    /\ apc[r] = "idle"
    /\ Goto(r, IF Taken(EmailOf[r]) THEN "denied" ELSE "insert")
    /\ UNCHANGED <<adminEmail, row>>

(* register looks for the address; email_unavailable when it is taken.     *)
CheckEmail(r) ==
    /\ apc[r] = "idle"
    /\ \E s \in Servers : apc[s] = "serving"
    /\ Goto(r, IF Taken(EmailOf[r]) THEN "denied" ELSE "insert")
    /\ UNCHANGED <<adminEmail, row>>

Free(a) == \A b \in Actors : Excludes(a, b) => row[b] = "none"

(* The flush inserts the row.                                              *)
Insert(a) ==
    /\ apc[a] = "insert"
    /\ Free(a)
    /\ row' = [row EXCEPT ![a] = "inserted"]
    /\ Goto(a, "commit")
    /\ UNCHANGED adminEmail

(* Slips: a registration whose address was taken meanwhile is announced as *)
(* created, or tries again until the address is free.                      *)
InsertConflictAnnounced(a) ==
    /\ apc[a] = "insert"
    /\ \E b \in Actors : Excludes(a, b) /\ Committed(b)
    /\ Goto(a, IF a \in Servers THEN "failed" ELSE "created")
    /\ UNCHANGED <<adminEmail, row>>

InsertConflictRetried(a) ==
    /\ a \in Servers /\ apc[a] = "insert"
    /\ \E b \in Actors : Excludes(a, b) /\ Committed(b)
    /\ Goto(a, "failed")
    /\ UNCHANGED <<adminEmail, row>>

(* The flush meets a committed row.  It is outside the try block: the      *)
(* registration gets an internal error, the process fails to start.        *)
InsertConflict(a) ==
    /\ apc[a] = "insert"
    /\ \E b \in Actors : Excludes(a, b) /\ Committed(b)
    /\ Goto(a, IF a \in Servers THEN "failed" ELSE "internal_error")
    /\ UNCHANGED <<adminEmail, row>>

Commit(a) ==
    /\ apc[a] = "commit"
    /\ row' = [row EXCEPT ![a] = "committed"]
    /\ Goto(a, IF a \in Servers THEN "serving" ELSE "reload")
    /\ UNCHANGED adminEmail

(* register reloads the new user and answers 201.                          *)
Reload(r) ==
    /\ apc[r] = "reload"
    /\ Goto(r, "created")
    /\ UNCHANGED <<adminEmail, row>>

(* A slip: the row of a call that dies stays.                              *)
LoseUnrolled(a) ==
    /\ "lost" \in Faults /\ apc[a] \in InFlight
    /\ Goto(a, "lost")
    /\ UNCHANGED <<adminEmail, row>>

(* A call or process dies, or its statement or commit fails: what it has   *)
(* not committed is rolled back.                                           *)
Lose(a) ==
    /\ "lost" \in Faults /\ apc[a] \in InFlight
    /\ row' = [row EXCEPT ![a] = IF @ = "inserted" THEN "none" ELSE @]
    /\ Goto(a, "lost")
    /\ UNCHANGED adminEmail

(* A process is started again.                                             *)
Restart(s) ==
    /\ apc[s] \in {"serving", "failed", "lost"}
    /\ Goto(s, "starting")
    /\ UNCHANGED <<adminEmail, row>>

Start(s) == LookupAdmin(s) \/ Insert(s) \/ InsertConflict(s) \/ Commit(s)
Register(r) ==
    CheckEmail(r) \/ Insert(r) \/ InsertConflict(r) \/ Commit(r) \/ Reload(r)

Next ==
    \/ \E s \in Servers : Start(s) \/ Restart(s)
    \/ \E r \in Registrations : Register(r)
    \/ \E a \in Actors : Lose(a)

Spec == Init /\ [][Next]_accountVars

-----------------------------------------------------------------------------

(* No two rows share an address and there is one administrator, counting   *)
(* rows still to be committed.                                             *)
AccountsUnique ==
    \A a, b \in Actors :
        row[a] # "none" /\ row[b] # "none" => ~Excludes(a, b)

(* Nobody registers, with the administrator's address or another, before   *)
(* the administrator exists, although processes start and stop meanwhile:  *)
(* so no registration can keep the administrator from being created.       *)
AdminFirst ==
    \A r \in Registrations : apc[r] # "idle" => AdminExists

(* Answers are true: an account that was announced exists and is alone     *)
(* with its address, a refusal or an internal error means that another     *)
(* holds the address, and a process fails to start only without settings   *)
(* or when there is an administrator.                                      *)
AnswersTrue ==
    /\ \A r \in Registrations :
        /\ apc[r] = "created" =>
              {a \in Actors : Committed(a) /\ Email(a) = EmailOf[r]} = {r}
        /\ apc[r] \in {"denied", "internal_error"} =>
              ~Committed(r) /\ Taken(EmailOf[r])
    /\ \A s \in Servers :
        apc[s] = "failed" => adminEmail = NoEmail \/ AdminExists

=============================================================================
