------------------------------ MODULE Lifespan ------------------------------
(***************************************************************************)
(* The life of the processes of app/main.py, around the accounts: each     *)
(* creates the database if there is none, connects to it, opens its rate   *)
(* limiter and its checkpoint saver, ensures that there is an              *)
(* administrator, serves, and at its end closes what it has opened, last   *)
(* opened first.  An operator migrates the database meanwhile, and         *)
(* PostgreSQL and Valkey come and go.                                      *)
(*                                                                         *)
(* Here apc of Accounts is the part of a process that uses the table of    *)
(* users; it is "starting" as long as the process has not got there.       *)
(***************************************************************************)
EXTENDS Accounts

CONSTANTS
    Outages,         \* "postgres", "valkey": what may fail
    Settings         \* the values the settings may have

ASSUME LifespanAssumption ==
    /\ Outages \subseteq {"postgres", "valkey"}
    /\ Settings \subseteq [redis_url: BOOLEAN, allow_in_memory: BOOLEAN]

VARIABLES
    settings,        \* of all processes
    database,        \* the application's database
    valkey,          \* whether Valkey answers
    stage,           \* where each process stands in lifespan
    held             \* what it has opened, the rate limiter by its kind

serverVars == <<stage, held>>
lifespanVars == <<accountVars, settings, database, valkey, serverVars>>

Opening == {"probe", "create", "limiter", "saver", "bootstrap"}
Limiters == {"valkey", "memory"}
Resources == {"engine", "saver"} \cup Limiters

LifespanTypeOK ==
    /\ TypeOK
    /\ settings \in Settings
    /\ database \in {"absent", "empty", "migrated"}
    /\ valkey \in BOOLEAN
    /\ stage \in [Servers -> Opening \cup {"serving", "closing", "down"}]
    /\ held \in [Servers -> SUBSET Resources]

LifespanInit ==
    /\ Init
    /\ settings \in Settings
    /\ database \in {"absent", "migrated"}
    /\ valkey = TRUE
    /\ stage = [s \in Servers |-> "down"]
    /\ held = [s \in Servers |-> {}]

-----------------------------------------------------------------------------

At(s, place) == stage[s] = place
Move(s, place) == stage' = [stage EXCEPT ![s] = place]
Take(s, resource) == held' = [held EXCEPT ![s] = @ \cup {resource}]
world == <<settings, database, valkey>>

(* A process is started, perhaps again.                                    *)
StartUp(s) ==
    /\ At(s, "down")
    /\ Move(s, "probe")
    /\ IF apc[s] = "starting" THEN UNCHANGED accountVars ELSE Restart(s)
    /\ UNCHANGED <<world, held>>

(* ensure_database_exists looks the database up in pg_database.            *)
Probe(s) ==
    /\ At(s, "probe")
    /\ IF database = "absent"
       THEN Move(s, "create") /\ UNCHANGED held
       ELSE Move(s, "limiter") /\ Take(s, "engine")
    /\ UNCHANGED <<accountVars, world>>

(* It issues CREATE DATABASE, which fails if another process has created   *)
(* it meanwhile.                                                           *)
CreateDatabase(s) ==
    /\ At(s, "create")
    /\ IF database = "absent"
       THEN database' = "empty" /\ Move(s, "limiter") /\ Take(s, "engine")
       ELSE Move(s, "down") /\ UNCHANGED <<database, held>>
    /\ UNCHANGED <<accountVars, settings, valkey>>

(* A slip, for the mutation runs: any failure of Valkey falls back.        *)
LimiterKindAlways ==
    IF settings.redis_url /\ valkey THEN "valkey" ELSE "memory"

(* Valkey if it is configured and answers, or else the memory of the       *)
(* process if that is allowed.                                             *)
LimiterKind ==
    IF settings.redis_url /\ valkey THEN "valkey"
    ELSE IF settings.allow_in_memory THEN "memory" ELSE "none"

(* check_database_connection succeeds, and create_rate_limiter follows.    *)
OpenLimiter(s) ==
    /\ At(s, "limiter")
    /\ IF LimiterKind = "none"
       THEN Move(s, "closing") /\ UNCHANGED held
       ELSE Move(s, "saver") /\ Take(s, LimiterKind)
    /\ UNCHANGED <<accountVars, world>>

OpenSaver(s) ==
    /\ At(s, "saver")
    /\ Move(s, "bootstrap")
    /\ Take(s, "saver")
    /\ UNCHANGED <<accountVars, world>>

(* ensure_bootstrap_admin, which needs the tables of the migrations.       *)
Bootstrap(s) ==
    /\ At(s, "bootstrap") /\ database = "migrated"
    /\ Start(s)
    /\ CASE apc'[s] = "serving" -> Move(s, "serving")
         [] apc'[s] = "failed" -> Move(s, "closing")
         [] OTHER -> UNCHANGED stage
    /\ UNCHANGED <<world, held>>

TableMissing(s) ==
    /\ At(s, "bootstrap") /\ database # "migrated"
    /\ Move(s, "closing")
    /\ UNCHANGED <<accountVars, world, held>>

(* PostgreSQL fails while it is used: what is open is closed.              *)
PostgresFails(s) ==
    /\ "postgres" \in Outages
    /\ stage[s] \in Opening
    /\ Move(s, IF stage[s] \in {"probe", "create"} THEN "down" ELSE "closing")
    /\ IF apc[s] \in InFlight THEN Lose(s) ELSE UNCHANGED accountVars
    /\ UNCHANGED <<world, held>>

(* The process is asked to stop: no request is served any more.            *)
ShutDown(s) ==
    /\ At(s, "serving")
    /\ Move(s, "closing")
    /\ Restart(s)
    /\ UNCHANGED <<world, held>>

(* The order in which the finally clause closes what is held.              *)
NextToClose(s) ==
    IF "saver" \in held[s] THEN {"saver"}
    ELSE IF held[s] \cap Limiters # {} THEN Limiters
    ELSE {"engine"}

(* A slip: the engine is disposed of only after a failed start.            *)
CloseSkippingEngine(s) ==
    /\ At(s, "closing")
    /\ held' = [held EXCEPT ![s] = @ \ NextToClose(s)]
    /\ IF held'[s] \subseteq {"engine"} THEN Move(s, "down") ELSE UNCHANGED stage
    /\ UNCHANGED <<accountVars, world>>

(* One of them is closed; the last is the engine.                          *)
Close(s) ==
    /\ At(s, "closing")
    /\ held' = [held EXCEPT ![s] = @ \ NextToClose(s)]
    /\ IF held'[s] = {} THEN Move(s, "down") ELSE UNCHANGED stage
    /\ UNCHANGED <<accountVars, world>>

(* The process is killed, or closing one of them raises, which ends it:    *)
(* the system closes everything.                                           *)
Kill(s) ==
    /\ "lost" \in Faults
    /\ stage[s] \in Opening \cup {"serving", "closing"}
    /\ Move(s, "down")
    /\ held' = [held EXCEPT ![s] = {}]
    /\ CASE apc[s] \in InFlight -> Lose(s)
         [] apc[s] = "serving" -> Restart(s)
         [] OTHER -> UNCHANGED accountVars
    /\ UNCHANGED world

(* alembic upgrade head applies all revisions in one transaction.          *)
Migrate ==
    /\ database = "empty"
    /\ database' = "migrated"
    /\ UNCHANGED <<accountVars, settings, valkey, serverVars>>

ValkeyComesOrGoes ==
    /\ "valkey" \in Outages
    /\ valkey' = ~valkey
    /\ UNCHANGED <<accountVars, settings, database, serverVars>>

Serve(r) ==
    /\ Register(r) \/ Lose(r)
    /\ UNCHANGED <<world, serverVars>>

Advance(s) == \/ Probe(s) \/ CreateDatabase(s) \/ OpenLimiter(s)
              \/ OpenSaver(s) \/ TableMissing(s)
              \/ Close(s)

LifespanNext ==
    \/ \E s \in Servers :
        \/ StartUp(s) \/ Advance(s) \/ Bootstrap(s) \/ ShutDown(s)
        \/ PostgresFails(s) \/ Kill(s)
    \/ \E r \in Registrations : Serve(r)
    \/ Migrate \/ ValkeyComesOrGoes

LifespanSpec == LifespanInit /\ [][LifespanNext]_lifespanVars

(* A process that starts or stops goes on, and so does a registration that *)
(* has begun; nobody is forced to start a process or to register.  An      *)
(* insertion that waits is woken when the transaction it waits for ends,   *)
(* so it is not overtaken for ever by processes that die and start again.  *)
LifespanFairSpec ==
    /\ LifespanSpec
    /\ \A s \in Servers : SF_lifespanVars(Advance(s) \/ Bootstrap(s))
    /\ \A r \in Registrations :
        SF_lifespanVars(apc[r] # "idle" /\ Register(r) /\ Serve(r))

-----------------------------------------------------------------------------

(* A process serves with everything it needs, to the end: while it serves  *)
(* all its resources are open, the tables and an administrator exist, and  *)
(* its limits are shared with the other processes unless the settings      *)
(* allow it its own; and when it has ended it has closed everything        *)
(* (main.py:38-68, rate_limit.py:61-86).                                   *)
ResourcesHeld ==
    \A s \in Servers :
        /\ At(s, "serving") =>
            /\ {"engine", "saver"} \subseteq held[s]
            /\ database = "migrated" /\ AdminExists
            /\ \E limiter \in Limiters \cap held[s] :
                limiter = "memory" => settings.allow_in_memory
        /\ At(s, "down") => held[s] = {}

(* A process that starts or stops gets to an end, and a registration that  *)
(* has begun is answered or lost: nobody waits for ever for the database   *)
(* or the row of another.                                                  *)
NobodyWaits ==
    /\ \A s \in Servers :
        stage[s] \in Opening \cup {"closing"} ~>
            stage[s] \notin Opening \cup {"closing"}
    /\ \A r \in Registrations : apc[r] \in InFlight ~> apc[r] \notin InFlight

=============================================================================
