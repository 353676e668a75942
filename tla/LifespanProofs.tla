--------------------------- MODULE LifespanProofs ---------------------------
(***************************************************************************)
(* The safety of Accounts, for any registrations, processes and addresses, *)
(* and the life of the processes around it: to the accounts it is one      *)
(* behaviour of Accounts, so what is proved there holds while processes    *)
(* come and go; and what a process holds fits where it stands.             *)
(***************************************************************************)
EXTENDS Lifespan, TLAPS

(* A committed row belongs to a registration past its commit, or to a      *)
(* process that serves or starts again.                                    *)
CommittedIsPast ==
    /\ \A r \in Registrations :
          Committed(r) => apc[r] \in {"reload", "created", "lost"}
    /\ \A s \in Servers : Committed(s) => apc[s] \in {"starting", "serving"}

(* A registration past its commit has its row.                             *)
PastIsCommitted ==
    \A r \in Registrations : apc[r] \in {"reload", "created"} => Committed(r)

(* A process serves requests only when there is an administrator.          *)
ServedByAdmin == \A s \in Servers : apc[s] = "serving" => AdminExists

AccountsInv ==
    /\ TypeOK
    /\ AccountsUnique
    /\ CommittedIsPast
    /\ PastIsCommitted
    /\ ServedByAdmin
    /\ AdminFirst
    /\ AnswersTrue

(* Actors that exclude each other do so both ways.                         *)
LEMMA ExcludesSymmetric == ASSUME NEW a \in Actors, NEW b \in Actors
                           PROVE  Excludes(a, b) <=> Excludes(b, a)
  BY DEF Excludes

(* A step moves one actor, keeps the settings, and touches at most that    *)
(* actor's row, which stays committed if it is.                            *)
StepOf(a) ==
    /\ adminEmail' = adminEmail
    /\ \A b \in Actors : b # a => apc'[b] = apc[b] /\ row'[b] = row[b]
    /\ Committed(a) => row'[a] = "committed"

LEMMA StepsOfOne == ASSUME TypeOK, CommittedIsPast, NEW a \in Actors,
                           \/ LookupAdmin(a) \/ CheckEmail(a) \/ Insert(a)
                           \/ InsertConflict(a) \/ Commit(a) \/ Reload(a)
                           \/ Lose(a) \/ Restart(a)
                    PROVE  StepOf(a)
<1> USE DEF TypeOK, StepOf, Committed, Goto
<1>1. CASE LookupAdmin(a)
  BY <1>1 DEF LookupAdmin
<1>2. CASE CheckEmail(a)
  BY <1>2 DEF CheckEmail
<1>3. CASE Insert(a)
  <2>1. row[a] # "committed"
    BY <1>3, AccountsAssumption DEF Insert, Free, CommittedIsPast, Actors
  <2> QED
    BY <1>3, <2>1 DEF Insert
<1>4. CASE InsertConflict(a)
  BY <1>4 DEF InsertConflict
<1>5. CASE Commit(a)
  BY <1>5 DEF Commit
<1>6. CASE Reload(a)
  BY <1>6 DEF Reload
<1>7. CASE Lose(a)
  BY <1>7 DEF Lose
<1>8. CASE Restart(a)
  BY <1>8 DEF Restart
<1> QED
  BY <1>1, <1>2, <1>3, <1>4, <1>5, <1>6, <1>7, <1>8

(* What is true of committed rows stays true.                              *)
LEMMA CommittedStays == ASSUME NEW a \in Actors, StepOf(a)
                        PROVE  /\ \A b \in Actors : Committed(b) => Committed(b)'
                               /\ AdminExists => AdminExists'
                               /\ \A b \in Actors : Email(b)' = Email(b)
                               /\ \A e : Taken(e) => Taken(e)'
<1>1. \A b \in Actors : Committed(b) => Committed(b)'
  BY DEF StepOf, Committed
<1>2. \A b \in Actors : Email(b)' = Email(b)
  BY DEF StepOf, Email
<1>3. AdminExists => AdminExists'
  BY <1>1 DEF AdminExists, Actors
<1>4. \A e : Taken(e) => Taken(e)'
  BY <1>1, <1>2 DEF Taken
<1> QED
  BY <1>1, <1>2, <1>3, <1>4

(* Which actors can do what.                                               *)
StepBy(a) ==
    \/ a \in Servers /\ (LookupAdmin(a) \/ Restart(a))
    \/ a \in Registrations /\ (CheckEmail(a) \/ Reload(a))
    \/ Insert(a) \/ InsertConflict(a) \/ Commit(a) \/ Lose(a)

LEMMA NextIsStepBy == ASSUME Next PROVE \E a \in Actors : StepBy(a)
  BY DEF Next, Start, Register, StepBy, Actors

(* The type invariant is kept.                                             *)
LEMMA TypeKept == ASSUME AccountsInv, NEW a \in Actors, StepBy(a)
                  PROVE  TypeOK'
<1> USE DEF AccountsInv, TypeOK, Goto, InFlight
<1>1. CASE LookupAdmin(a)
  BY <1>1 DEF LookupAdmin
<1>2. CASE CheckEmail(a)
  BY <1>2 DEF CheckEmail
<1>3. CASE Insert(a)
  BY <1>3 DEF Insert
<1>4. CASE InsertConflict(a)
  BY <1>4 DEF InsertConflict
<1>5. CASE Commit(a)
  BY <1>5 DEF Commit
<1>6. CASE Reload(a)
  BY <1>6 DEF Reload
<1>7. CASE Lose(a)
  BY <1>7 DEF Lose
<1>8. CASE Restart(a)
  BY <1>8 DEF Restart
<1> QED
  BY <1>1, <1>2, <1>3, <1>4, <1>5, <1>6, <1>7, <1>8 DEF StepBy

(* Only an insertion adds a row, and the indexes let it.                   *)
LEMMA UniqueKept == ASSUME AccountsInv, NEW a \in Actors, StepBy(a), StepOf(a)
                    PROVE  AccountsUnique'
<1> USE DEF AccountsInv, TypeOK
<1>1. \A b, c \in Actors : Excludes(b, c)' = Excludes(b, c)
  BY CommittedStays DEF Excludes
<1>2. CASE Insert(a)
  <2>1. \A b \in Actors : b # a => row'[b] = row[b]
    BY <1>2 DEF StepOf
  <2>2. \A b \in Actors : row[b] # "none" => ~Excludes(a, b) /\ ~Excludes(b, a)
    BY <1>2, ExcludesSymmetric DEF Insert, Free
  <2>3. ~Excludes(a, a)
    BY DEF Excludes
  <2> QED
    BY <1>1, <2>1, <2>2, <2>3 DEF AccountsUnique
<1>3. CASE ~Insert(a)
  <2>1. \A b \in Actors : row'[b] # "none" => row[b] # "none"
    <3>1. CASE LookupAdmin(a) \/ CheckEmail(a) \/ InsertConflict(a)
               \/ Reload(a) \/ Restart(a)
      BY <3>1 DEF LookupAdmin, CheckEmail, InsertConflict, Reload, Restart
    <3>2. CASE Commit(a)
      BY <3>2 DEF Commit
    <3>3. CASE Lose(a)
      BY <3>3 DEF Lose
    <3> QED
      BY <1>3, <3>1, <3>2, <3>3 DEF StepBy
  <2> QED
    BY <1>1, <2>1 DEF AccountsUnique
<1> QED
  BY <1>2, <1>3

(* Rows are committed by Commit alone.                                     *)
LEMMA PlacesKept == ASSUME AccountsInv, NEW a \in Actors, StepBy(a), StepOf(a)
                    PROVE  (CommittedIsPast /\ PastIsCommitted)'
<1> USE AccountsAssumption
    DEF AccountsInv, TypeOK, CommittedIsPast, PastIsCommitted, Committed, Goto,
        Actors, InFlight
<1>1. CASE LookupAdmin(a) /\ a \in Servers
  BY <1>1 DEF LookupAdmin, AdminExists
<1>2. CASE CheckEmail(a) /\ a \in Registrations
  BY <1>2 DEF CheckEmail
<1>3. CASE Insert(a)
  BY <1>3 DEF Insert
<1>4. CASE InsertConflict(a)
  BY <1>4 DEF InsertConflict
<1>5. CASE Commit(a)
  BY <1>5 DEF Commit
<1>6. CASE Reload(a) /\ a \in Registrations
  BY <1>6 DEF Reload
<1>7. CASE Lose(a)
  BY <1>7 DEF Lose
<1>8. CASE Restart(a) /\ a \in Servers
  BY <1>8 DEF Restart
<1> QED
  BY <1>1, <1>2, <1>3, <1>4, <1>5, <1>6, <1>7, <1>8 DEF StepBy

(* A process serves after it has found an administrator or committed its   *)
(* own.                                                                    *)
LEMMA ServingKept == ASSUME AccountsInv, NEW a \in Actors, StepBy(a), StepOf(a)
                     PROVE  ServedByAdmin'
<1> USE AccountsAssumption DEF AccountsInv, TypeOK
<1> SUFFICES ASSUME NEW s \in Servers, apc'[s] = "serving"
             PROVE  AdminExists'
  BY DEF ServedByAdmin
<1>1. AdminExists => AdminExists'
  BY CommittedStays
<1>2. CASE s # a \/ apc[s] = "serving"
  BY <1>1, <1>2 DEF StepOf, ServedByAdmin, Actors
<1>3. CASE s = a /\ LookupAdmin(a)
  BY <1>1, <1>3 DEF LookupAdmin, Goto, Actors
<1>4. CASE s = a /\ Commit(a)
  BY <1>4 DEF Commit, AdminExists, Committed, Actors
<1>5. CASE s = a /\ ~LookupAdmin(a) /\ ~Commit(a) /\ apc[s] # "serving"
  BY <1>5 DEF StepBy, Insert, InsertConflict, Lose, Restart, Goto, Actors
<1> QED
  BY <1>2, <1>3, <1>4, <1>5

(* A registration begins where a process serves.                           *)
LEMMA AdminFirstKept == ASSUME AccountsInv, NEW a \in Actors, StepBy(a), StepOf(a)
                        PROVE  AdminFirst'
<1> USE AccountsAssumption DEF AccountsInv, TypeOK
<1> SUFFICES ASSUME NEW r \in Registrations, apc'[r] # "idle"
             PROVE  AdminExists'
  BY DEF AdminFirst
<1>1. AdminExists => AdminExists'
  BY CommittedStays
<1>2. CASE r # a \/ apc[r] # "idle"
  BY <1>1, <1>2 DEF StepOf, AdminFirst, Actors
<1>3. CASE r = a /\ CheckEmail(a)
  BY <1>1, <1>3 DEF CheckEmail, ServedByAdmin
<1>4. CASE r = a /\ ~CheckEmail(a) /\ apc[r] = "idle"
  BY <1>4 DEF StepBy, Insert, InsertConflict, Commit, Lose, Reload, InFlight
<1> QED
  BY <1>2, <1>3, <1>4

(* Whoever meets a committed row tells the truth about it: rows stay, and  *)
(* where a registration has taken the administrator's address there is an  *)
(* administrator.                                                          *)
LEMMA AnswersKept == ASSUME AccountsInv, NEW a \in Actors, StepBy(a), StepOf(a),
                            PastIsCommitted', AccountsUnique'
                     PROVE  AnswersTrue'
<1> USE AccountsAssumption DEF AccountsInv, TypeOK
<1>1. ASSUME NEW r \in Registrations, apc'[r] = "created"
      PROVE  {b \in Actors : Committed(b) /\ Email(b) = EmailOf[r]}' = {r}
  <2>1. Committed(r)' /\ Email(r)' = EmailOf[r]
    BY <1>1 DEF PastIsCommitted, Email
  <2>2. \A b \in Actors : Committed(b)' /\ b # r => ~Excludes(b, r)'
    BY <2>1 DEF AccountsUnique, Committed, Actors
  <2>3. \A b \in Actors : Committed(b)' /\ Email(b)' = EmailOf[r] => b = r
    BY <2>1, <2>2 DEF Excludes
  <2> QED
    BY <2>1, <2>3 DEF Actors
<1>2. ASSUME NEW r \in Registrations, apc'[r] \in {"denied", "internal_error"}
      PROVE  ~Committed(r)' /\ Taken(EmailOf[r])'
  <2>1. Taken(EmailOf[r]) => Taken(EmailOf[r])'
    BY CommittedStays
  <2>2. CASE r # a
    BY <1>2, <2>1, <2>2 DEF StepOf, AnswersTrue, Committed, Actors
  <2>3. CASE r = a /\ CheckEmail(a)
    BY <1>2, <2>1, <2>3 DEF CheckEmail, Goto, Committed, CommittedIsPast, Actors
  <2>4. CASE r = a /\ InsertConflict(a)
    <3>1. Taken(EmailOf[r])
      BY <2>4 DEF InsertConflict, Excludes, Taken, Email
    <3> QED
      BY <2>1, <2>4, <3>1 DEF InsertConflict, Committed, CommittedIsPast
  <2>5. CASE r = a /\ ~CheckEmail(a) /\ ~InsertConflict(a)
    BY <1>2, <2>5 DEF StepBy, Insert, Commit, Lose, Reload, Goto, Actors
  <2> QED
    BY <2>2, <2>3, <2>4, <2>5
<1>3. ASSUME NEW s \in Servers, apc'[s] = "failed"
      PROVE  (adminEmail = NoEmail \/ AdminExists)'
  <2>1. adminEmail = NoEmail \/ AdminExists => (adminEmail = NoEmail \/ AdminExists)'
    BY CommittedStays DEF StepOf
  <2>2. CASE s # a
    BY <1>3, <2>1, <2>2 DEF StepOf, AnswersTrue, Actors
  <2>3. CASE s = a /\ LookupAdmin(a)
    BY <1>3, <2>1, <2>3 DEF LookupAdmin, Goto, Actors
  <2>4. CASE s = a /\ InsertConflict(a)
    <3>1. PICK b \in Actors : Committed(b)
      BY <2>4 DEF InsertConflict
    <3>2. AdminExists
      BY <3>1 DEF AdminExists, Actors, CommittedIsPast, AdminFirst
    <3> QED
      BY <2>1, <3>2
  <2>5. CASE s = a /\ ~LookupAdmin(a) /\ ~InsertConflict(a)
    BY <1>3, <2>5 DEF StepBy, Insert, Commit, Lose, Restart, Goto, Actors, InFlight
  <2> QED
    BY <2>2, <2>3, <2>4, <2>5
<1> QED
  BY <1>1, <1>2, <1>3 DEF AnswersTrue

(* The invariant is inductive.                                             *)
THEOREM InvariantHolds == Spec => []AccountsInv
<1>1. Init => AccountsInv
  BY AccountsAssumption
     DEF Init, AccountsInv, TypeOK, AccountsUnique, CommittedIsPast,
         PastIsCommitted, ServedByAdmin, AdminFirst, AnswersTrue, Committed,
         Actors, InFlight
<1>2. AccountsInv /\ [Next]_accountVars => AccountsInv'
  <2> SUFFICES ASSUME AccountsInv, [Next]_accountVars
               PROVE  AccountsInv'
    OBVIOUS
  <2>1. CASE Next
    <3>1. PICK a \in Actors : StepBy(a)
      BY <2>1, NextIsStepBy
    <3>2. StepOf(a)
      BY <3>1, StepsOfOne DEF AccountsInv, StepBy
    <3>3. CommittedIsPast' /\ PastIsCommitted' /\ AccountsUnique'
      BY <3>1, <3>2, PlacesKept, UniqueKept
    <3> QED
      BY <3>1, <3>2, <3>3, TypeKept, ServingKept, AdminFirstKept,
         AnswersKept DEF AccountsInv
  <2>2. CASE UNCHANGED accountVars
    BY <2>2 DEF accountVars, AccountsInv, TypeOK, AccountsUnique, Excludes, Email,
        CommittedIsPast, PastIsCommitted, ServedByAdmin, AdminFirst, AnswersTrue,
        AdminExists, Taken, Committed
  <2> QED
    BY <2>1, <2>2
<1> QED
  BY <1>1, <1>2, PTL DEF Spec

(* The settings, rows and actors keep their types, and a row that is not   *)
(* committed belongs to a transaction in progress.                         *)
THEOREM TypeCorrect == Spec => []TypeOK
<1>1. AccountsInv => TypeOK
  BY DEF AccountsInv
<1> QED
  BY <1>1, InvariantHolds, PTL

(* No two accounts share an address, and there is one administrator: what  *)
(* register and ensure_bootstrap_admin rely on the indexes for.            *)
THEOREM AccountsAreUnique == Spec => []AccountsUnique
<1>1. AccountsInv => AccountsUnique
  BY DEF AccountsInv
<1> QED
  BY <1>1, InvariantHolds, PTL

(* No registration comes before the administrator, however processes start *)
(* and stop.                                                               *)
THEOREM AdminComesFirst == Spec => []AdminFirst
<1>1. AccountsInv => AdminFirst
  BY DEF AccountsInv
<1> QED
  BY <1>1, InvariantHolds, PTL

(* Registrations and starting processes are told the truth.                *)
THEOREM AnswersAreTrue == Spec => []AnswersTrue
<1>1. AccountsInv => AnswersTrue
  BY DEF AccountsInv
<1> QED
  BY <1>1, InvariantHolds, PTL

-----------------------------------------------------------------------------

(* The rate limiter that a process has opened is one it may have.          *)
LimiterHeld(s) ==
    \E limiter \in Limiters \cap held[s] :
        limiter = "memory" => settings.allow_in_memory

(* What a process holds at each place of lifespan.                         *)
HeldAt(s) ==
    /\ stage[s] \in {"probe", "create", "down"} => held[s] = {}
    /\ stage[s] \in {"limiter", "saver", "bootstrap", "serving", "closing"} =>
        "engine" \in held[s]
    /\ stage[s] \in {"saver", "bootstrap", "serving"} => LimiterHeld(s)
    /\ stage[s] \in {"bootstrap", "serving"} => "saver" \in held[s]

(* A process that serves has found the tables and the administrator.       *)
ServedReady(s) ==
    At(s, "serving") => database = "migrated" /\ AdminExists

StagesTyped ==
    /\ settings \in Settings
    /\ database \in {"absent", "empty", "migrated"}
    /\ valkey \in BOOLEAN
    /\ stage \in [Servers -> Opening \cup {"serving", "closing", "down"}]
    /\ held \in [Servers -> SUBSET Resources]

LifespanInv ==
    /\ StagesTyped
    /\ \A s \in Servers : HeldAt(s) /\ ServedReady(s)

-----------------------------------------------------------------------------

(* Every step of a process is a step of its account part, or none.         *)
LEMMA StepRefines == LifespanNext => [Next]_accountVars
<1> SUFFICES ASSUME LifespanNext PROVE Next \/ UNCHANGED accountVars
  OBVIOUS
<1>1. CASE \E s \in Servers : StartUp(s)
  BY <1>1 DEF StartUp, Next
<1>2. CASE \E s \in Servers : Advance(s)
  BY <1>2 DEF Advance, Probe, CreateDatabase, OpenLimiter, OpenSaver,
              TableMissing, Close
<1>3. CASE \E s \in Servers : Bootstrap(s)
  BY <1>3 DEF Bootstrap, Next
<1>4. CASE \E s \in Servers : ShutDown(s)
  BY <1>4 DEF ShutDown, Next
<1>5. CASE \E s \in Servers : PostgresFails(s)
  BY <1>5 DEF PostgresFails, Next, Actors
<1>6. CASE \E s \in Servers : Kill(s)
  BY <1>6 DEF Kill, Next, Actors
<1>7. CASE \E r \in Registrations : Serve(r)
  BY <1>7 DEF Serve, Next, Actors
<1>8. CASE Migrate \/ ValkeyComesOrGoes
  BY <1>8 DEF Migrate, ValkeyComesOrGoes
<1> QED
  BY <1>1, <1>2, <1>3, <1>4, <1>5, <1>6, <1>7, <1>8 DEF LifespanNext

(* The processes of main.py run the accounts of services/auth.py as        *)
(* Accounts describes them, however they start, fail, stop and are killed. *)
THEOREM LifespanImplementsAccounts == LifespanSpec => Spec
<1>1. LifespanInit => Init
  BY DEF LifespanInit
<1>2. [LifespanNext]_lifespanVars => [Next]_accountVars
  BY StepRefines DEF lifespanVars
<1> QED
  BY <1>1, <1>2, PTL DEF LifespanSpec, Spec

(* An administrator stays.                                                 *)
LEMMA AdminStays ==
    ASSUME AccountsInv, [Next]_accountVars, AdminExists
    PROVE  AdminExists'
<1>1. CASE Next
  <2>1. PICK a \in Actors : StepBy(a)
    BY <1>1, NextIsStepBy
  <2>2. StepOf(a)
    BY <2>1, StepsOfOne DEF AccountsInv, StepBy
  <2> QED
    BY <2>2, CommittedStays
<1>2. CASE UNCHANGED accountVars
  BY <1>2 DEF accountVars, AdminExists, Committed
<1> QED
  BY <1>1, <1>2

(* The places of the processes and the resources keep their types.         *)
LEMMA StagesKept ==
    ASSUME StagesTyped, LifespanNext
    PROVE  StagesTyped'
<1> USE DEF StagesTyped, Opening, Limiters, Resources, Move, Take, At, world,
            serverVars
<1>1. CASE \E s \in Servers : StartUp(s)
  BY <1>1 DEF StartUp
<1>2. CASE \E s \in Servers : Probe(s)
  BY <1>2 DEF Probe
<1>3. CASE \E s \in Servers : CreateDatabase(s)
  BY <1>3 DEF CreateDatabase
<1>4. CASE \E s \in Servers : OpenLimiter(s)
  BY <1>4 DEF OpenLimiter, LimiterKind
<1>5. CASE \E s \in Servers : OpenSaver(s) \/ TableMissing(s)
  BY <1>5 DEF OpenSaver, TableMissing
<1>6. CASE \E s \in Servers : Close(s)
  BY <1>6 DEF Close
<1>7. CASE \E s \in Servers : Bootstrap(s)
  BY <1>7 DEF Bootstrap
<1>8. CASE \E s \in Servers : ShutDown(s) \/ PostgresFails(s)
  BY <1>8 DEF ShutDown, PostgresFails
<1>9. CASE \E s \in Servers : Kill(s)
  BY <1>9 DEF Kill
<1>10. CASE \E r \in Registrations : Serve(r)
  BY <1>10 DEF Serve
<1>11. CASE Migrate \/ ValkeyComesOrGoes
  BY <1>11 DEF Migrate, ValkeyComesOrGoes
<1> QED
  BY <1>1, <1>2, <1>3, <1>4, <1>5, <1>6, <1>7, <1>8, <1>9, <1>10, <1>11
     DEF LifespanNext, Advance

(* A process opens and closes its resources in the order of lifespan.      *)
LEMMA HeldKept ==
    ASSUME LifespanInv, LifespanNext, NEW q \in Servers
    PROVE  HeldAt(q)'
<1> USE DEF LifespanInv, StagesTyped, HeldAt, LimiterHeld, Opening, Limiters,
            Resources, Move, Take, At, world, serverVars
<1>1. CASE \E s \in Servers : StartUp(s)
  BY <1>1 DEF StartUp
<1>2. CASE \E s \in Servers : Probe(s)
  BY <1>2 DEF Probe
<1>3. CASE \E s \in Servers : CreateDatabase(s)
  BY <1>3 DEF CreateDatabase
<1>4. CASE \E s \in Servers : OpenLimiter(s)
  BY <1>4 DEF OpenLimiter, LimiterKind
<1>5. CASE \E s \in Servers : OpenSaver(s) \/ TableMissing(s)
  BY <1>5 DEF OpenSaver, TableMissing
<1>6. CASE \E s \in Servers : Close(s)
  BY <1>6 DEF Close, NextToClose
<1>7. CASE \E s \in Servers : Bootstrap(s)
  BY <1>7 DEF Bootstrap
<1>8. CASE \E s \in Servers : ShutDown(s) \/ PostgresFails(s)
  BY <1>8 DEF ShutDown, PostgresFails
<1>9. CASE \E s \in Servers : Kill(s)
  BY <1>9 DEF Kill
<1>10. CASE \E r \in Registrations : Serve(r)
  BY <1>10 DEF Serve
<1>11. CASE Migrate \/ ValkeyComesOrGoes
  BY <1>11 DEF Migrate, ValkeyComesOrGoes
<1> QED
  BY <1>1, <1>2, <1>3, <1>4, <1>5, <1>6, <1>7, <1>8, <1>9, <1>10, <1>11
     DEF LifespanNext, Advance

(* Only Bootstrap lets a process serve, and what it has found stays.       *)
LEMMA ServedKept ==
    ASSUME LifespanInv, AccountsInv, AccountsInv', LifespanNext,
           NEW q \in Servers
    PROVE  ServedReady(q)'
<1> SUFFICES ASSUME stage'[q] = "serving"
             PROVE  database' = "migrated" /\ AdminExists'
  BY DEF ServedReady, At
<1> USE DEF LifespanInv, StagesTyped, ServedReady, Opening, Move, At, world,
            serverVars
<1>1. database = "migrated" => database' = "migrated"
  BY DEF LifespanNext, Advance, StartUp, Probe, CreateDatabase, OpenLimiter,
         OpenSaver, TableMissing, Close, Bootstrap, ShutDown, PostgresFails,
         Kill, Serve, Migrate, ValkeyComesOrGoes
<1>2. CASE stage[q] = "serving"
  BY <1>1, <1>2, StepRefines, AdminStays
<1>3. CASE stage[q] # "serving"
  <2>1. Bootstrap(q)
    <3>1. CASE \E s \in Servers : StartUp(s) \/ Probe(s) \/ CreateDatabase(s)
      BY <1>3, <3>1 DEF StartUp, Probe, CreateDatabase
    <3>2. CASE \E s \in Servers : OpenLimiter(s) \/ OpenSaver(s) \/ TableMissing(s)
      BY <1>3, <3>2 DEF OpenLimiter, OpenSaver, TableMissing
    <3>3. CASE \E s \in Servers : Close(s) \/ ShutDown(s) \/ PostgresFails(s)
      BY <1>3, <3>3 DEF Close, ShutDown, PostgresFails
    <3>4. CASE \E s \in Servers : Kill(s)
      BY <1>3, <3>4 DEF Kill
    <3>5. CASE Migrate \/ ValkeyComesOrGoes \/ \E r \in Registrations : Serve(r)
      BY <1>3, <3>5 DEF Migrate, ValkeyComesOrGoes, Serve
    <3>6. CASE \E s \in Servers : Bootstrap(s)
      BY <1>3, <3>6 DEF Bootstrap
    <3> QED
      BY <3>1, <3>2, <3>3, <3>4, <3>5, <3>6 DEF LifespanNext, Advance
  <2>2. apc'[q] = "serving" /\ database' = "migrated"
    BY <1>3, <2>1 DEF Bootstrap
  <2> QED
    BY <2>2 DEF AccountsInv, ServedByAdmin
<1> QED
  BY <1>2, <1>3

-----------------------------------------------------------------------------
(* The theorems.                                                           *)

LEMMA LifespanInvHolds == LifespanSpec => [](LifespanInv /\ AccountsInv)
<1>1. LifespanInit => LifespanInv
  BY LifespanAssumption
     DEF LifespanInit, LifespanInv, StagesTyped, HeldAt, ServedReady, Opening,
         At, Resources
<1>2. /\ LifespanInv /\ AccountsInv /\ AccountsInv'
      /\ [LifespanNext]_lifespanVars
      => LifespanInv'
  <2> SUFFICES ASSUME LifespanInv, AccountsInv, AccountsInv',
                      [LifespanNext]_lifespanVars
               PROVE  LifespanInv'
    OBVIOUS
  <2>1. CASE LifespanNext
    BY <2>1, StagesKept, HeldKept, ServedKept DEF LifespanInv
  <2>2. CASE UNCHANGED lifespanVars
    BY <2>2 DEF lifespanVars, serverVars, accountVars, LifespanInv,
       StagesTyped, HeldAt, LimiterHeld, ServedReady, At, AdminExists, Committed
  <2> QED
    BY <2>1, <2>2
<1>3. LifespanSpec => []AccountsInv
  BY LifespanImplementsAccounts, InvariantHolds
<1> QED
  BY <1>1, <1>2, <1>3, PTL DEF LifespanSpec

(* The processes, the database and the accounts keep their types.          *)
THEOREM LifespanTypeCorrect == LifespanSpec => []LifespanTypeOK
<1>1. LifespanInv /\ AccountsInv => LifespanTypeOK
  BY DEF LifespanInv, StagesTyped, AccountsInv, LifespanTypeOK
<1> QED
  BY <1>1, LifespanInvHolds, PTL

(* A process serves with all it needs and has closed all when it is down,  *)
(* whatever fails meanwhile (main.py:38-68, rate_limit.py:61-86).          *)
THEOREM ResourcesAreHeld == LifespanSpec => []ResourcesHeld
<1>1. LifespanInv => ResourcesHeld
  <2> SUFFICES ASSUME NEW s \in Servers, HeldAt(s), ServedReady(s)
               PROVE  /\ stage[s] = "serving" =>
                            /\ {"engine", "saver"} \subseteq held[s]
                            /\ database = "migrated" /\ AdminExists
                            /\ LimiterHeld(s)
                      /\ stage[s] = "down" => held[s] = {}
    BY DEF LifespanInv, ResourcesHeld, LimiterHeld, At
  <2> QED
    BY DEF HeldAt, ServedReady, At, Opening
<1> QED
  BY <1>1, LifespanInvHolds, PTL

(* Nobody registers before the administrator, in the life of all processes.*)
THEOREM AdminFirstInLifespan == LifespanSpec => []AdminFirst
BY LifespanImplementsAccounts, AdminComesFirst

(* Nor is a registration or a starting process told what is not true.      *)
THEOREM AnswersTrueInLifespan == LifespanSpec => []AnswersTrue
BY LifespanImplementsAccounts, AnswersAreTrue

=============================================================================
