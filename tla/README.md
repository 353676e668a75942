# A TLA+ model of the travel assistant

This directory models the part of the repository that is hard to test: what its
requests do to PostgreSQL, Valkey and the LangGraph checkpoint when they run
side by side, are retried, fail half-way or vanish. The modules are checked with
TLC on small instances. Every safety property and refinement that TLC finds to
hold is also proved with TLAPS, for every value of the constants; liveness is
left to TLC.

The application is a FastAPI process (or several) without state of its own apart
from the in-memory rate limiter. Every handler is a coroutine that awaits the
database, so between any two awaits any other request, in this process or in
another, may run. All coordination is left to unique indexes, row locks and the
order of commits. That is what the models are about.

## Inventory

| Part | State it keeps | Operations | What is hard | What makes it correct |
|---|---|---|---|---|
| Idempotency ledger, `services/idempotency.py` | `idempotency_keys`: one row per user, method, route and key | `begin`, `complete`, `fail` | `begin` is up to four transactions (lookup, deletion of an expired row, insertion, second lookup); requests are lost while they hold a row; rows expire | one holder per key; a stored response is final; a replay is what was stored for the same payload |
| Conversation execution, `services/conversation_execution.py` | `agent_runs`, `messages`, `conversations.latest_message_sequence` | `execute`, `stream`, `_begin_turn`, `_complete_turn`, `_mark_failed` | sequence numbers come from a copy of the row read several commits earlier; the checkpoint is written on another connection; cancellation runs no handler | dense transcript; one run at a time; a reply shows its own run's answer; every run ends |
| Travel graph, `agent/travel.py` | the LangGraph checkpoint of a conversation's thread | `ainvoke`, `astream`, `aget_state` | loads the thread and writes back what it holds in memory | no invocation overwrites another's; the thread follows the transcript |
| Conversation endpoints, `api/v1/conversations.py` | as below | `submit_message`, `create_conversation`, `list_conversations`, `get_conversation`, `list_messages`, `delete_conversation` | five to eight transactions per submission; a page is a request of its own | exactly one run per key; the stored response agrees with the transcript |
| Conversation and message CRUD, `core/crud/base.py`, `services/crud` | `conversations`, `messages`, `data_deletion_requests` | `get`, `require`, `create`, `get_page`, `delete` | the rows move between two pages; deletions and turns write what they read earlier | a history comes whole; a moving list loses little; what is deleted is purged and stays deleted |
| Authentication sessions, `services/auth.py` | `auth_sessions`, `refresh_tokens`, `revoked_access_tokens` | `login`, `refresh`, `logout`, `current_user` | count-then-insert for the session limit; rotation against logout and reuse; implicit flushes decide what is locked | limit kept; tokens rotate once; revocation is final; no deadlock |
| Rate limiting, `core/rate_limit.py` | a dictionary, or Valkey counters | `check`, `create_rate_limiter` | INCR and EXPIRE are two commands | never more than the limit in a window; windows are fixed and close |
| Accounts, `services/auth.py` | `users` | `register`, `ensure_bootstrap_admin` | lookup, flush and commit are different statements; the flush is outside the `try`; processes start together | one account per address, one administrator, created before anyone registers; true answers |
| Model failover, `services/llm.py` | none | `ainvoke`, `astream` | failover only before output | no text of two models in one answer |
| Event stream, `api/v1/conversations.py` | a database session and the events still to send | `stream_events`, `replay_events` | failure after the stream has begun; records expired by a rollback; deltas queued while the model goes on | consecutive sequence numbers, one terminal event, and what the client is told is stored |
| Lifespan, `main.py`, `core/database.py` | the resources of a process: engine, limiter, checkpoint saver | start, serve, stop | processes start together on a new database; a start fails half-way; the limiter is chosen once | it serves with all it needs and closes all it opened |
| Smoke client, `scripts/admin_conversation_smoke.py` | the text on the screen | the loop over the events of a turn | deltas, a completed answer, an error or a cut after any of them | what is on the screen is what is stored |
| Middleware, logging, errors, schemas, security primitives, most of the configuration | none, or pure functions | | | |

How they interact. A submission passes the rate limit and `current_user`, reads
the conversation (`require`), reserves its key (`begin`), executes its turn
(`_begin_turn`, the graph with its two checkpoint writes, `_complete_turn` or
`_mark_failed`) and stores its response (`complete` or `fail`). Each of these
commits on its own. Sessions are created with `expire_on_commit=False`, so
objects read early are used late. Deletion touches the same rows from another
request. Logins, refreshes and logouts meet only on the rows of one user. All of
this runs between `lifespan`'s start and its end, in every process.

## Plan

The order is by importance: the ledger and the turns first, since both
must be right for a user not to pay twice or lose a message; then their
composition; then sessions, limits and what remains.

| Step | Module | Status |
|---|---|---|
| 1 | `IdempotencyKeys`, abstract `OnceRegister`, `IdempotencyKeysProofs` | modelled, checked, all safety properties and the refinement proved |
| 2 | `ConversationTurns`, abstract `SerialTurns`, `ConversationTurnsProofs` | modelled, checked, all safety properties and the refinement proved |
| 3 | `SubmitMessage`, which composes 1 and 2, `SubmitMessageProofs` | modelled, checked, all safety properties proved |
| 4 | `AuthSessions`, `AuthSessionsProofs` | modelled, checked, all safety properties proved |
| 5 | `RateLimits`, `RateLimitsProofs` | modelled, checked, all safety properties proved |
| 6 | `ResponseStream`, one streamed response with the model failover, and `SmokeClient`, which composes it with its reader; `SmokeClientProofs` for both | modelled, checked, all safety properties proved |
| 7 | `Accounts`; `Lifespan`, which composes it with the life of the processes; `LifespanProofs` for both | modelled, checked, all safety properties proved |
| 8 | `ConversationPages`, `ConversationPagesProofs` | modelled, checked, all safety properties proved |
| 9 | the one theorem that joins `ResponseStream` to `SubmitMessage`: that a stream's steps, seen in the tables and the ledger, are steps of one submission there | to do; it needs the two to agree on when a failing session stores nothing |

Two abstract specifications say what a client may rely on: `SerialTurns` of a
conversation, `OnceRegister` of an idempotency key. `Lifespan` implements
`Accounts`, which it contains.

## Modules and code

**IdempotencyKeys.** `keys` is the table, one row per slot (a slot is a tuple of
user, method, route and key), `ipc` is where each request stands and `told` is
the terminal response it was given. `LookupFree`, `LookupExpired` and
`LookupTaken` are the locking SELECT of `begin` and what follows in its
transaction, `Insert` and `InsertConflict` the two outcomes of the insertion,
`Recheck` the second SELECT, `Complete` and `Fail` the final writes, `Abandon`
the loss of a request. Time is abstracted to one fact: a row expires only after
every request that was in flight when it was inserted has ended (`born`),
because no request lasts the 24 hours of retention.

**OnceRegister.** What a key promises, without rows or races: a register per
slot that one request opens, works on alone and closes with its result, which
the others that ask for the same thing hear until it lapses. `Cell` maps a row to
its register and `Stage` a request to waiting, working or over; the transactions
of `begin` that only look or lose a race stutter.

**ConversationTurns.** The tables are `latest`, `deleted`, `messages`, `runs`
and `purges`; the checkpoint is `thread` and `final`; the local variables of a
request are `snapshot` (its copy of `latest_message_sequence`), `memory` (the
history its graph invocation works on) and `answer`. `BeginTurn` and `BusyTurn`
are `_begin_turn`: `CanBegin` states the two unique constraints it can meet, one
active run per conversation and one message per sequence number. `Invoke` and
`Reply` are the two checkpoint writes of an invocation, `ReadFinal` is
`aget_state` in `stream`, `CompleteTurn` and `Refresh` are `_complete_turn`,
`Raise` and `MarkFailed` the exception path, `Lose` a cancelled or killed
request, `RequireDelete` and `Delete` the deletion. A message's text is only the
name of the run whose answer it shows. `Faults` says whether requests may be
lost and whether the reload after the completing commit may fail.

**SerialTurns.** What a user may rely on: a log of turns per conversation,
each opened behind turns that are all closed. The log also says what the reload
inside the `try` of `execute` costs: a completed turn may be taken back
(`Retract`) until its outcome is answered (`Answer`), even when the next turn is
open; a turn that was answered, or has failed, is final. `TurnLog` maps the tables
to the log: the runs in the order of their user messages, with their status;
`Answered` are the requests whose `_complete_turn` has returned. `Retract` is
`MarkFailed` after a failing `Refresh`, and `Refresh` is `Answer`.

**SubmitMessage.** Instantiates the two modules on shared requests. `Require`,
`Refuse`, `BeginKey`, `StartTurn`, `Execute`, `CompleteKey`, `FailKey`, `Lose`
and `LoseResponse` are the transactions of `submit_message` in their order; the
loss of a request can come between any two of them, in particular between the
turn's last commit and the one that stores the response.

**AuthSessions.** Each request is one transaction at READ COMMITTED, `held` its
row locks. A login and the session, refresh token and access token it creates
share one name; a refresh names the tokens it issues. Two facts of the code
are easy to miss, and the model rests on them: SQLAlchemy flushes
`last_login_at` before `_active_sessions_for_user` runs, so a login locks its
user's row before it counts the sessions (`ListSessions`); and it flushes the
revocation of a session before `logout` looks up the access token
(`CheckBearer`). `Abort` rolls a request back, `Lapse` passes
`refresh_session_days`.

**RateLimits.** `store` is the limiter that `create_rate_limiter` picked.
`CheckInMemory` is one step, because nothing is awaited under the lock; `Incr`
and `Expire` are the two commands of the Valkey limiter, `Fail` and `LoseCount`
its failures. `tally` is a history variable: the calls an open window has
counted.

**ResponseStream.** One streamed submission in detail. `CallModel`, `Chunk`,
`ModelFails` and `ModelEnds` are `astream` of `llm.py` and the agent node, which
runs as a task of its own and writes into the graph's queue (`pipe`);
`BeginTurn` to `MarkRaises` are `ConversationExecutionService.stream`;
`StoreResponse` to `FailKeyRaises` the handlers of `stream_events`. An event is
`due` when the handler yields it, and `Send` numbers it; nothing else of the
handler goes on before. The model keeps the state of the SQLAlchemy session, as
the code's failure path depends on it: after a failed statement or commit the
session refuses to commit until a rollback; a rollback of an open transaction
expires the records of the session, the conversation among them, which then
cannot be read outside of a session call; and a rollback without open
transaction, as after an exception of the graph, does neither. Other requests
are left out: `SubmitMessage` says what they can do to the rows.

**SmokeClient.** The loop of the script over the events of one turn: `Read` takes
the next event that the stream sends and prints what `Screen` says, `Finish` is
the end of the response, `Dropped` a connection that the server drops and
`Leave` a timeout or an interrupt, which the server sees as `Disconnect`. Whether
a dropped connection reads as an end depends on the transfer encoding, so both
are possible.

**ConversationPages.** What users see of their conversations. A client of
`Lists` or `Histories` asks for one page after the other; `Deliver` is
`_get_page` with its sentinel row, over the `Listing` of a user or the
`Transcript` of a conversation as they are at that moment. Turns and deletions are
reduced to what the listings show: `AppendMessages` takes the time, `CommitTurn`
writes it, with the columns SQLAlchemy finds changed and no others; `Delete` marks
the row that `Require` had found. `seen`, `repeats`, `first`, `moved`, `shifts`
and `removals` are history variables: what a client was given, and how the rows
moved since it began. The transcript has no gaps, as `TranscriptOrdered` shows;
one clock serves all processes; and a client goes on at `next_offset`.

**Accounts.** `row` is the row of `users` that an actor, a call of `register` or
a starting process, may insert; `Excludes` states the two partial unique
indexes. `LookupAdmin` and `CheckEmail` are the lookups, `Insert` and
`InsertConflict` the outcomes of the flush, which waits while neither is
possible, `Commit` and `Reload` the rest. `CheckEmail` needs a process that
serves, because `lifespan` yields after `ensure_bootstrap_admin`. The
`except IntegrityError` around both commits has no action: the indexes are not
deferred, so a conflict is met by the flush before it. The database is empty at
first; one that was filled before administrators were marked could hold accounts
without an administrator.

**Lifespan.** The life of the processes around `Accounts`: `Probe` and
`CreateDatabase` are `ensure_database_exists`, `OpenLimiter` is
`check_database_connection` and `create_rate_limiter`, `OpenSaver` the checkpoint
saver, `Bootstrap` the start of `Accounts`, `TableMissing` its failure before the
migrations, `Close` one step of the finally clause. `held` is what a process has
opened, the limiter by its kind. `PostgresFails` may end any step of a start,
`Kill` any process at any time; a close that raises ends the process and is part
of it. `Migrate` is the operator's `alembic upgrade head`, one transaction.
Requests other than registrations are left out.

The modules named `MC...` instantiate these for TLC, those named `...Proofs`
hold theorems. Operators introduced by "A slip" are plausible
mistakes in the code that are used nowhere in the specification: replacing the
definition after them by one shows that a property notices the mistake.

## What TLC checks

| Run | Instance | What it shows |
|---|---|---|
| `idempotency` | 4 requests, 2 slots, 2 payloads | the rows are a register that is opened, closed and heard (`ImplementsOnceRegister`), and a request that lost the insertion always finds a live row (`ConflictRowSurvives`) |
| `turns` | 3 turns of one conversation, one streamed, a deletion, a stranger, losses, a failing reload | transcript, checkpoint and answers stay consistent; the tables implement `SerialTurns`: turns open one at a time, and only a completed turn that is not answered yet may become a failed one |
| `submit` | a message and its retry, a second message whose key expires, losses, a failing reload | at most one run per key; stored responses agree with the transcript two transactions later; a turn in progress is covered by its key; who is not lost is answered |
| `pages` | 4 conversations of one user, 3 turns and 2 deletions, a client of the list, one of a history, a stranger | a history comes whole and only to its owner (`HistoryWalk`), a change costs a client of the list at most one row (`ListWalk`), what is deleted is scheduled and stays so (`PurgeScheduled`) |
| `sessions` | 2 logins, 2 refreshes, 2 logouts, one session allowed | see `AuthSessions`; `SomeRequestProceeds` excludes deadlock on row locks |
| `rate_limits` | 4 calls, limit 2, window of 2 ticks, both stores | the limit, its justification, and that windows close unless the opening call failed |
| `stream` | up to 2 models of 3 chunks; commits, reload and checkpoint may fail, the script that reads may leave | numbered events in order (`StreamOrdered`), text of one model that is the stored text (`OneVoice`), told and stored results that agree (`ToldIsStored`), the stored text on the screen (`ShownIsStored`), and an end for every stream whose session works (`StreamAnswered`) |
| `accounts` | 2 processes on a new or a migrated database, 2 registrations of one address, with or without settings, PostgreSQL and Valkey failing | the administrator before everybody (`AdminFirst`), true answers (`AnswersTrue`), processes that serve with what they need (`ResourcesHeld`), and no registration or start that waits for ever (`NobodyWaits`) |

Four more runs are expected to find a violation. Each is a finding:

| Run | Property | What happens |
|---|---|---|
| `stale_row` | `BusyOnlyWhileRunning` | A submission reads the conversation, another turn begins and ends, and the sequence conflict is reported as `conversation_busy` although nothing runs (`conversation_execution.py:176`). |
| `deleted_turn` | `NoTurnAfterDeletion` | A submission past `require` starts its turn in a conversation deleted meanwhile. |
| `restart` | `TurnsEnd` | A killed process or a disconnected stream leaves its run `running`; nothing closes it, and the conversation is busy for ever. |
| `failure_untold` | `FailedRunTold` | The reload after the completing commit fails; the rollback of `_mark_failed` expires the conversation, which the failure handler reads to build `response.failed` (`conversations.py:425`). The read raises, and the stream stops without a terminal event. The same happens when the completing commit itself fails. |

### Bounds

Only `MaxChunks` is a bound in a guard: a model's reply has at most that many
chunks. Otherwise the behaviours are finite because each request runs once, and
the bounds are the sets in the `.cfg` files. Processes start again for ever.

- Three turns in one conversation are enough for the sequence conflicts: one
  that holds a stale copy, one that makes it stale, one that runs at the moment.
- Two conversations would add no interaction: no action reads another
  conversation's rows, and the theorems hold for any number of them.
- A retry needs two requests with one key, the reuse of a key a third with
  another payload (in `idempotency`), an update of a wrong row a second key.
- Two logins against a limit of one session already make the second revoke the
  first while both are counted; two refreshes are one rotation and one reuse or
  a race; two logouts are needed for a collision on one access token.
- Two models are all the code registers; three chunks are one before, one at and
  one after any event, with or without text.
- Two registrations of one address and two processes are one winner and one
  loser each; the address may be the administrator's. The settings always name
  a Valkey, since without one the choice of the limiter is fixed.
- Pages of one row of the list are the smallest that can be out of step; four
  rows, two of which move and one of which is deleted, leave rows that are
  missed or come twice. Two turns of the history's conversation and pages of
  three messages cut a turn in two.
- Four calls against a limit of two pass the limit twice; two ticks are the
  smallest window that can be extended before it closes.

`SYMMETRY` is used only in runs without liveness, over requests that no constant
tells apart.

### Fairness

`FairSpec` asks weak fairness of the steps of a request that has begun. The code
justifies it: each such step is the continuation of an await that returns or
raises (database calls, model calls with `llm_timeout_seconds` and a bounded
number of retries), and the event loop resumes it. Arrival, loss and expiry are
never forced, and a raised exception is always allowed instead of success. In
`submit` a lost request counts as ended; that its run is not is the `restart`
finding. In `RateLimits` ticks are fair, as time passes, and so is the EXPIRE of a
caller that lives. `ReaderSpec` asks fairness of the one request and its reader;
the reader may leave at any time. In `Lifespan` a process that starts or stops
and a registration that has begun go on; nobody has to start, to stop or to
register. They are strongly fair, because PostgreSQL wakes a waiting INSERT when
the transaction it waits for ends; with weak fairness alone a process could wait
for ever for others that are lost and start again.

`Quiet` and `ReaderDone` let a behaviour stutter when everything has ended, so
TLC's deadlock check stays on; it is switched off where the system may rightly
stop: in `pages`, where every client may have ended, and in `restart`, where a
request may never arrive.

## What TLAPS proves

For any sets of requests, slots, conversations, keys and calls, and any limit
and window; the assumptions are the `ASSUME`s of the modules (each
request has one slot, one conversation, one key), which say what
the code's types say.

**IdempotencyKeysProofs**: `TypeOK`, `ConflictRowSurvives`, `SoleReservation`,
`ReplayFaithful`, `StoredResponseFinal`, and that the ledger implements
`OnceRegister`, which says the last three at once. None of the
invariants is inductive alone. `InFlightWitnessed` adds why a row does not
vanish under a request that raced for it: every request in flight was in flight
when the row was inserted, so the row cannot have expired. `RowsOwned` adds that
a present row belongs to a request of its slot, which holds it, has lost it or
has stored what it shows. With these each transaction maps to a step of the
register or to none: `LedgerImplementsRegister`. That a register lapses only when
nobody works on it is where `InFlightWitnessed` is needed again.

**ConversationTurnsProofs**: `TypeOK`, `GraphExclusive`, `TranscriptOrdered`,
`AnswerIsOwn`, `ThreadFollowsTranscript` and `ImplementsSerialTurns`, under any
`Faults`: the failing reload, after which `execute` marks a completed run failed,
is a step of the specification and of the proofs. The
inductive invariant joins `RunsFollowRequests` (a run is running exactly while
its request works on it, and is the only one of its conversation), `OwnResult`
(what an active request finds in the checkpoint is its own) and
`SnapshotsBehind` (copies are never ahead of the row, and the row's sequence is
even). The last one with the unique constraint is what makes stale copies
harmless: a turn that begins has a copy that is not stale
(`BeginExtendsTranscript`).

`TurnInv` adds the checkpoint: `RunsInTranscript` gives every run its user
message and its reply at places of their own (`RunsHaveTheirPlaces`), and
`HistoryInv` relates each entry of a thread to the transcript and says how far the
turn in progress has come in it. What a graph writes back loses nothing, since
`GraphExclusive` says that it holds the whole thread in its memory; a reply
directly follows its question, since nobody wrote between the two. For the
refinement (`TurnsAreSerial`) a beginning turn appends to the log because its user message
comes after all others; an ending one changes the one entry that its user message
has (`EndChangesEntry`), which is the last if its run is running and any if the
reload has failed; then its request has not returned, so the entry is not
answered. The return answers a completed entry, and everything else stutters. `EndsRecorded` says what a
request that has returned leaves behind, under any faults.

**AuthSessionsProofs**: `TypeOK`, `SessionLimit`, `SingleFreshToken`,
`ReuseEndsSession`, `LogoutTakesEffect`, `CollisionNeedsTwoSessions` and
`RevokedStaysRevoked`, from one invariant over the row locks. `LocksExclusive`
says that a row has one holder. With it, `RefreshCurrent` says that what a
refresh has read of its token and session is still so, `LoginMakesRoom` that
what a login leaves active is below the limit (only another login of the same
user could fill it, and would need the user's row), and `LogoutPrepared` that a
logout has locked what it ends before it looks up its access token. For
`LoginMakesRoom` the oldest of the sessions that a login keeps is picked: it is
kept because fewer than the limit are as young, and those are all that are kept.
`DeniedByLogout` carries the collision argument: two logouts that both hold the
session they end have different sessions.

`SomeRequestProceeds` says that row locks never deadlock. It names the rows that a
request wants where it stands rather than `ENABLED`, which cannot be proved about;
a request that has or can take those rows has a step that is not its abortion.
The proof adds `LocksInUse`: only requests in progress hold rows, a login its user
and sessions of that user, a refresh a token and then its session, a logout one
session. A request that is blocked waits for a session that another holds. If
that one is a refresh or a logout, it is past its last lock and goes on. If it is a
login, it may wait for a second session, whose holder is not a login, since
logins of one user take turns at the user's row; so that one goes on.

**RateLimitsProofs**: `TypeOK`, `WithinLimit`, `LimitedOnlyWhenFull` and
`WindowNotExtended`. `Numbered` says that the calls of an open window got the
numbers from 1 to its count, each once; `Judged` that verdicts follow the
numbers. The admitted calls then inject into `1..Limit`, and `1..Limit` into the
calls other than a limited one. `FirstSetsDeadline` says that the call that is to
send EXPIRE is the counter's first and that the counter has no deadline until
then, so it cannot close under it.

**LifespanProofs**, in two parts. Of `Accounts` it proves `TypeOK`,
`AccountsUnique`, `AdminFirst` and `AnswersTrue`. The invariant adds where the
owner of a committed row stands, and `ServedByAdmin`: a process that serves has found or committed the administrator.
A process that loses its insertion to a registration with the administrator's
address would fail for good; `AdminFirst` shows that there is an administrator by
then. `StepOf` collects what every step has in common, so that each part needs
only the actions that can disturb it.

Of `Lifespan`, `LifespanImplementsAccounts` shows that the processes, however
they start, fail, stop and are killed, do to the accounts what `Accounts` says, so
its theorems carry over: `AdminFirstInLifespan`, `AnswersTrueInLifespan`.
`ResourcesAreHeld` needs `HeldAt`, what a process holds at each place of
`lifespan`, and `ServedReady`: the tables and the administrator that a process
found when it began to serve stay.

**ConversationPagesProofs**: `TypeOK`, `PurgeScheduled`, `HistoryWalk` and
`ListWalk`. `ResolvedOwn` says that a conversation that was resolved stays in the
table and is the caller's, `WholeTurns` that transcripts have even length, and
`Reading` that a client has read just what is before its offset, or at its end all
there was.

`ListWalk` rests on facts about the listing: a conversation's place in it is
the number of rows in front, so places are distinct and leave no gap
(`PlacesDiffer`, `PlacesDense`), a row that is put in front moves the others back
by at most one (`PutInFront`), one that is taken away moves them up by at most one
(`TakenAway`), and a page holds the rows at its places (`ListingPage`). The
invariant `Walking` counts with them: what the client was given twice, plus the
given rows that later pages would give again, are no more than the `shifts`; the
rows that it skipped without their having moved are no more than the `removals`.
`StampsFresh` is why a turn never puts its conversation back: the time that it took
before its commit is not older than the row's, as the row's lock lets one flushed
turn of a conversation exist at a time.

**SubmitMessageProofs**: `TurnHoldsKey`, `AtMostOneRunPerKey`,
`StoredResponseMatchesRun`, and `ReplayShowsTurn`, which joins them end to end: a
retry that is given a response is given that of another submission with its key
and payload, and it tells how that one's turn ended. `TurnsRun` and `LedgerRuns`
show that every step of the composition is a step of each part or leaves it
alone; so the invariants of the parts hold in it (`PartsInv`), and their
assumptions are part of `SubmitAssumption`. `JointInv` adds what neither part
knows: `StagesAgree`, how far a request is with the one given how far it is with
the other; `KeysAgree`, a run's row stays its own unless it expires;
`StoredAgree`, a stored response is what the owner's turn came to. `ToldAgree`
says the last of the response itself, which outlives the row.

**SmokeClientProofs**, in two parts. Of `ResponseStream` it proves `StreamOrdered`,
`OneVoice` and `ToldIsStored` from `StreamInv`. `OutputInv` says what has been sent
and what is due are together a beginning of one of the streams that the handlers
can write (`Planned`), as a function of the position; `NumberInv` that the numbers
are positions; `StageInv` and `TextInv` what the stage of the handler says of the
key, the run and the text. `OneVoice` names the deltas by position: that
filtering a sequence keeps its order would need an induction over sequences. Of
`SmokeClient`, `ReaderRunsStream` shows that its steps are steps of the stream or
leave it alone, so the theorems above hold beside the reader; `ReaderTypeOK`
and `ShownIsStored` follow from `ReaderInv`, which says what is on the screen given
how many events were taken.

Each proof module states the invariant, its parts as lemmas, one step per
action of `Next`, and the theorems that follow.

## Only model-checked

Liveness: `SubmissionsAnswered`, `WindowsCloseUnlessLost`, `StreamAnswered` and
`NobodyWaits`. The proof system cannot reason about fairness and `ENABLED`. The
properties of the four runs that find a violation are false and have no theorem.

`SoleReservation`, `ReplayFaithful`, `StoredResponseFinal`, `AccountsUnique`,
`WindowNotExtended`, `CollisionNeedsTwoSessions`, `EndsRecorded` and
`ReplayShowsTurn` are proved and no run asks for them: the first three follow from
the refinement that `idempotency` checks, the fourth is a part of what
`AnswersTrue` and `AdminFirst` rest on, and the last two join what `turns`,
`idempotency` and `submit` check of the transcript, the replays and the stored
rows.

## Not modelled

- `ainvoke`'s failover: the turn sees one reply or one exception, and nothing
  is shown before.
- `current_user`: a pure read, with no state of its own to interleave.
- The generic `create`, `update` and `delete` of `core/crud/base.py`, which no
  service calls, and the argument checks of its other methods.
- Middleware, logging, errors, schemas, hashing and tokens, and the settings that
  decide neither on the limiter nor on the administrator: pure functions, output
  and constants.
- `models/attachments.py`, `models/preferences.py`, tool calls, citations and
  one-time tokens: no code reads or writes these tables.
- The statements of the migrations, `setup_langgraph_checkpoints.py`, and the
  parts of the smoke script before its loop: straight sequences of calls. The
  constraints that migrations create are modelled where the code meets them.
- PostgreSQL itself is taken to give what READ COMMITTED, its unique indexes and
  its row locks promise.
