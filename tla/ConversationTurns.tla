------------------------- MODULE ConversationTurns -------------------------
(***************************************************************************)
(* The execution of conversation turns: ConversationExecutionService over  *)
(* the conversations, messages and agent_runs tables, the LangGraph        *)
(* checkpoint of the conversation's thread, and the deletion of the        *)
(* conversation while turns are in progress.                               *)
(*                                                                         *)
(* An action is one database transaction of a request, one write of the    *)
(* LangGraph saver, which commits on a connection of its own, or the end   *)
(* of the request.  A request reads the conversation row once, in Require, *)
(* and goes on with that copy: sessions do not expire objects on commit.   *)
(***************************************************************************)
EXTENDS Naturals, Sequences

CONSTANTS
    Requests,        \* submitted messages; each names the run it may start
    Conversations,
    Deleters,        \* requests that delete a conversation
    ConvOf,          \* the conversation each of them addresses
    Strangers,       \* the requests of users who do not own that conversation
    Streaming,       \* the requests answered by a stream of events
    Faults,          \* "lost": requests may vanish; "refresh": the reload
                     \* after the completing commit may fail
    Nobody           \* no answer yet

ASSUME TurnsAssumption ==
    /\ Requests \cap Deleters = {}
    /\ ConvOf \in [Requests \cup Deleters -> Conversations]
    /\ Strangers \subseteq Requests \cup Deleters
    /\ Streaming \subseteq Requests
    /\ Faults \subseteq {"lost", "refresh"}
    /\ Nobody \notin Requests

VARIABLES
    latest,          \* conversations.latest_message_sequence
    deleted,         \* the conversations with deleted_at set
    messages,        \* the rows of the messages table
    runs,            \* agent_runs.status of the run of each request
    thread,          \* the messages channel of the last checkpoint
    final,           \* its final_answer channel
    purges,          \* data_deletion_requests, by the request that added one
    tpc,             \* where each request stands
    snapshot,        \* the latest_message_sequence it has read
    memory,          \* the messages channel its graph invocation works on
    answer           \* the answer it has taken from the graph

turnVars == <<latest, deleted, messages, runs, thread, final, purges,
              tpc, snapshot, memory, answer>>

-----------------------------------------------------------------------------

(* A transcript row.  A user message is known by its run alone; the text   *)
(* of an assistant message is the run whose reply it shows.                *)
Message == [conv: Conversations, seq: Nat \ {0}, role: {"user", "assistant"},
            run: Requests, status: {"partial", "complete", "failed"},
            text: Requests \cup {Nobody}]

(* An entry of the checkpointed chat history.                              *)
Entry == [role: {"user", "assistant"}, run: Requests]
Asks(r) == [role |-> "user", run |-> r]
Replies(r) == [role |-> "assistant", run |-> r]

(* The stages inside the try block of execute and stream.                  *)
InGraph == {"began", "invoked", "replied", "answered"}

TypeOK ==
    /\ latest \in [Conversations -> Nat]
    /\ deleted \subseteq Conversations
    /\ messages \subseteq Message
    /\ runs \in [Requests -> {"none", "running", "completed", "failed"}]
    /\ thread \in [Conversations -> Seq(Entry)]
    /\ final \in [Conversations -> Requests \cup {Nobody}]
    /\ purges \subseteq Deleters
    /\ tpc \in [Requests \cup Deleters ->
                    {"idle", "required", "not_found", "left", "busy",
                     "committed", "completed", "failing", "failed", "lost",
                     "deleted"} \cup InGraph]
    /\ snapshot \in [Requests -> Nat]
    /\ memory \in [Requests -> Seq(Entry)]
    /\ answer \in [Requests -> Requests \cup {Nobody}]

Init ==
    /\ latest = [c \in Conversations |-> 0]
    /\ deleted = {}
    /\ messages = {}
    /\ runs = [r \in Requests |-> "none"]
    /\ thread = [c \in Conversations |-> <<>>]
    /\ final = [c \in Conversations |-> Nobody]
    /\ purges = {}
    /\ tpc = [r \in Requests \cup Deleters |-> "idle"]
    /\ snapshot = [r \in Requests |-> 0]
    /\ memory = [r \in Requests |-> <<>>]
    /\ answer = [r \in Requests |-> Nobody]

tables == <<latest, deleted, messages, runs, purges>>
checkpoint == <<thread, final>>
locals == <<snapshot, memory, answer>>

Goto(r, stage) == tpc' = [tpc EXCEPT ![r] = stage]

-----------------------------------------------------------------------------

(* require: an owned, active conversation, or a 404.                       *)
Visible(r) == r \notin Strangers /\ ConvOf[r] \notin deleted

Require(r) ==
    /\ tpc[r] = "idle"
    /\ Visible(r)
    /\ Goto(r, "required")
    /\ snapshot' = [snapshot EXCEPT ![r] = latest[ConvOf[r]]]
    /\ UNCHANGED <<tables, checkpoint, memory, answer>>

NotFound(r) ==
    /\ tpc[r] = "idle"
    /\ ~Visible(r)
    /\ Goto(r, "not_found")
    /\ UNCHANGED <<tables, checkpoint, locals>>

(* The handler answers without a turn: an invalid request, a replay or an  *)
(* idempotency refusal.                                                    *)
Leave(r) ==
    /\ tpc[r] = "required"
    /\ Goto(r, "left")
    /\ UNCHANGED <<tables, checkpoint, locals>>

(* The two unique constraints _begin_turn can meet: one active run per     *)
(* conversation, and one message per sequence number.                      *)
RunActive(c) == \E o \in Requests : ConvOf[o] = c /\ runs[o] = "running"

SequenceTaken(c, n) == \E m \in messages : m.conv = c /\ m.seq = n

NoActiveRun(r) == ~RunActive(ConvOf[r])

SequencesFree(r) ==
    \A n \in {1, 2} : ~SequenceTaken(ConvOf[r], snapshot[r] + n)

CanBegin(r) == NoActiveRun(r) /\ SequencesFree(r)

(* The rows a turn adds, numbered from the copy of the conversation row.   *)
NewMessage(r, n, role, status) ==
    [conv |-> ConvOf[r], seq |-> snapshot[r] + n, role |-> role, run |-> r,
     status |-> status, text |-> Nobody]

(* A slip, for the mutation runs: the sequence is not advanced.            *)
UserMessageUnnumbered(r) == NewMessage(r, 0, "user", "complete")

UserMessage(r) == NewMessage(r, 1, "user", "complete")

PendingReply(r) == NewMessage(r, 2, "assistant", "partial")

(* _begin_turn: the run, both messages and the advanced conversation row   *)
(* commit together.                                                        *)
BeginTurn(r) ==
    /\ tpc[r] = "required"
    /\ CanBegin(r)
    /\ runs' = [runs EXCEPT ![r] = "running"]
    /\ messages' = messages \cup {UserMessage(r), PendingReply(r)}
    /\ latest' = [latest EXCEPT ![ConvOf[r]] = snapshot[r] + 2]
    /\ Goto(r, "began")
    /\ UNCHANGED <<deleted, purges, checkpoint, locals>>

(* _begin_turn: any integrity error is rolled back as conversation_busy.   *)
BusyTurn(r) ==
    /\ tpc[r] = "required"
    /\ ~CanBegin(r)
    /\ Goto(r, "busy")
    /\ UNCHANGED <<tables, checkpoint, locals>>

(* ainvoke, astream: the saved thread is loaded and the user's message     *)
(* saved behind it.                                                        *)
Invoke(r) ==
    LET history == Append(thread[ConvOf[r]], Asks(r)) IN
    /\ tpc[r] = "began"
    /\ memory' = [memory EXCEPT ![r] = history]
    /\ thread' = [thread EXCEPT ![ConvOf[r]] = history]
    /\ Goto(r, "invoked")
    /\ UNCHANGED <<tables, final, snapshot, answer>>

(* The agent node returns: the checkpoint written is the loaded history    *)
(* and the reply.  A JSON request takes the answer from the returned       *)
(* state, a stream has yet to read it.                                     *)
Reply(r) ==
    /\ tpc[r] = "invoked"
    /\ thread' = [thread EXCEPT ![ConvOf[r]] = Append(memory[r], Replies(r))]
    /\ final' = [final EXCEPT ![ConvOf[r]] = r]
    /\ IF r \in Streaming
       THEN Goto(r, "replied") /\ UNCHANGED answer
       ELSE Goto(r, "answered") /\ answer' = [answer EXCEPT ![r] = r]
    /\ UNCHANGED <<tables, snapshot, memory>>

(* stream: aget_state reads the answer from the latest checkpoint.         *)
ReadFinal(r) ==
    /\ tpc[r] = "replied"
    /\ answer' = [answer EXCEPT ![r] = final[ConvOf[r]]]
    /\ Goto(r, "answered")
    /\ UNCHANGED <<tables, checkpoint, snapshot, memory>>

(* The assistant message of a run with another status and text.            *)
SetReply(r, status, text) ==
    messages' = {IF m.run = r /\ m.role = "assistant"
                 THEN [m EXCEPT !.status = status, !.text = text]
                 ELSE m : m \in messages}

(* _complete_turn: the reply and the run's end commit together.            *)
CompleteTurn(r) ==
    /\ tpc[r] = "answered"
    /\ SetReply(r, "complete", answer[r])
    /\ runs' = [runs EXCEPT ![r] = "completed"]
    /\ Goto(r, "committed")
    /\ UNCHANGED <<latest, deleted, purges, checkpoint, locals>>

(* _complete_turn: the assistant message is reloaded and returned.         *)
Refresh(r) ==
    /\ tpc[r] = "committed"
    /\ Goto(r, "completed")
    /\ UNCHANGED <<tables, checkpoint, locals>>

(* A slip: the caller's own work is inside the try block.                  *)
RaiseLate(r) ==
    /\ tpc[r] \in InGraph \cup {"committed", "completed"}
    /\ Goto(r, "failing")
    /\ UNCHANGED <<tables, checkpoint, locals>>

(* An exception inside the try block: the model, the saver or the database *)
(* fails, after the completing commit only in the reload.                  *)
Raise(r) ==
    /\ tpc[r] \in InGraph \cup
            (IF "refresh" \in Faults THEN {"committed"} ELSE {})
    /\ Goto(r, "failing")
    /\ UNCHANGED <<tables, checkpoint, locals>>

(* The assistant message of a run is marked failed and keeps its text.     *)
FailReply(r) ==
    messages' = {IF m.run = r /\ m.role = "assistant"
                 THEN [m EXCEPT !.status = "failed"] ELSE m : m \in messages}

(* _mark_failed: reply and run end as failed.  The reply's text stays.     *)
MarkFailed(r) ==
    /\ tpc[r] = "failing"
    /\ FailReply(r)
    /\ runs' = [runs EXCEPT ![r] = "failed"]
    /\ Goto(r, "failed")
    /\ UNCHANGED <<latest, deleted, purges, checkpoint, locals>>

(* The process dies, or a streaming client disconnects: cancellation is    *)
(* not an Exception, so no handler runs.                                   *)
Lose(r) ==
    /\ "lost" \in Faults
    /\ tpc[r] \in InGraph \cup {"required", "committed", "failing"}
    /\ Goto(r, "lost")
    /\ UNCHANGED <<tables, checkpoint, locals>>

(* delete_conversation: require, then the soft deletion of the copy read   *)
(* and the purge request commit together.                                  *)
RequireDelete(d) ==
    /\ tpc[d] = "idle"
    /\ Goto(d, IF Visible(d) THEN "required" ELSE "not_found")
    /\ UNCHANGED <<tables, checkpoint, locals>>

Delete(d) ==
    /\ tpc[d] = "required"
    /\ deleted' = deleted \cup {ConvOf[d]}
    /\ purges' = purges \cup {d}
    /\ Goto(d, "deleted")
    /\ UNCHANGED <<latest, messages, runs, checkpoint, locals>>

Execute(r) == \/ Invoke(r) \/ Reply(r) \/ ReadFinal(r) \/ CompleteTurn(r)
              \/ Refresh(r) \/ MarkFailed(r)

(* Every request has ended.                                                *)
Quiet ==
    /\ \A r \in Requests \cup Deleters :
        tpc[r] \in {"not_found", "left", "busy", "completed", "failed",
                    "lost", "deleted"}
    /\ UNCHANGED turnVars

Next ==
    \/ \E r \in Requests :
        \/ Require(r) \/ NotFound(r) \/ Leave(r) \/ BeginTurn(r) \/ BusyTurn(r)
        \/ Execute(r) \/ Raise(r) \/ Lose(r)
    \/ \E d \in Deleters : RequireDelete(d) \/ Delete(d)
    \/ Quiet

Spec == Init /\ [][Next]_turnVars

(* A turn that has begun is driven by the event loop: the graph has        *)
(* timeouts, so each await returns or raises.                              *)
FairSpec ==
    /\ Spec
    /\ \A r \in Requests : WF_turnVars(Execute(r))

-----------------------------------------------------------------------------

(* The transcript has no gap, no duplicate and alternates user and         *)
(* assistant messages of one run each, up to the sequence the conversation *)
(* row records, although requests compute sequence numbers from the copy   *)
(* of the row they read before other turns (conversation_execution.py:161).*)
TranscriptOrdered ==
    \A c \in Conversations :
        /\ {m.seq : m \in {x \in messages : x.conv = c}} = 1 .. latest[c]
        /\ \A m, n \in messages : m.conv = c /\ n.conv = c =>
            /\ m.seq = n.seq => m = n
            /\ m.seq % 2 = 1 <=> m.role = "user"
            /\ m.role = "user" /\ n.seq = m.seq + 1 => n.run = m.run

(* While a request's graph runs nobody else has written the thread, so the *)
(* checkpoint it writes from memory loses no message of another turn.      *)
GraphExclusive ==
    \A r \in Requests : tpc[r] = "invoked" => memory[r] = thread[ConvOf[r]]

(* The checkpointed history is the transcript with only failed or          *)
(* unfinished parts left out: same order, and every completed turn's       *)
(* question directly followed by its reply.                                *)
ThreadFollowsTranscript ==
    \A c \in Conversations :
        LET history == thread[c]
            Shows(m, e) == m.conv = c /\ m.role = e.role /\ m.run = e.run
        IN  /\ \A i, j \in DOMAIN history : i < j =>
                \E m, n \in messages :
                    Shows(m, history[i]) /\ Shows(n, history[j]) /\ m.seq < n.seq
            /\ \A r \in Requests : ConvOf[r] = c /\ runs[r] = "completed" =>
                \E i \in 1 .. Len(history) - 1 :
                    history[i] = Asks(r) /\ history[i + 1] = Replies(r)

(* A completed reply shows its own run's answer, also when it was read     *)
(* back from the checkpoint (conversation_execution.py:144).               *)
AnswerIsOwn ==
    \A m \in messages :
        m.role = "assistant" /\ m.status = "complete" => m.text = m.run

(* Every turn that begins ends, which frees its conversation.              *)
TurnsEnd ==
    \A r \in Requests : runs[r] = "running" ~> runs[r] # "running"

(* conversation_busy is answered only while a response is being generated  *)
(* (the message of conversation_execution.py:200).                         *)
BusyOnlyWhileRunning ==
    [][\A r \in Requests :
        tpc[r] # "busy" /\ tpc'[r] = "busy" => RunActive(ConvOf[r])]_turnVars

(* A deleted conversation accepts no new turn                              *)
(* (docs/conversation-api-design.md:155).                                  *)
NoTurnAfterDeletion ==
    [][\A r \in Requests :
        runs[r] = "none" /\ runs'[r] = "running" =>
            ConvOf[r] \notin deleted]_turnVars

-----------------------------------------------------------------------------

(* The abstract log: the runs in the order of their user messages.         *)
RunAt(c, n) == (CHOOSE m \in messages : m.conv = c /\ m.seq = n).run

TurnLog ==
    [c \in Conversations |->
        [i \in 1 .. latest[c] \div 2 |->
            [run |-> RunAt(c, 2 * i - 1), status |-> runs[RunAt(c, 2 * i - 1)]]]]

(* Whose completed turn has been returned to its handler.                  *)
Answered == {r \in Requests : tpc[r] = "completed"}

Serial == INSTANCE SerialTurns WITH log <- TurnLog, answered <- Answered

(* The service implements serial turns: seen through the transcript, turns *)
(* open one at a time, none is closed twice, and only the failing reload   *)
(* (conversation_execution.py:224) turns a completed run into a failed     *)
(* one: before its request has returned, and possibly when the next turn   *)
(* is already running, which it leaves alone.                              *)
ImplementsSerialTurns == Serial!Spec

=============================================================================
