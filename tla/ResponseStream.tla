--------------------------- MODULE ResponseStream ---------------------------
(***************************************************************************)
(* One streamed submission, from the model's chunks to the events the      *)
(* client reads: astream of services/llm.py with its failover, the agent   *)
(* node, stream of the execution service and stream_events of the          *)
(* endpoint.  What other requests do to the same rows is in SubmitMessage. *)
(*                                                                         *)
(* The generators are driven by the client: each goes on only when what it *)
(* has yielded was taken (due = <<>>).  The node is a task of its own: it  *)
(* writes deltas into the graph's queue (pipe) meanwhile.                  *)
(*                                                                         *)
(* A chunk is the model it came from and its number in that model's reply. *)
(* All records of the request belong to one session.  It is "inactive"     *)
(* when a statement or commit failed, and then commits nothing until a     *)
(* rollback; that makes it "expired": the records it holds, among them     *)
(* the conversation, cannot be read any more outside of its own calls.     *)
(***************************************************************************)
EXTENDS Naturals, Sequences, SequencesExt

CONSTANTS
    MaxModels,       \* how many models may be registered: 2 in the code
    MaxChunks,       \* bound on the chunks of one model's reply
    Faults           \* "commit", "reload", "checkpoint": what may fail

ASSUME StreamAssumption ==
    /\ MaxModels \in Nat /\ MaxChunks \in Nat
    /\ Faults \subseteq {"commit", "reload", "checkpoint"}

VARIABLES
    models, model,   \* registered models, and the one that is called
    given,           \* chunks it has yielded; emitted_output is given > 0
    node,            \* where the agent node stands
    written,         \* the text chunks the node has gathered
    pipe,            \* deltas written and not yet taken by stream
    answer,          \* final_answer of the checkpoint
    stage,           \* where the handler stands
    session, code,   \* the session, and the code of the exception
    run, text,       \* the run's status and the reply's rendered_text
    key,             \* the row of the idempotency key
    due,             \* events the handler yields one after the other
    number, sent     \* sequence_number, and the events the client got

modelVars == <<models, model, given, node, written, answer>>
recordVars == <<session, code, run, text, key>>
clientVars == <<number, sent>>
vars == <<modelVars, pipe, stage, recordVars, due, clientVars>>

Chunks == (1 .. MaxModels) \X (1 .. MaxChunks)

(* The fixed reply of a model that gave no text.                           *)
Apology == <<<<0, 0>>>>

Codes == {"none", "conversation_busy", "llm_not_configured", "internal_error"}

Opening == <<"created", "in_progress", "output_item.added",
             "content_part.added">>
Closing == <<"output_text.done", "content_part.done", "output_item.done",
             "completed">>
Failing == <<"failed", "error">>
Types == Range(Opening) \cup Range(Closing) \cup Range(Failing)

(* An event before it is numbered; only a delta carries a chunk.           *)
Event(type) == [type |-> type, chunk |-> <<0, 0>>]
Events(types) == [i \in DOMAIN types |-> Event(types[i])]
Delta(chunk) == [type |-> "output_text.delta", chunk |-> chunk]

TypeOK ==
    /\ models \in 0 .. MaxModels
    /\ model \in 0 .. models
    /\ given \in 0 .. MaxChunks
    /\ node \in {"idle", "calling", "ended", "raised"}
    /\ written \in Seq(Chunks) /\ pipe \in Seq(Chunks)
    /\ answer \in Seq(Chunks) \cup {Apology}
    /\ stage \in {"reserved", "graph", "complete", "reload", "mark", "store",
                  "fail", "end", "broken", "left"}
    /\ session \in {"usable", "inactive", "expired"}
    /\ code \in Codes
    /\ run \in {"none", "running", "completed", "failed"}
    /\ text \in Seq(Chunks) \cup {Apology}
    /\ key \in [status : {"processing", "completed", "failed"}, code : Codes]
    /\ \A e \in Range(due) : e.type \in Types \cup {"output_text.delta"}
    /\ number \in Nat

(* The request holds its key, or begin has told it to replay.              *)
Init ==
    /\ models \in 0 .. MaxModels
    /\ model = 0 /\ given = 0
    /\ node = "idle"
    /\ written = <<>> /\ pipe = <<>> /\ answer = <<>>
    /\ stage = "reserved"
    /\ session = "usable" /\ code = "none"
    /\ run = "none" /\ text = <<>>
    /\ key \in {[status |-> s, code |-> "none"] : s \in {"processing", "completed"}}
    /\ due = <<>>
    /\ number = 0 /\ sent = <<>>

-----------------------------------------------------------------------------
(* services/llm.py and the agent node.                                     *)

InNode == stage = "graph" /\ node = "calling"

(* _configured_models: without a model or credentials the call is refused. *)
CallModel ==
    /\ stage = "graph" /\ node = "idle"
    /\ IF models = 0
       THEN node' = "raised" /\ code' = "llm_not_configured" /\ UNCHANGED model
       ELSE node' = "calling" /\ model' = 1 /\ UNCHANGED code
    /\ UNCHANGED <<models, given, written, answer, pipe, stage, session, run,
                   text, key, due, clientVars>>

(* A chunk arrives.  It counts as output even when it holds no text, but   *)
(* only text is gathered and written to the stream.                        *)
Chunk ==
    /\ InNode /\ given < MaxChunks
    /\ given' = given + 1
    /\ \/ /\ written' = Append(written, <<model, given'>>)
          /\ pipe' = Append(pipe, <<model, given'>>)
       \/ UNCHANGED <<written, pipe>>
    /\ UNCHANGED <<models, model, node, answer, stage, recordVars, due, clientVars>>

(* Slips, for the mutation runs: failover after output, and past the last  *)
(* model.                                                                  *)
MayFailOverAnytime == model < models
MayFailOverPastLast == given = 0 /\ model <= models

MayFailOver == given = 0 /\ model < models

(* The model fails: the next one is called, or the exception leaves the    *)
(* node.                                                                   *)
ModelFails ==
    /\ InNode
    /\ IF MayFailOver
       THEN model' = model + 1 /\ given' = 0 /\ UNCHANGED <<node, code>>
       ELSE node' = "raised" /\ code' = "internal_error" /\ UNCHANGED <<model, given>>
    /\ UNCHANGED <<models, written, answer, pipe, stage, session, run, text,
                   key, due, clientVars>>

(* The reply ends, and the node writes its answer to the checkpoint.       *)
ModelEnds ==
    /\ InNode
    /\ node' = "ended"
    /\ answer' = IF written = <<>> THEN Apology ELSE written
    /\ UNCHANGED <<models, model, given, written, pipe, stage, recordVars, due,
                   clientVars>>

-----------------------------------------------------------------------------
(* ConversationExecutionService.stream and stream_events.                  *)

Resumed == due = <<>>
CommitFails == session = "inactive" \/ "commit" \in Faults
Goto(next) == stage' = next

(* A replayed key: the stored response is the only event.                  *)
Replay ==
    /\ stage = "reserved" /\ key.status = "completed"
    /\ Goto("end")
    /\ due' = Events(<<"completed">>)
    /\ UNCHANGED <<modelVars, pipe, recordVars, clientVars>>

(* _begin_turn commits, and its status event opens the stream.             *)
BeginTurn ==
    /\ stage = "reserved" /\ key.status = "processing"
    /\ Goto("graph")
    /\ run' = "running"
    /\ due' = Events(Opening)
    /\ UNCHANGED <<modelVars, pipe, session, code, text, key, clientVars>>

(* A unique constraint refuses the turn: _begin_turn rolls back.           *)
BusyTurn ==
    /\ stage = "reserved" /\ key.status = "processing"
    /\ Goto("fail")
    /\ session' = "expired" /\ code' = "conversation_busy"
    /\ UNCHANGED <<modelVars, pipe, run, text, key, due, clientVars>>

(* Any other error of _begin_turn: nobody rolls back.                      *)
BeginRaises ==
    /\ stage = "reserved" /\ key.status = "processing"
    /\ "commit" \in Faults
    /\ Goto("fail")
    /\ session' = "inactive" /\ code' = "internal_error"
    /\ UNCHANGED <<modelVars, pipe, run, text, key, due, clientVars>>

(* stream takes a delta out of the queue, and the handler makes it an event. *)
TakeDelta ==
    /\ stage = "graph" /\ Resumed
    /\ pipe # <<>>
    /\ due' = <<Delta(Head(pipe))>>
    /\ pipe' = Tail(pipe)
    /\ UNCHANGED <<modelVars, stage, recordVars, clientVars>>

(* The graph has ended, and aget_state has read its answer.                *)
GraphEnds ==
    /\ stage = "graph" /\ Resumed
    /\ node = "ended" /\ pipe = <<>>
    /\ Goto("complete")
    /\ UNCHANGED <<modelVars, pipe, recordVars, due, clientVars>>

(* The graph raises what its node raised, or what a read or write of the   *)
(* checkpoint did; deltas still in the queue may be lost.                  *)
GraphRaises ==
    /\ stage = "graph" /\ Resumed
    /\ \/ node = "raised" /\ UNCHANGED code
       \/ "checkpoint" \in Faults /\ node # "raised" /\ code' = "internal_error"
    /\ node' = "raised"
    /\ Goto("mark")
    /\ UNCHANGED <<models, model, given, written, answer, pipe, session, run,
                   text, key, due, clientVars>>

(* _complete_turn, in two parts: the commit, and the reload of the reply.  *)
CompleteTurn ==
    /\ stage = "complete"
    /\ Goto("reload")
    /\ run' = "completed" /\ text' = answer
    /\ UNCHANGED <<modelVars, pipe, session, code, key, due, clientVars>>

Reload ==
    /\ stage = "reload"
    /\ Goto("store")
    /\ UNCHANGED <<modelVars, pipe, recordVars, due, clientVars>>

(* Either of them fails in an open transaction.                            *)
CompleteRaises ==
    /\ \/ stage = "complete" /\ "commit" \in Faults
       \/ stage = "reload" /\ "reload" \in Faults
    /\ Goto("mark")
    /\ session' = "inactive" /\ code' = "internal_error"
    /\ UNCHANGED <<modelVars, pipe, run, text, key, due, clientVars>>

(* _mark_failed begins with a rollback, which does nothing when the        *)
(* session has no open transaction: then no record expires.                *)
MarkFailed ==
    /\ stage = "mark"
    /\ Goto("fail")
    /\ run' = "failed"
    /\ session' = IF session = "usable" THEN "usable" ELSE "expired"
    /\ UNCHANGED <<modelVars, pipe, code, text, key, due, clientVars>>

MarkRaises ==
    /\ stage = "mark" /\ "commit" \in Faults
    /\ Goto("fail")
    /\ session' = "inactive" /\ code' = "internal_error"
    /\ UNCHANGED <<modelVars, pipe, run, text, key, due, clientVars>>

(* complete of the ledger, and the events that close the stream.           *)
StoreResponse ==
    /\ stage = "store"
    /\ Goto("end")
    /\ key' = [status |-> "completed", code |-> "none"]
    /\ due' = Events(Closing)
    /\ UNCHANGED <<modelVars, pipe, session, code, run, text, clientVars>>

(* A slip: the handler rolls the session back before it goes on.           *)
StoreRaisesRolledBack ==
    /\ stage = "store" /\ "commit" \in Faults
    /\ Goto("fail")
    /\ session' = "expired" /\ code' = "internal_error"
    /\ UNCHANGED <<modelVars, pipe, run, text, key, due, clientVars>>

(* The response cannot be stored: its own handler takes the exception.     *)
StoreRaises ==
    /\ stage = "store" /\ "commit" \in Faults
    /\ Goto("fail")
    /\ session' = "inactive" /\ code' = "internal_error"
    /\ UNCHANGED <<modelVars, pipe, run, text, key, due, clientVars>>

(* active_response is set once the turn has begun.                         *)
Opened == run # "none"

(* A slip: the error is stored and the stream just ends.                   *)
FailKeySilent ==
    /\ stage = "fail" /\ session # "inactive"
    /\ Goto("end")
    /\ key' = [status |-> "failed", code |-> code]
    /\ UNCHANGED <<modelVars, pipe, session, code, run, text, due, clientVars>>

(* The two exception handlers: the key fails with the exception's code,    *)
(* and the client is told.  To build response.failed of an opened stream   *)
(* the conversation is read, which raises when it has expired.             *)
FailKey ==
    /\ stage = "fail" /\ session # "inactive"
    /\ key' = [status |-> "failed", code |-> code]
    /\ IF Opened /\ session = "expired"
       THEN Goto("broken") /\ UNCHANGED due
       ELSE Goto("end") /\ due' = Events(IF Opened THEN Failing ELSE <<"error">>)
    /\ UNCHANGED <<modelVars, pipe, session, code, run, text, clientVars>>

FailKeyRaises ==
    /\ stage = "fail" /\ CommitFails
    /\ Goto("broken")
    /\ session' = "inactive"
    /\ UNCHANGED <<modelVars, pipe, code, run, text, key, due, clientVars>>

-----------------------------------------------------------------------------

(* A slip: response.failed does not count.                                 *)
NumberSkippingFailed(type) ==
    IF type \in {"completed", "error", "failed"} THEN number ELSE number + 1

(* sequence_number after an event of this type: the last one leaves it.    *)
NumberAfter(type) == IF type \in {"completed", "error"} THEN number ELSE number + 1

(* The client takes the next event.                                        *)
Send ==
    /\ due # <<>> /\ stage # "left"
    /\ sent' = Append(sent, [type |-> Head(due).type, chunk |-> Head(due).chunk,
                             number |-> number])
    /\ number' = NumberAfter(Head(due).type)
    /\ due' = Tail(due)
    /\ UNCHANGED <<modelVars, pipe, stage, recordVars>>

(* The client leaves: the handler is cancelled where it stands, and with   *)
(* it the graph; no handler of exceptions runs.                            *)
Disconnect ==
    /\ stage \notin {"broken", "left"}
    /\ stage = "end" => due # <<>>
    /\ Goto("left")
    /\ UNCHANGED <<modelVars, pipe, recordVars, due, clientVars>>

(* The request's own steps, and those of the client that reads it.         *)
Work ==
    \/ CallModel \/ Chunk \/ ModelFails \/ ModelEnds
    \/ Replay \/ BeginTurn \/ BusyTurn \/ BeginRaises
    \/ TakeDelta \/ GraphEnds \/ GraphRaises
    \/ CompleteTurn \/ Reload \/ CompleteRaises \/ MarkFailed \/ MarkRaises
    \/ StoreResponse \/ StoreRaises \/ FailKey \/ FailKeyRaises

Progress == Work \/ Send

(* The stream has ended.                                                   *)
Quiet ==
    /\ stage \in {"broken", "left"} \/ (stage = "end" /\ due = <<>>)
    /\ UNCHANGED vars

Next == Progress \/ Disconnect \/ Quiet

Spec == Init /\ [][Next]_vars

(* The event loop resumes the request as long as it can go on.             *)
FairSpec == Spec /\ WF_vars(Progress)

-----------------------------------------------------------------------------

SentTypes == [i \in DOMAIN sent |-> sent[i].type]
Told == {"completed", "error"} \cap Range(SentTypes) # {}
Deltas == {i \in DOMAIN sent : sent[i].type = "output_text.delta"}

(* What the client has read is the beginning of one of the streams the     *)
(* code may produce, numbered from 0 without gap: the four opening events, *)
(* deltas and either the four closing or the two failing events; or one    *)
(* error, for a turn that did not begin; or one completed, for a replay.   *)
StreamOrdered ==
    /\ \A i \in DOMAIN sent : sent[i].number = i - 1
    /\ \/ \E n \in 0 .. Len(sent), tail \in {Closing, Failing} :
              IsPrefix(SentTypes, Opening \o [i \in 1 .. n |-> "output_text.delta"]
                                          \o tail)
       \/ SentTypes \in {<<"error">>, <<"completed">>}

(* The deltas of a stream are of one model, and are the stored text, or    *)
(* the beginning of it: nobody reads text that the transcript lacks,       *)
(* except of a failed turn; and a completed stream has shown all of it,    *)
(* unless the text is the fixed reply.                                     *)
OneVoice ==
    /\ \A i, j \in Deltas : sent[i].chunk[1] = sent[j].chunk[1]
    /\ run = "completed" =>
          \/ text = Apology /\ Deltas = {}
          \/ /\ Deltas = {Len(Opening) + i : i \in DOMAIN text}
             /\ \A i \in DOMAIN text : sent[Len(Opening) + i].chunk = text[i]

(* What the client was told has been stored, and run and key agree: a      *)
(* retry after the terminal event gets the same result, and a key fails    *)
(* only when its run did not begin or has failed.                          *)
ToldIsStored ==
    /\ "completed" \in Range(SentTypes) => key.status = "completed"
    /\ "error" \in Range(SentTypes) => key = [status |-> "failed", code |-> code]
    /\ key.status = "completed" => run \in {"completed", "none"}
    /\ key.status = "failed" => run \in {"failed", "none"}

(* Every stream ends with completed or error, unless the client leaves or  *)
(* the session was rolled back or failed under the handler.                *)
StreamAnswered ==
    <>(Told \/ stage = "left" \/ (stage = "broken" /\ session # "usable"))

(* README.md:172: "failed runs emit response.failed and error"; that is,   *)
(* unless the client leaves, a stream whose run has failed says so.        *)
FailedRunTold ==
    run = "failed" ~> (Told \/ stage = "left")

=============================================================================
