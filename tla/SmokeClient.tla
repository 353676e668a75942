---------------------------- MODULE SmokeClient ----------------------------
(***************************************************************************)
(* The reader of a streamed response in                                    *)
(* scripts/admin_conversation_smoke.py, the one client in the repository,  *)
(* composed with the stream it reads: what it prints of a turn, and how    *)
(* the turn ends for the person who typed it.                              *)
(*                                                                         *)
(* The script uses a new key for each turn; a stream that replays a stored *)
(* response is left in, since the reader would be the same.                *)
(***************************************************************************)
EXTENDS ResponseStream

VARIABLES
    shown,           \* the text printed after "assistant"
    reader           \* where the loop over the events stands

readerVars == <<shown, reader>>
allVars == <<vars, readerVars>>

ReaderTypeOK ==
    /\ TypeOK
    /\ shown \in Seq(Chunks) \cup {Apology}
    /\ reader \in {"reading", "prompt", "refused", "cut"}

ReaderInit == Init /\ shown = <<>> /\ reader = "reading"

ReceivedTokens == shown # <<>>

(* A slip, for the mutation runs: the completed answer is always printed.  *)
ScreenTwice(event) ==
    CASE event.type = "output_text.delta" -> Append(shown, event.chunk)
      [] event.type = "completed" -> shown \o text
      [] OTHER -> shown

(* A delta is printed as it comes, the completed answer only if there was  *)
(* none; response.failed and the other events print nothing.               *)
Screen(event) ==
    CASE event.type = "output_text.delta" -> Append(shown, event.chunk)
      [] event.type = "completed" /\ ~ReceivedTokens -> text
      [] OTHER -> shown

(* The next event is read; error raises APIRequestError.                   *)
Read ==
    /\ reader = "reading"
    /\ Send
    /\ shown' = Screen(Head(due))
    /\ reader' = IF Head(due).type = "error" THEN "refused" ELSE reader

(* The response ends, and the loop asks for the next message.              *)
Finish ==
    /\ reader = "reading"
    /\ stage = "end" /\ due = <<>>
    /\ reader' = "prompt"
    /\ UNCHANGED <<vars, shown>>

(* The server drops the connection.  A body of unknown length then just    *)
(* ends, a chunked one raises an exception that nothing handles.           *)
Dropped ==
    /\ reader = "reading"
    /\ stage = "broken" /\ due = <<>>
    /\ reader' \in {"prompt", "cut"}
    /\ UNCHANGED <<vars, shown>>

(* 90 seconds without a line, or the user interrupts the script.           *)
Leave ==
    /\ reader = "reading"
    /\ Disconnect
    /\ reader' = "cut"
    /\ UNCHANGED shown

ReaderDone == reader # "reading" /\ UNCHANGED allVars

ReaderProgress == (Work /\ UNCHANGED readerVars) \/ Read \/ Finish \/ Dropped

ReaderNext == ReaderProgress \/ Leave \/ ReaderDone

(* The event loop resumes the request, and the script reads on.            *)
ReaderSpec ==
    ReaderInit /\ [][ReaderNext]_allVars /\ WF_allVars(ReaderProgress)

-----------------------------------------------------------------------------

(* The person at the prompt has read the turn that is stored, and no more: *)
(* when the loop ends on a complete stream the printed text is the whole   *)
(* reply of a completed run, and meanwhile a beginning of it, although it  *)
(* comes in deltas or at once; and a turn reported as failed is not one    *)
(* that a later look at the history shows as completed                     *)
(* (scripts/admin_conversation_smoke.py:169-215).                          *)
ShownIsStored ==
    /\ reader = "prompt" /\ stage = "end" =>
            shown = text /\ key.status = "completed" /\ run # "failed"
    /\ run = "completed" => IsPrefix(shown, text)
    /\ reader = "refused" => run # "completed" /\ key.status = "failed"

=============================================================================
