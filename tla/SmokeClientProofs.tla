-------------------------- MODULE SmokeClientProofs --------------------------
(***************************************************************************)
(* Proofs about the event stream and the client that reads it, for any     *)
(* number of models, replies of any length and any set of faults.  The     *)
(* events sent and those due together are at every moment one planned      *)
(* output; what the properties say of the part that was sent follows.      *)
(***************************************************************************)
EXTENDS SmokeClient, SequenceTheorems, TLAPS

EventTypes == Types \cup {"output_text.delta"}
Marks == Chunks \cup {<<0, 0>>}
PlainEvent == [type : EventTypes, chunk : Marks]
SentEvent == [type : EventTypes, chunk : Marks, number : Nat]

(* The types of the state, with the sequences of events.                   *)
StreamTyped ==
    /\ TypeOK
    /\ due \in Seq(PlainEvent)
    /\ sent \in Seq(SentEvent)

(* The deltas that stream has taken out of the queue.                      *)
Taken == Len(written) - Len(pipe)

(* The i-th event of a stream that opens, shows those deltas and ends with *)
(* the events of tail.                                                     *)
Planned(tail, i) ==
    IF i <= 4 THEN Event(Opening[i])
    ELSE IF i <= 4 + Taken THEN Delta(written[i - 4])
    ELSE Event(tail[i - 4 - Taken])

(* What has been sent and what is due, together.                           *)
Total == Len(sent) + Len(due)
Output(i) ==
    IF i <= Len(sent) THEN [type |-> sent[i].type, chunk |-> sent[i].chunk]
    ELSE due[i - Len(sent)]

Blank == Total = 0

Single(type) == Total = 1 /\ Output(1) = Event(type)

Follows(tail) ==
    /\ Total = 4 + Taken + Len(tail)
    /\ \A i \in 1 .. Total : Output(i) = Planned(tail, i)

(* The output agrees with the stage of the handler and with the key.       *)
OutputInv ==
    \/ stage \in {"reserved", "fail", "broken", "left"} /\ ~Opened /\ Blank
    \/ stage \notin {"reserved", "end"} /\ Opened /\ Follows(<<>>)
    \/ /\ stage \in {"end", "left"} /\ key.status = "completed"
       /\ (~Opened /\ Single("completed")) \/ (Opened /\ Follows(Closing))
    \/ /\ stage \in {"end", "left"} /\ key = [status |-> "failed", code |-> code]
       /\ (~Opened /\ Single("error")) \/ (Opened /\ Follows(Failing))

(* Events are numbered as they are sent; only the last one, which leaves   *)
(* the number as it is, lets it fall behind.                               *)
NumberInv ==
    /\ \A i \in 1 .. Len(sent) : sent[i].number = i - 1
    /\ number = Len(sent) \/ (stage \in {"end", "left"} /\ due = <<>>)

(* What run, session and key are at each stage.                            *)
StageInv ==
    /\ stage \in {"complete", "reload", "store", "mark", "fail", "reserved"} =>
            due = <<>>
    /\ stage = "reserved" => run = "none" /\ node = "idle"
    /\ stage \in {"graph", "complete"} => run = "running"
    /\ stage = "mark" => run \in {"running", "completed"}
    /\ stage \in {"reload", "store"} => run = "completed"
    /\ stage = "fail" /\ run \in {"running", "completed"} => session = "inactive"
    /\ stage \notin {"reserved", "end", "broken", "left"} =>
            key.status = "processing"
    /\ key.status = "completed" => run \in {"completed", "none"}
    /\ key.status = "failed" => run \in {"failed", "none"}

(* The text gathered is of the model in use, a model that failed over gave *)
(* none; the queue holds the end of it that was not taken; a completed run *)
(* has it all, and all of it has been sent.                                *)
TextInv ==
    /\ node = "idle" => given = 0
    /\ node = "calling" => model > 0
    /\ given = 0 => written = <<>>
    /\ \A i \in 1 .. Len(written) : written[i][1] = model
    /\ Len(pipe) <= Len(written)
    /\ \A i \in 1 .. Len(pipe) : pipe[i] = written[Taken + i]
    /\ node = "ended" => answer = IF written = <<>> THEN Apology ELSE written
    /\ stage = "complete" => node = "ended"
    /\ run = "completed" => text = IF written = <<>> THEN Apology ELSE written
    /\ run = "completed" \/ stage = "complete" =>
            pipe = <<>> /\ Len(sent) >= 4 + Len(written)
    /\ ~Opened \/ run = "running" => text = <<>>

StreamInv == StreamTyped /\ OutputInv /\ NumberInv /\ StageInv /\ TextInv

-----------------------------------------------------------------------------

(* The fixed lists of events.                                              *)
LEMMA FixedLists ==
  /\ Opening \in Seq(Types) /\ Len(Opening) = 4
  /\ Closing \in Seq(Types) /\ Len(Closing) = 4
  /\ Failing \in Seq(Types) /\ Len(Failing) = 2
  /\ \A i \in 1 .. 4 :
        Opening[i] \notin {"completed", "error", "output_text.delta"}
  /\ \A i \in 1 .. 4 :
        Closing[i] \notin {"error", "output_text.delta"}
        /\ (Closing[i] = "completed" <=> i = 4)
  /\ \A i \in 1 .. 2 :
        Failing[i] \notin {"completed", "output_text.delta"}
        /\ (Failing[i] = "error" <=> i = 2)
  /\ "completed" \in Types /\ "error" \in Types
<1>1. /\ Len(Opening) = 4 /\ DOMAIN Opening = 1 .. 4
      /\ Len(Closing) = 4 /\ DOMAIN Closing = 1 .. 4
      /\ Len(Failing) = 2 /\ DOMAIN Failing = 1 .. 2
  BY DEF Opening, Closing, Failing
<1>2. /\ \A i \in 1 .. 4 : Opening[i] \in Types /\ Closing[i] \in Types
      /\ \A i \in 1 .. 2 : Failing[i] \in Types
  BY <1>1 DEF Types, Range
<1>3. /\ Opening \in Seq(Types) /\ Closing \in Seq(Types) /\ Failing \in Seq(Types)
  BY <1>2 DEF Opening, Closing, Failing
<1>4. \A i \in 1 .. 4 :
        Opening[i] \notin {"completed", "error", "output_text.delta"}
  BY DEF Opening
<1>5. \A i \in 1 .. 4 :
        Closing[i] \notin {"error", "output_text.delta"}
        /\ (Closing[i] = "completed" <=> i = 4)
  BY DEF Closing
<1>6. \A i \in 1 .. 2 :
        Failing[i] \notin {"completed", "output_text.delta"}
        /\ (Failing[i] = "error" <=> i = 2)
  BY DEF Failing
<1>7. Closing[4] = "completed" /\ Failing[2] = "error"
  BY DEF Closing, Failing
<1> QED
  BY <1>1, <1>2, <1>3, <1>4, <1>5, <1>6, <1>7

(* A list of types as events.                                              *)
LEMMA EventsOfTypes ==
  ASSUME NEW types \in Seq(Types)
  PROVE  /\ Events(types) \in Seq(PlainEvent)
         /\ Len(Events(types)) = Len(types)
         /\ \A i \in 1 .. Len(types) : Events(types)[i] = Event(types[i])
<1>1. \A i \in 1 .. Len(types) : Event(types[i]) \in PlainEvent
  BY DEF Event, PlainEvent, EventTypes, Marks
<1>2. Events(types) = [i \in 1 .. Len(types) |-> Event(types[i])]
  BY DEF Events
<1> QED
  BY <1>1, <1>2

LEMMA DueTypes ==
  ASSUME NEW events \in Seq(PlainEvent)
  PROVE  \A e \in Range(events) : e.type \in Types \cup {"output_text.delta"}
<1>1. \A i \in DOMAIN events : events[i] \in PlainEvent
  OBVIOUS
<1> QED
  BY <1>1 DEF Range, PlainEvent, EventTypes

(* Every step keeps the types.                                             *)
LEMMA TypesKept ==
  ASSUME StreamTyped, TextInv, [Next]_vars
  PROVE  StreamTyped'
<1> USE StreamAssumption DEF StreamTyped, TypeOK, modelVars, recordVars, clientVars,
        vars, Goto, Codes
<1>1. CASE CallModel
  BY <1>1 DEF CallModel
<1>2. CASE Chunk
  <2>1. model \in 1 .. MaxModels /\ given' \in 1 .. MaxChunks
    BY <1>2 DEF Chunk, InNode, TextInv
  <2>2. <<model, given'>> \in Chunks
    BY <2>1 DEF Chunks
  <2>3. \A s \in Seq(Chunks) : Append(s, <<model, given'>>) \in Seq(Chunks)
    BY <2>2, AppendProperties
  <2>4. written' \in Seq(Chunks) /\ pipe' \in Seq(Chunks)
    BY <1>2, <2>3 DEF Chunk
  <2> QED
    BY <1>2, <2>1, <2>4 DEF Chunk
<1>3. CASE ModelFails
  BY <1>3 DEF ModelFails, InNode, MayFailOver
<1>4. CASE ModelEnds
  BY <1>4 DEF ModelEnds
<1>5. CASE Replay
  <2>1. <<"completed">> \in Seq(Types)
    BY FixedLists
  <2>2. due' \in Seq(PlainEvent)
    BY <1>5, <2>1, EventsOfTypes DEF Replay
  <2> QED
    BY <1>5, <2>2, DueTypes DEF Replay
<1>6. CASE BeginTurn
  <2>1. due' \in Seq(PlainEvent)
    BY <1>6, FixedLists, EventsOfTypes DEF BeginTurn
  <2> QED
    BY <1>6, <2>1, DueTypes DEF BeginTurn
<1>7. CASE BusyTurn \/ BeginRaises
  BY <1>7 DEF BusyTurn, BeginRaises
<1>8. CASE TakeDelta
  <2>1. Delta(Head(pipe)) \in PlainEvent
    BY <1>8, HeadTailProperties DEF TakeDelta, Delta, PlainEvent, EventTypes, Marks
  <2>2. due' \in Seq(PlainEvent) /\ pipe' \in Seq(Chunks)
    BY <1>8, <2>1 DEF TakeDelta
  <2>3. \A e \in Range(due') : e.type \in Types \cup {"output_text.delta"}
    BY <2>2, DueTypes
  <2>4. UNCHANGED <<modelVars, stage, recordVars, clientVars>>
    BY <1>8 DEF TakeDelta
  <2> QED
    BY <2>2, <2>3, <2>4
<1>9. CASE GraphEnds \/ GraphRaises
  BY <1>9 DEF GraphEnds, GraphRaises
<1>10. CASE CompleteTurn \/ Reload \/ CompleteRaises
  BY <1>10 DEF CompleteTurn, Reload, CompleteRaises
<1>11. CASE MarkFailed \/ MarkRaises \/ StoreRaises \/ FailKeyRaises
  BY <1>11 DEF MarkFailed, MarkRaises, StoreRaises, FailKeyRaises
<1>12. CASE StoreResponse
  <2>1. due' \in Seq(PlainEvent)
    BY <1>12, FixedLists, EventsOfTypes DEF StoreResponse
  <2> QED
    BY <1>12, <2>1, DueTypes DEF StoreResponse
<1>13. CASE FailKey
  <2>1. <<"error">> \in Seq(Types)
    BY FixedLists
  <2>2. Events(<<"error">>) \in Seq(PlainEvent) /\ Events(Failing) \in Seq(PlainEvent)
    BY <2>1, FixedLists, EventsOfTypes
  <2>3. due' \in Seq(PlainEvent)
    BY <1>13, <2>2 DEF FailKey
  <2>4. \A e \in Range(due') : e.type \in Types \cup {"output_text.delta"}
    BY <2>3, DueTypes
  <2> QED
    BY <1>13, <2>3, <2>4 DEF FailKey
<1>14. CASE Send
  <2>1. Head(due) \in PlainEvent /\ due' \in Seq(PlainEvent)
    BY <1>14, HeadTailProperties DEF Send
  <2>2. sent' \in Seq(SentEvent)
    BY <1>14, <2>1 DEF Send, PlainEvent, SentEvent
  <2>3. number' \in Nat
    BY <1>14 DEF Send, NumberAfter
  <2>4. \A e \in Range(due') : e.type \in Types \cup {"output_text.delta"}
    BY <2>1, DueTypes
  <2> QED
    BY <1>14, <2>1, <2>2, <2>3, <2>4 DEF Send
<1>15. CASE Disconnect
  BY <1>15 DEF Disconnect
<1>16. CASE UNCHANGED vars
  BY <1>16
<1> QED
  BY <1>1, <1>2, <1>3, <1>4, <1>5, <1>6, <1>7, <1>8, <1>9, <1>10, <1>11, <1>12,
     <1>13, <1>14, <1>15, <1>16 DEF Next, Progress, Work, Quiet

-----------------------------------------------------------------------------

(* A step that sends and prepares nothing leaves the output as it is.      *)
LEMMA OutputUnmoved ==
  ASSUME UNCHANGED <<due, sent, written, pipe>>
  PROVE  /\ Total' = Total /\ (Blank' <=> Blank)
         /\ \A type : Single(type)' <=> Single(type)
         /\ \A tail : Follows(tail)' <=> Follows(tail)
<1>1. Total' = Total /\ Taken' = Taken
  BY DEF Total, Taken
<1>2. \A i : Output(i)' = Output(i)
  BY DEF Output
<1>3. \A tail, i : Planned(tail, i)' = Planned(tail, i)
  BY <1>1 DEF Planned
<1> QED
  BY <1>1, <1>2, <1>3 DEF Blank, Single, Follows

(* Sending an event moves it from one part of the output to the other.     *)
LEMMA OutputSent ==
  ASSUME StreamTyped, Send
  PROVE  /\ Total' = Total /\ (Blank' <=> Blank)
         /\ \A type : Single(type)' <=> Single(type)
         /\ \A tail : Follows(tail)' <=> Follows(tail)
         /\ Len(sent') = Len(sent) + 1
         /\ Len(due') = Len(due) - 1
         /\ Len(sent) < Total
         /\ Output(Len(sent) + 1) = Head(due)
         /\ \A i \in 1 .. Len(sent) : sent'[i] = sent[i]
         /\ sent'[Len(sent) + 1].number = number
         /\ sent'[Len(sent) + 1].type = Head(due).type
         /\ sent'[Len(sent) + 1].chunk = Head(due).chunk
<1>1. /\ due \in Seq(PlainEvent) /\ due # <<>>
      /\ sent \in Seq(SentEvent)
      /\ due' = Tail(due)
      /\ UNCHANGED <<written, pipe>>
  BY DEF StreamTyped, Send, modelVars
<1>2. PICK e : e = [type |-> Head(due).type, chunk |-> Head(due).chunk,
                    number |-> number] /\ sent' = Append(sent, e)
  BY DEF Send
<1>3. Len(due) \in Nat /\ Len(due) > 0 /\ Len(sent) \in Nat
  BY <1>1
<1>4. Head(due) = due[1] /\ due[1] \in PlainEvent
  BY <1>1, <1>3
<1>5. e \in SentEvent
  BY <1>2, <1>4 DEF StreamTyped, TypeOK, PlainEvent, SentEvent
<1>6. /\ Len(sent') = Len(sent) + 1
      /\ sent'[Len(sent) + 1] = e
      /\ \A i \in 1 .. Len(sent) : sent'[i] = sent[i]
  BY <1>1, <1>2, <1>5
<1>7. /\ Len(due') = Len(due) - 1
      /\ \A i \in 1 .. Len(due) - 1 : due'[i] = due[i + 1]
  BY <1>1, <1>3
<1>8. Total' = Total /\ Taken' = Taken
  BY <1>1, <1>3, <1>6, <1>7 DEF Total, Taken
<1>9. ASSUME NEW i \in 1 .. Total
      PROVE  Output(i)' = Output(i)
  <2>1. CASE i <= Len(sent)
    BY <1>3, <1>6, <2>1 DEF Output
  <2>2. CASE i = Len(sent) + 1
    <3>1. Output(i) = due[1]
      BY <1>3, <2>2 DEF Output
    <3>2. Output(i)' = [type |-> e.type, chunk |-> e.chunk]
      BY <1>3, <1>6, <2>2 DEF Output
    <3> QED
      BY <1>2, <1>4, <3>1, <3>2 DEF PlainEvent
  <2>3. CASE i > Len(sent) + 1
    <3>1. Output(i) = due[i - Len(sent)]
      BY <1>3, <2>3 DEF Output
    <3>2. Output(i)' = due'[i - Len(sent) - 1]
      BY <1>3, <1>6, <2>3 DEF Output
    <3>3. i - Len(sent) - 1 \in 1 .. Len(due) - 1
      BY <1>3, <2>3 DEF Total
    <3>4. due'[i - Len(sent) - 1] = due[i - Len(sent)]
      BY <1>3, <1>7, <3>3
    <3> QED
      BY <3>1, <3>2, <3>4
  <2> QED
    BY <1>3, <2>1, <2>2, <2>3
<1>10. \A tail, i : Planned(tail, i)' = Planned(tail, i)
  BY <1>1, <1>8 DEF Planned
<1>11. Output(Len(sent) + 1) = Head(due)
  BY <1>3, <1>4 DEF Output
<1>12. Len(sent) < Total
  BY <1>3 DEF Total
<1>13. \A tail : Follows(tail)' <=> Follows(tail)
  BY <1>8, <1>9, <1>10 DEF Follows
<1>14. \A type : Single(type)' <=> Single(type)
  BY <1>8, <1>9 DEF Single
<1> QED
  BY <1>2, <1>6, <1>7, <1>8, <1>11, <1>12, <1>13, <1>14 DEF Blank

(* New events follow what has been sent.                                   *)
LEMMA OutputPut ==
  ASSUME StreamTyped, due = <<>>, NEW events \in Seq(PlainEvent),
         due' = events, UNCHANGED sent
  PROVE  /\ Total = Len(sent)
         /\ Total' = Len(sent) + Len(events)
         /\ \A i \in 1 .. Len(sent) : Output(i)' = Output(i)
         /\ \A i \in 1 .. Len(events) : Output(Len(sent) + i)' = events[i]
<1>1. Len(sent) \in Nat /\ Len(due) = 0 /\ Len(events) \in Nat
  BY DEF StreamTyped
<1>2. Total = Len(sent) /\ Total' = Len(sent) + Len(events)
  BY <1>1 DEF Total
<1>3. \A i \in 1 .. Len(sent) : Output(i)' = Output(i)
  BY <1>1 DEF Output
<1>4. \A i \in 1 .. Len(events) : Output(Len(sent) + i)' = events[i]
  BY <1>1 DEF Output
<1> QED
  BY <1>2, <1>3, <1>4

(* The stream opens.                                                       *)
LEMMA StreamOpens ==
  ASSUME StreamTyped, Blank, written = <<>>, pipe = <<>>,
         due' = Events(Opening), UNCHANGED <<sent, written, pipe>>
  PROVE  Follows(<<>>)'
<1>1. Len(sent) = 0 /\ due = <<>>
  BY DEF StreamTyped, Blank, Total
<1>2. /\ Events(Opening) \in Seq(PlainEvent) /\ Len(Events(Opening)) = 4
      /\ \A i \in 1 .. 4 : Events(Opening)[i] = Event(Opening[i])
  BY FixedLists, EventsOfTypes
<1>3. PICK events \in Seq(PlainEvent) : events = Events(Opening)
  BY <1>2
<1>4. /\ Total' = 0 + 4
      /\ \A i \in 1 .. 4 : Output(0 + i)' = events[i]
  BY <1>1, <1>2, <1>3, OutputPut
<1>5. \A i \in 1 .. 4 : Output(i)' = Event(Opening[i])
  <2> SUFFICES ASSUME NEW i \in 1 .. 4
               PROVE  Output(i)' = Event(Opening[i])
    OBVIOUS
  <2>1. 0 + i = i
    OBVIOUS
  <2> QED
    BY <1>2, <1>3, <1>4, <2>1
<1>6. Taken' = 0
  BY DEF Taken
<1>7. \A i \in 1 .. 4 : Planned(<<>>, i)' = Event(Opening[i])
  BY DEF Planned
<1> QED
  BY <1>4, <1>5, <1>6, <1>7 DEF Follows

(* A delta goes on.                                                        *)
LEMMA StreamShows ==
  ASSUME StreamTyped, TextInv, Follows(<<>>), TakeDelta
  PROVE  Follows(<<>>)'
<1>1. /\ due = <<>> /\ due' = <<Delta(Head(pipe))>>
      /\ pipe \in Seq(Chunks) /\ pipe # <<>> /\ pipe' = Tail(pipe)
      /\ UNCHANGED <<sent, written>>
      /\ Len(sent) \in Nat /\ Len(written) \in Nat
  BY DEF TakeDelta, Resumed, modelVars, clientVars, StreamTyped, TypeOK
<1>2. Len(pipe) \in Nat /\ Len(pipe) > 0 /\ Len(pipe') = Len(pipe) - 1
      /\ Head(pipe) = pipe[1]
  BY <1>1
<1>3. Taken \in Nat /\ Taken' = Taken + 1
  BY <1>1, <1>2 DEF Taken, TextInv
<1>4. Delta(Head(pipe)) = Delta(written[Taken + 1])
  BY <1>2 DEF TextInv
<1>5. PICK events \in Seq(PlainEvent) : events = <<Delta(Head(pipe))>>
  <2>1. Head(pipe) \in Chunks
    BY <1>1, <1>2
  <2>2. Delta(Head(pipe)) \in PlainEvent
    BY <2>1 DEF Delta, PlainEvent, EventTypes, Marks
  <2>3. <<Delta(Head(pipe))>> \in Seq(PlainEvent)
    BY <2>2
  <2> QED
    BY <2>3
<1>6. /\ Total = Len(sent) /\ Total' = Len(sent) + 1
      /\ \A i \in 1 .. Len(sent) : Output(i)' = Output(i)
      /\ \A i \in 1 .. 1 : Output(Len(sent) + i)' = Delta(Head(pipe))
  <2>1. Len(events) = 1 /\ \A i \in 1 .. 1 : events[i] = Delta(Head(pipe))
    BY <1>5
  <2>2. due' = events
    BY <1>1, <1>5
  <2> QED
    BY <1>1, <2>1, <2>2, OutputPut
<1>7. Total = 4 + Taken
  BY <1>3 DEF Follows
<1>8. ASSUME NEW i \in 1 .. Total
      PROVE  Planned(<<>>, i)' = Planned(<<>>, i)
  BY <1>1, <1>3, <1>7 DEF Planned
<1>9. ASSUME NEW i, i = 5 + Taken
      PROVE  Planned(<<>>, i)' = Delta(written[Taken + 1])
  <2>1. i - 4 = Taken + 1 /\ ~(i <= 4) /\ i <= 4 + Taken'
    BY <1>3, <1>9
  <2> QED
    BY <1>1, <2>1 DEF Planned
<1>10. ASSUME NEW i \in 1 .. Total'
       PROVE  Output(i)' = Planned(<<>>, i)'
  <2>1. CASE i <= Total
    BY <1>1, <1>6, <1>8, <2>1 DEF Follows
  <2>2. CASE i = 5 + Taken
    <3>1. i = Len(sent) + 1
      BY <1>3, <1>6, <1>7, <2>2
    <3>2. PICK j \in 1 .. 1 : i = Len(sent) + j
      BY <3>1
    <3>3. Output(i)' = Delta(Head(pipe))
      BY <1>1, <1>6, <3>2
    <3>4. Planned(<<>>, i)' = Delta(written[Taken + 1])
      BY <1>9, <2>2
    <3> QED
      BY <1>4, <3>3, <3>4
  <2> QED
    BY <1>1, <1>3, <1>6, <1>7, <2>1, <2>2
<1> QED
  BY <1>1, <1>3, <1>6, <1>7, <1>10 DEF Follows

(* The stream ends.                                                        *)
LEMMA StreamCloses ==
  ASSUME StreamTyped, TextInv, Follows(<<>>), due = <<>>, NEW tail \in Seq(Types),
         due' = Events(tail), UNCHANGED <<sent, written, pipe>>
  PROVE  Follows(tail)'
<1>1. Len(sent) \in Nat /\ Taken \in Nat /\ Len(tail) \in Nat /\ Taken' = Taken
  BY DEF StreamTyped, TypeOK, TextInv, Taken
<1>2. /\ Events(tail) \in Seq(PlainEvent) /\ Len(Events(tail)) = Len(tail)
      /\ \A i \in 1 .. Len(tail) : Events(tail)[i] = Event(tail[i])
  BY EventsOfTypes
<1>3. /\ Total = Len(sent) /\ Total' = Len(sent) + Len(tail)
      /\ \A i \in 1 .. Len(sent) : Output(i)' = Output(i)
      /\ \A i \in 1 .. Len(tail) : Output(Len(sent) + i)' = Event(tail[i])
  BY <1>2, OutputPut
<1>4. Len(sent) = 4 + Taken
  BY <1>1, <1>3 DEF Follows
<1>5. ASSUME NEW i \in 1 .. Len(sent)
      PROVE  Planned(tail, i)' = Planned(<<>>, i)
  BY <1>1, <1>4 DEF Planned
<1>6. ASSUME NEW i \in 1 .. Len(tail)
      PROVE  Planned(tail, Len(sent) + i)' = Event(tail[i])
  <2>1. PICK j : j = Len(sent) + i
    OBVIOUS
  <2>2. j - 4 - Taken' = i /\ ~(j <= 4 + Taken') /\ ~(j <= 4)
    BY <1>1, <1>4, <2>1
  <2>3. Planned(tail, j)' = Event(tail[i])
    BY <2>2 DEF Planned
  <2> QED
    BY <2>1, <2>3
<1>7. ASSUME NEW i \in 1 .. Total'
      PROVE  Output(i)' = Planned(tail, i)'
  <2>1. CASE i <= Len(sent)
    BY <1>1, <1>3, <1>5, <2>1 DEF Follows
  <2>2. CASE i > Len(sent)
    <3>1. PICK j \in 1 .. Len(tail) : i = Len(sent) + j
      <4>1. i - Len(sent) \in 1 .. Len(tail) /\ i = Len(sent) + (i - Len(sent))
        BY <1>1, <1>3, <2>2
      <4> QED
        BY <4>1
    <3> QED
      BY <1>3, <1>6, <3>1
  <2> QED
    BY <1>1, <1>3, <2>1, <2>2
<1> QED
  BY <1>1, <1>3, <1>4, <1>7 DEF Follows

(* The only event of a stream that never opens.                            *)
LEMMA StreamSingle ==
  ASSUME StreamTyped, Blank, NEW type \in Types, due' = Events(<<type>>),
         UNCHANGED sent
  PROVE  Single(type)'
<1>1. Len(sent) = 0 /\ due = <<>>
  BY DEF StreamTyped, Blank, Total
<1>2. /\ Events(<<type>>) \in Seq(PlainEvent) /\ Len(Events(<<type>>)) = 1
      /\ Events(<<type>>)[1] = Event(type)
  <2> <<type>> \in Seq(Types)
    OBVIOUS
  <2>1. PICK types \in Seq(Types) : types = <<type>>
    OBVIOUS
  <2>2. Len(types) = 1 /\ types[1] = type
    BY <2>1
  <2>3. /\ Events(types) \in Seq(PlainEvent) /\ Len(Events(types)) = 1
        /\ Events(types)[1] = Event(type)
    BY <2>2, EventsOfTypes
  <2> QED
    BY <2>1, <2>3
<1>3. PICK events \in Seq(PlainEvent) : events = Events(<<type>>)
  BY <1>2
<1>4. Total' = 0 + 1 /\ Output(0 + 1)' = Event(type)
  BY <1>1, <1>2, <1>3, OutputPut
<1> QED
  BY <1>4 DEF Single

(* The node gathers text that has not been taken.                          *)
LEMMA StreamGathers ==
  ASSUME StreamTyped, TextInv, Chunk
  PROVE  /\ Follows(<<>>) => Follows(<<>>)'
         /\ UNCHANGED <<sent, due>>
<1>1. UNCHANGED <<sent, due>>
  BY DEF Chunk, clientVars
<1>2. CASE UNCHANGED <<written, pipe>>
  BY <1>1, <1>2, OutputUnmoved
<1>3. CASE /\ written' = Append(written, <<model, given'>>)
           /\ pipe' = Append(pipe, <<model, given'>>)
  <2>1. written \in Seq(Chunks) /\ pipe \in Seq(Chunks)
    BY DEF StreamTyped, TypeOK
  <2>2. /\ Len(written') = Len(written) + 1 /\ Len(pipe') = Len(pipe) + 1
        /\ \A i \in 1 .. Len(written) : written'[i] = written[i]
    BY <1>3, <2>1
  <2>3. Taken \in Nat /\ Taken' = Taken /\ Taken <= Len(written)
        /\ Len(written) \in Nat
    BY <2>1, <2>2 DEF Taken, TextInv
  <2>4. Total' = Total /\ \A i : Output(i)' = Output(i)
    BY <1>1 DEF Total, Output
  <2>5. ASSUME NEW i \in 1 .. 4 + Taken
        PROVE  Planned(<<>>, i)' = Planned(<<>>, i)
    BY <2>2, <2>3 DEF Planned
  <2> QED
    BY <1>1, <2>3, <2>4, <2>5 DEF Follows
<1> QED
  BY <1>1, <1>2, <1>3 DEF Chunk

-----------------------------------------------------------------------------

(* The stages keep their agreement with run, session and key.              *)
LEMMA StagesKept ==
  ASSUME StreamTyped, StageInv, [Next]_vars
  PROVE  StageInv'
<1> USE DEF StageInv, modelVars, recordVars, clientVars, vars, Goto
<1>1. CASE CallModel \/ Chunk \/ ModelFails \/ ModelEnds
  BY <1>1 DEF CallModel, Chunk, ModelFails, ModelEnds, InNode
<1>2. CASE Replay \/ BeginTurn \/ BusyTurn \/ BeginRaises
  BY <1>2 DEF Replay, BeginTurn, BusyTurn, BeginRaises
<1>3. CASE TakeDelta \/ GraphEnds \/ GraphRaises
  BY <1>3 DEF TakeDelta, GraphEnds, GraphRaises, Resumed
<1>4. CASE CompleteTurn \/ Reload \/ CompleteRaises
  BY <1>4 DEF CompleteTurn, Reload, CompleteRaises
<1>5. CASE MarkFailed \/ MarkRaises
  BY <1>5 DEF MarkFailed, MarkRaises
<1>6. CASE StoreResponse \/ StoreRaises
  BY <1>6 DEF StoreResponse, StoreRaises
<1>7. CASE FailKey
  <2>1. run \in {"failed", "none"}
    BY <1>7 DEF FailKey, StreamTyped, TypeOK
  <2> QED
    BY <1>7, <2>1 DEF FailKey
<1>8. CASE FailKeyRaises \/ Disconnect
  BY <1>8 DEF FailKeyRaises, Disconnect
<1>9. CASE Send
  BY <1>9 DEF Send
<1>10. CASE UNCHANGED vars
  BY <1>10
<1> QED
  BY <1>1, <1>2, <1>3, <1>4, <1>5, <1>6, <1>7, <1>8, <1>9, <1>10
  DEF Next, Progress, Work, Quiet

(* The text keeps its agreement with the model, the queue and the run.     *)
LEMMA TextKept ==
  ASSUME StreamTyped, OutputInv, StageInv, TextInv, [Next]_vars
  PROVE  TextInv'
<1> USE DEF modelVars, recordVars, clientVars, vars, Goto, Opened
<1>1. /\ written \in Seq(Chunks) /\ pipe \in Seq(Chunks)
      /\ sent \in Seq(SentEvent) /\ due \in Seq(PlainEvent)
      /\ given \in Nat
      /\ run \in {"none", "running", "completed", "failed"}
  BY StreamAssumption DEF StreamTyped, TypeOK
<1>2. CASE CallModel
  <2>1. written = <<>> /\ written' = written
    BY <1>2 DEF CallModel, TextInv
  <2>2. \A i \in 1 .. Len(written') : written'[i][1] = model'
    BY <2>1
  <2> QED
    BY <1>2, <2>2 DEF CallModel, TextInv, Taken
<1>3. CASE Chunk
  <2> <<model, given'>>[1] = model
    OBVIOUS
  <2>1. PICK c : c = <<model, given'>> /\ c[1] = model
    OBVIOUS
  <2>2. /\ given' = given + 1 /\ model' = model /\ node' = "calling"
        /\ UNCHANGED <<answer, run, text, stage, sent>>
        /\ stage = "graph" /\ node = "calling" /\ run = "running"
    BY <1>3 DEF Chunk, InNode, StageInv
  <2>3. CASE UNCHANGED <<written, pipe>>
    BY <1>1, <2>2, <2>3 DEF TextInv, Taken
  <2>4. CASE written' = Append(written, c) /\ pipe' = Append(pipe, c)
    <3>1. /\ Len(written') = Len(written) + 1 /\ Len(pipe') = Len(pipe) + 1
          /\ \A i \in 1 .. Len(written) : written'[i] = written[i]
          /\ \A i \in 1 .. Len(pipe) : pipe'[i] = pipe[i]
          /\ written'[Len(written) + 1] = c /\ pipe'[Len(pipe) + 1] = c
      BY <1>1, <2>4
    <3>2. Len(written) \in Nat /\ Len(pipe) \in Nat /\ Len(pipe) <= Len(written)
      BY <1>1 DEF TextInv
    <3>3. Taken \in Nat /\ Taken' = Taken /\ Taken + Len(pipe) = Len(written)
      BY <3>1, <3>2 DEF Taken
    <3>4. \A i \in 1 .. Len(written') : written'[i][1] = model'
      BY <2>1, <2>2, <3>1, <3>2 DEF TextInv
    <3>5. ASSUME NEW i \in 1 .. Len(pipe')
          PROVE  pipe'[i] = written'[Taken' + i]
      <4>1. CASE i <= Len(pipe)
        <5>1. Taken + i \in 1 .. Len(written)
          BY <3>2, <3>3, <4>1
        <5> QED
          BY <3>1, <3>2, <3>3, <4>1, <5>1 DEF TextInv
      <4>2. CASE i = Len(pipe) + 1
        <5>1. Taken' + i = Len(written) + 1
          BY <3>2, <3>3, <4>2
        <5> QED
          BY <3>1, <4>2, <5>1
      <4> QED
        BY <3>1, <3>2, <4>1, <4>2
    <3> QED
      BY <1>1, <2>2, <3>1, <3>2, <3>4, <3>5 DEF TextInv
  <2> QED
    BY <1>3, <2>1, <2>3, <2>4 DEF Chunk
<1>4. CASE ModelFails
  <2>1. CASE MayFailOver
    <3>1. written = <<>>
      BY <2>1 DEF MayFailOver, TextInv
    <3>2. \A i \in 1 .. Len(written') : written'[i][1] = model'
      BY <1>4, <3>1 DEF ModelFails
    <3>3. model' > 0
      BY <1>4, <2>1, StreamAssumption DEF ModelFails, StreamTyped, TypeOK
    <3> QED
      BY <1>4, <2>1, <3>2, <3>3 DEF ModelFails, InNode, TextInv, Taken, MayFailOver
  <2>2. CASE ~MayFailOver
    BY <1>4, <2>2 DEF ModelFails, InNode, TextInv, Taken
  <2> QED
    BY <2>1, <2>2
<1>5. CASE ModelEnds
  BY <1>5 DEF ModelEnds, InNode, TextInv, Taken
<1>6. CASE Replay \/ BeginTurn \/ BusyTurn \/ BeginRaises
  BY <1>6 DEF Replay, BeginTurn, BusyTurn, BeginRaises, TextInv, Taken, StageInv
<1>7. CASE TakeDelta
  <2>1. /\ pipe' = Tail(pipe) /\ pipe # <<>>
        /\ UNCHANGED <<written, model, given, node, answer, run, text, stage, sent>>
        /\ stage = "graph" /\ run = "running"
    BY <1>7 DEF TakeDelta, StageInv
  <2>2. /\ Len(pipe') = Len(pipe) - 1 /\ Len(pipe) \in Nat /\ Len(pipe) > 0
        /\ \A i \in 1 .. Len(pipe') : pipe'[i] = pipe[i + 1]
    BY <1>1, <2>1
  <2>3. Len(written) \in Nat /\ Len(pipe) <= Len(written)
    BY <1>1 DEF TextInv
  <2>4. Taken' = Taken + 1 /\ Taken \in Nat
    <3>1. Taken' = Len(written) - Len(pipe') /\ Taken = Len(written) - Len(pipe)
      BY <2>1 DEF Taken
    <3> QED
      BY <2>2, <2>3, <3>1
  <2>5. ASSUME NEW i \in 1 .. Len(pipe')
        PROVE  pipe'[i] = written'[Taken' + i]
    <3>1. i + 1 \in 1 .. Len(pipe) /\ Taken + (i + 1) = Taken' + i
      BY <2>2, <2>4
    <3> QED
      BY <2>1, <2>2, <3>1 DEF TextInv
  <2>6. Len(pipe') <= Len(written)
    BY <2>2, <2>3
  <2> QED
    BY <2>1, <2>5, <2>6 DEF TextInv
<1>8. CASE GraphEnds
  <2>1. /\ node = "ended" /\ pipe = <<>> /\ due = <<>> /\ stage = "graph"
        /\ run = "running"
        /\ UNCHANGED <<models, model, given, node, written, answer, pipe, run, text,
                       sent>>
    BY <1>8 DEF GraphEnds, Resumed, StageInv
  <2>2. Follows(<<>>)
    BY <2>1 DEF OutputInv
  <2>3. Len(sent) = 4 + Len(written)
    BY <1>1, <2>1, <2>2 DEF Follows, Total, Taken
  <2> QED
    BY <1>1, <2>1, <2>3 DEF TextInv, Taken
<1>9. CASE GraphRaises
  BY <1>9 DEF GraphRaises, TextInv, Taken, StageInv
<1>10. CASE CompleteTurn \/ Reload \/ CompleteRaises
  BY <1>10 DEF CompleteTurn, Reload, CompleteRaises, TextInv, Taken, StageInv
<1>11. CASE MarkFailed \/ MarkRaises \/ StoreResponse \/ StoreRaises
  BY <1>11 DEF MarkFailed, MarkRaises, StoreResponse, StoreRaises, TextInv, Taken,
     StageInv
<1>12. CASE FailKey \/ FailKeyRaises \/ Disconnect
  BY <1>12 DEF FailKey, FailKeyRaises, Disconnect, TextInv, Taken
<1>13. CASE Send
  <2>1. UNCHANGED <<modelVars, pipe, stage, recordVars>>
    BY <1>13 DEF Send
  <2>2. Len(sent') = Len(sent) + 1 /\ Len(sent) \in Nat /\ Len(written) \in Nat
    BY <1>1, <1>13, OutputSent
  <2>3. Len(sent) >= 4 + Len(written) => Len(sent') >= 4 + Len(written)
    BY <2>2
  <2> QED
    BY <2>1, <2>3 DEF TextInv, Taken
<1>14. CASE UNCHANGED vars
  BY <1>14 DEF TextInv, Taken
<1> QED
  BY <1>2, <1>3, <1>4, <1>5, <1>6, <1>7, <1>8, <1>9, <1>10, <1>11, <1>12, <1>13,
     <1>14 DEF Next, Progress, Work, Quiet

-----------------------------------------------------------------------------

(* The output stays planned.                                               *)
LEMMA OutputKept ==
  ASSUME StreamTyped, OutputInv, StageInv, TextInv, [Next]_vars
  PROVE  OutputInv'
<1> USE DEF modelVars, recordVars, clientVars, vars, Goto, Opened
<1>1. ASSUME UNCHANGED <<due, sent, written, pipe>>
      PROVE  /\ (Blank' <=> Blank)
             /\ \A type : Single(type)' <=> Single(type)
             /\ \A tail : Follows(tail)' <=> Follows(tail)
  BY <1>1, OutputUnmoved
<1>2. CASE CallModel \/ ModelFails \/ ModelEnds
  BY <1>1, <1>2 DEF CallModel, ModelFails, ModelEnds, InNode, OutputInv
<1>3. CASE Chunk
  <2>1. stage = "graph" /\ Follows(<<>>) /\ Opened
    BY <1>3 DEF Chunk, InNode, OutputInv
  <2> QED
    BY <1>3, <2>1, StreamGathers DEF Chunk, OutputInv
<1>4. CASE Replay
  <2>1. Blank /\ ~Opened
    BY <1>4 DEF Replay, OutputInv
  <2>2. Single("completed")'
    BY <1>4, <2>1, StreamSingle, FixedLists DEF Replay
  <2> QED
    BY <1>4, <2>1, <2>2 DEF Replay, OutputInv
<1>5. CASE BeginTurn
  <2>1. Blank
    BY <1>5 DEF BeginTurn, OutputInv
  <2>2. written = <<>> /\ pipe = <<>>
    BY <1>5 DEF BeginTurn, StageInv, TextInv, StreamTyped, TypeOK
  <2>3. Follows(<<>>)'
    BY <1>5, <2>1, <2>2, StreamOpens DEF BeginTurn
  <2> QED
    BY <1>5, <2>3 DEF BeginTurn, OutputInv
<1>6. CASE BusyTurn \/ BeginRaises
  BY <1>1, <1>6 DEF BusyTurn, BeginRaises, OutputInv
<1>7. CASE TakeDelta
  <2>1. stage = "graph" /\ Follows(<<>>) /\ Opened
    BY <1>7 DEF TakeDelta, OutputInv
  <2> QED
    BY <1>7, <2>1, StreamShows DEF TakeDelta, OutputInv
<1>8. CASE GraphEnds \/ GraphRaises
  BY <1>1, <1>8 DEF GraphEnds, GraphRaises, OutputInv
<1>9. CASE CompleteTurn \/ Reload \/ CompleteRaises
  BY <1>1, <1>9 DEF CompleteTurn, Reload, CompleteRaises, OutputInv
<1>10. CASE MarkFailed \/ MarkRaises \/ StoreRaises \/ FailKeyRaises
  BY <1>1, <1>10 DEF MarkFailed, MarkRaises, StoreRaises, FailKeyRaises, OutputInv
<1>11. CASE StoreResponse
  <2>1. Follows(<<>>) /\ Opened /\ due = <<>>
    BY <1>11 DEF StoreResponse, OutputInv, StageInv
  <2>2. Follows(Closing)'
    BY <1>11, <2>1, StreamCloses, FixedLists DEF StoreResponse
  <2> QED
    BY <1>11, <2>1, <2>2 DEF StoreResponse, OutputInv
<1>12. CASE FailKey
  <2>1. CASE Opened /\ session = "expired"
    BY <1>1, <1>12, <2>1 DEF FailKey, OutputInv
  <2>2. CASE Opened /\ session # "expired"
    <3>1. Follows(<<>>) /\ due = <<>>
      BY <1>12, <2>2 DEF FailKey, OutputInv, StageInv
    <3>2. Follows(Failing)'
      BY <1>12, <2>2, <3>1, StreamCloses, FixedLists DEF FailKey
    <3> QED
      BY <1>12, <2>2, <3>2 DEF FailKey, OutputInv
  <2>3. CASE ~Opened
    <3>1. Blank
      BY <1>12, <2>3 DEF FailKey, OutputInv
    <3>2. Single("error")'
      BY <1>12, <2>3, <3>1, StreamSingle, FixedLists DEF FailKey
    <3> QED
      BY <1>12, <2>3, <3>2 DEF FailKey, OutputInv
  <2> QED
    BY <2>1, <2>2, <2>3
<1>13. CASE Send
  <2>1. UNCHANGED <<stage, recordVars>>
    BY <1>13 DEF Send
  <2>2. /\ (Blank' <=> Blank)
        /\ \A type : Single(type)' <=> Single(type)
        /\ \A tail : Follows(tail)' <=> Follows(tail)
    BY <1>13, OutputSent
  <2> QED
    BY <2>1, <2>2 DEF OutputInv
<1>14. CASE Disconnect
  BY <1>1, <1>14 DEF Disconnect, OutputInv
<1>15. CASE UNCHANGED vars
  BY <1>1, <1>15 DEF OutputInv
<1> QED
  BY <1>2, <1>3, <1>4, <1>5, <1>6, <1>7, <1>8, <1>9, <1>10, <1>11, <1>12, <1>13,
     <1>14, <1>15 DEF Next, Progress, Work, Quiet

(* Which events a plan puts where.                                         *)
LEMMA PlannedTypes ==
  ASSUME StreamTyped, TextInv, NEW i \in Nat \ {0}
  PROVE  /\ \A tail : i <= 4 + Taken =>
              /\ Planned(tail, i).type \notin {"completed", "error"}
              /\ Planned(tail, i).type = "output_text.delta" <=> i > 4
         /\ i > 4 + Taken /\ i <= 4 + Taken + Len(Closing) =>
              /\ Planned(Closing, i).type \notin {"error", "output_text.delta"}
              /\ Planned(Closing, i).type = "completed" <=> i = 4 + Taken + Len(Closing)
         /\ i > 4 + Taken /\ i <= 4 + Taken + Len(Failing) =>
              /\ Planned(Failing, i).type \notin {"completed", "output_text.delta"}
              /\ Planned(Failing, i).type = "error" <=> i = 4 + Taken + Len(Failing)
<1>1. Taken \in Nat
  BY DEF StreamTyped, TypeOK, TextInv, Taken
<1>2. Len(Closing) = 4 /\ Len(Failing) = 2
  BY FixedLists
<1>3. ASSUME NEW tail, i <= 4
      PROVE  Planned(tail, i).type \notin {"completed", "error", "output_text.delta"}
  BY <1>3, FixedLists DEF Planned, Event
<1>4. ASSUME NEW tail, i > 4, i <= 4 + Taken
      PROVE  Planned(tail, i).type = "output_text.delta"
  BY <1>1, <1>4 DEF Planned, Delta
<1>5. ASSUME i > 4 + Taken
      PROVE  \A tail : Planned(tail, i).type = tail[i - 4 - Taken]
  BY <1>1, <1>5 DEF Planned, Event
<1>6. ASSUME i > 4 + Taken, i <= 4 + Taken + 4
      PROVE  /\ Planned(Closing, i).type \notin {"error", "output_text.delta"}
             /\ Planned(Closing, i).type = "completed" <=> i = 4 + Taken + 4
  <2>1. PICK j \in 1 .. 4 : j = i - 4 - Taken
    BY <1>1, <1>6
  <2>2. j = 4 <=> i = 4 + Taken + 4
    BY <1>1, <2>1
  <2> QED
    BY <1>5, <1>6, <2>1, <2>2, FixedLists
<1>7. ASSUME i > 4 + Taken, i <= 4 + Taken + 2
      PROVE  /\ Planned(Failing, i).type \notin {"completed", "output_text.delta"}
             /\ Planned(Failing, i).type = "error" <=> i = 4 + Taken + 2
  <2>1. PICK j \in 1 .. 2 : j = i - 4 - Taken
    BY <1>1, <1>7
  <2>2. j = 2 <=> i = 4 + Taken + 2
    BY <1>1, <2>1
  <2> QED
    BY <1>5, <1>7, <2>1, <2>2, FixedLists
<1> QED
  BY <1>1, <1>2, <1>3, <1>4, <1>6, <1>7

(* The event that ends a stream is its last, and says what is stored.      *)
LEMMA LastEvent ==
  ASSUME StreamTyped, OutputInv, TextInv, NEW i \in 1 .. Total,
         Output(i).type \in {"completed", "error"}
  PROVE  /\ i = Total /\ stage \in {"end", "left"}
         /\ Output(i).type = "completed" => key.status = "completed"
         /\ Output(i).type = "error" => key = [status |-> "failed", code |-> code]
<1>1. Total \in Nat /\ Taken \in Nat /\ i \in Nat \ {0}
  BY DEF StreamTyped, TypeOK, TextInv, Total, Taken
<1>2. /\ \A tail : i <= 4 + Taken => Planned(tail, i).type \notin {"completed", "error"}
      /\ i > 4 + Taken /\ i <= 4 + Taken + Len(Closing) =>
            /\ Planned(Closing, i).type # "error"
            /\ Planned(Closing, i).type = "completed" <=> i = 4 + Taken + Len(Closing)
      /\ i > 4 + Taken /\ i <= 4 + Taken + Len(Failing) =>
            /\ Planned(Failing, i).type # "completed"
            /\ Planned(Failing, i).type = "error" <=> i = 4 + Taken + Len(Failing)
  BY <1>1, PlannedTypes
<1>3. CASE Blank
  BY <1>1, <1>3 DEF Blank
<1>4. CASE Follows(<<>>)
  <2>1. Total = 4 + Taken /\ Output(i) = Planned(<<>>, i)
    BY <1>1, <1>4 DEF Follows
  <2> QED
    BY <1>1, <1>2, <2>1
<1>5. CASE /\ stage \in {"end", "left"} /\ key.status = "completed"
           /\ Single("completed") \/ Follows(Closing)
  <2>1. CASE Single("completed")
    BY <1>1, <1>5, <2>1 DEF Single, Event
  <2>2. CASE Follows(Closing)
    <3>1. Total = 4 + Taken + Len(Closing) /\ Output(i) = Planned(Closing, i)
      BY <2>2 DEF Follows
    <3>2. ~(i <= 4 + Taken) /\ i > 4 + Taken /\ i <= 4 + Taken + Len(Closing)
      BY <1>1, <1>2, <3>1
    <3> QED
      BY <1>2, <1>5, <3>1, <3>2
  <2> QED
    BY <1>5, <2>1, <2>2
<1>6. CASE /\ stage \in {"end", "left"} /\ key = [status |-> "failed", code |-> code]
           /\ Single("error") \/ Follows(Failing)
  <2>1. CASE Single("error")
    BY <1>1, <1>6, <2>1 DEF Single, Event
  <2>2. CASE Follows(Failing)
    <3>1. Total = 4 + Taken + Len(Failing) /\ Output(i) = Planned(Failing, i)
      BY <2>2 DEF Follows
    <3>2. ~(i <= 4 + Taken) /\ i > 4 + Taken /\ i <= 4 + Taken + Len(Failing)
      BY <1>1, <1>2, <3>1
    <3> QED
      BY <1>2, <1>6, <3>1, <3>2
  <2> QED
    BY <1>6, <2>1, <2>2
<1> QED
  BY <1>3, <1>4, <1>5, <1>6 DEF OutputInv

(* The numbers stay in order.                                              *)
LEMMA NumbersKept ==
  ASSUME StreamTyped, OutputInv, StageInv, TextInv, NumberInv, [Next]_vars
  PROVE  NumberInv'
<1> USE DEF modelVars, recordVars, clientVars, vars, Goto
<1>1. CASE Send
  <2>1. Len(sent) \in Nat /\ Len(due) \in Nat /\ due # <<>>
    BY <1>1 DEF StreamTyped, Send
  <2>2. /\ Len(sent') = Len(sent) + 1 /\ Len(due') = Len(due) - 1
        /\ Len(sent) < Total /\ Output(Len(sent) + 1) = Head(due)
        /\ \A i \in 1 .. Len(sent) : sent'[i] = sent[i]
        /\ sent'[Len(sent) + 1].number = number
    BY <1>1, OutputSent
  <2>3. number = Len(sent)
    BY <2>1 DEF NumberInv
  <2>4. \A i \in 1 .. Len(sent') : sent'[i].number = i - 1
    BY <2>1, <2>2, <2>3 DEF NumberInv
  <2>5. CASE Head(due).type \in {"completed", "error"}
    <3>1. PICK i \in 1 .. Total : i = Len(sent) + 1
      BY <2>1, <2>2 DEF Total
    <3>2. i = Total /\ stage \in {"end", "left"}
      BY <2>2, <2>5, <3>1, LastEvent
    <3>3. Len(due') = 0
      BY <2>1, <2>2, <3>1, <3>2 DEF Total
    <3>4. due' = <<>> /\ stage' = stage
      BY <1>1, <3>3 DEF Send, StreamTyped
    <3> QED
      BY <2>4, <3>2, <3>4 DEF NumberInv
  <2>6. CASE Head(due).type \notin {"completed", "error"}
    <3>1. number' = Len(sent')
      BY <1>1, <2>2, <2>3, <2>6 DEF Send, NumberAfter
    <3> QED
      BY <2>4, <3>1 DEF NumberInv
  <2> QED
    BY <2>5, <2>6
<1>2. CASE Work
  <2>1. UNCHANGED <<number, sent>> /\ stage \notin {"end", "left"}
    BY <1>2 DEF Work, CallModel, Chunk, ModelFails, ModelEnds, InNode, Replay,
       BeginTurn, BusyTurn, BeginRaises, TakeDelta, GraphEnds, GraphRaises,
       CompleteTurn, Reload, CompleteRaises, MarkFailed, MarkRaises, StoreResponse,
       StoreRaises, FailKey, FailKeyRaises
  <2> QED
    BY <2>1 DEF NumberInv
<1>3. CASE Disconnect
  BY <1>3 DEF Disconnect, NumberInv
<1>4. CASE UNCHANGED vars
  BY <1>4 DEF NumberInv
<1> QED
  BY <1>1, <1>2, <1>3, <1>4 DEF Next, Progress, Quiet

LEMMA StreamInvInit == Init => StreamInv
<1> SUFFICES ASSUME Init
             PROVE  StreamInv
  OBVIOUS
<1> USE DEF Init
<1>1. StreamTyped
  <2>1. TypeOK
    <3>1. due = <<>> /\ Range(due) = {}
      BY DEF Range
    <3> QED
      BY <3>1, StreamAssumption DEF TypeOK, Codes
  <2> QED
    BY <2>1 DEF StreamTyped
<1>2. OutputInv
  BY DEF OutputInv, Opened, Blank, Total
<1>3. NumberInv /\ StageInv /\ TextInv
  BY DEF NumberInv, StageInv, TextInv, Opened, Taken
<1> QED
  BY <1>1, <1>2, <1>3 DEF StreamInv

(* The output of a stream is planned, numbered and stored at every moment. *)
THEOREM StreamsArePlanned == Spec => []StreamInv
<1>1. StreamInv /\ [Next]_vars => StreamInv'
  BY TypesKept, OutputKept, NumbersKept, StagesKept, TextKept DEF StreamInv
<1> QED
  BY <1>1, StreamInvInit, PTL DEF Spec

-----------------------------------------------------------------------------

LEMMA PrefixPointwise ==
  ASSUME NEW S, NEW s \in Seq(S), NEW t \in Seq(S), Len(s) <= Len(t),
         \A i \in 1 .. Len(s) : s[i] = t[i]
  PROVE  IsPrefix(s, t)
<1>1. /\ SubSeq(s, 1, Len(s)) \in Seq(S) /\ Len(SubSeq(s, 1, Len(s))) = Len(s)
      /\ \A i \in 1 .. Len(s) : SubSeq(s, 1, Len(s))[i] = s[i]
  OBVIOUS
<1>2. /\ SubSeq(t, 1, Len(s)) \in Seq(S) /\ Len(SubSeq(t, 1, Len(s))) = Len(s)
      /\ \A i \in 1 .. Len(s) : SubSeq(t, 1, Len(s))[i] = t[i]
  OBVIOUS
<1>3. SubSeq(s, 1, Len(s)) = SubSeq(t, 1, Len(s))
  BY <1>1, <1>2, SeqEqual
<1> QED
  BY <1>3 DEF IsPrefix

(* A stream with n deltas that ends with tail.                             *)
LEMMA WholeStream ==
  ASSUME NEW n \in Nat, NEW tail \in Seq(Types)
  PROVE  LET whole == Opening \o [i \in 1 .. n |-> "output_text.delta"] \o tail
         IN  /\ whole \in Seq(EventTypes)
             /\ Len(whole) = 4 + n + Len(tail)
             /\ \A i \in 1 .. Len(whole) :
                  whole[i] = IF i <= 4 THEN Opening[i]
                             ELSE IF i <= 4 + n THEN "output_text.delta"
                             ELSE tail[i - 4 - n]
<1>1. PICK deltas \in Seq(EventTypes) :
        /\ deltas = [i \in 1 .. n |-> "output_text.delta"]
        /\ Len(deltas) = n /\ \A i \in 1 .. n : deltas[i] = "output_text.delta"
  <2>1. /\ [i \in 1 .. n |-> "output_text.delta"] \in Seq(EventTypes)
        /\ Len([i \in 1 .. n |-> "output_text.delta"]) = n
    BY DEF EventTypes
  <2> QED
    BY <2>1
<1>2. PICK opening \in Seq(EventTypes) : opening = Opening /\ Len(opening) = 4
  <2>1. Opening \in Seq(EventTypes)
    BY FixedLists DEF EventTypes
  <2> QED
    BY <2>1, FixedLists
<1>3. tail \in Seq(EventTypes) /\ Len(tail) \in Nat
  BY DEF EventTypes
<1>4. PICK start \in Seq(EventTypes) : start = opening \o deltas
  <2>1. opening \o deltas \in Seq(EventTypes)
    OBVIOUS
  <2> QED
    BY <2>1
<1>5. /\ Len(start) = 4 + n
      /\ \A i \in 1 .. 4 : start[i] = opening[i]
      /\ \A i \in 5 .. 4 + n : start[i] = "output_text.delta"
  <2>1. /\ Len(start) = 4 + n
        /\ \A i \in 1 .. 4 + n :
              start[i] = IF i <= 4 THEN opening[i] ELSE deltas[i - 4]
    <3>1. /\ Len(opening \o deltas) = Len(opening) + Len(deltas)
          /\ \A i \in 1 .. Len(opening) + Len(deltas) : (opening \o deltas)[i] =
                IF i <= Len(opening) THEN opening[i] ELSE deltas[i - Len(opening)]
      BY ConcatProperties
    <3> QED
      BY <1>1, <1>2, <1>4, <3>1
  <2>2. \A i \in 5 .. 4 + n : i - 4 \in 1 .. n /\ i \in 1 .. 4 + n /\ ~(i <= 4)
    OBVIOUS
  <2>3. \A i \in 1 .. 4 : i \in 1 .. 4 + n
    OBVIOUS
  <2> QED
    BY <1>1, <2>1, <2>2, <2>3
<1>6. PICK whole \in Seq(EventTypes) : whole = start \o tail
  <2>1. start \o tail \in Seq(EventTypes)
    BY <1>3
  <2> QED
    BY <2>1
<1>7. /\ Len(whole) = 4 + n + Len(tail)
      /\ \A i \in 1 .. Len(whole) :
            whole[i] = IF i <= 4 + n THEN start[i] ELSE tail[i - (4 + n)]
  <2>1. /\ Len(start \o tail) = Len(start) + Len(tail)
        /\ \A i \in 1 .. Len(start) + Len(tail) : (start \o tail)[i] =
              IF i <= Len(start) THEN start[i] ELSE tail[i - Len(start)]
    BY <1>3, ConcatProperties
  <2> QED
    BY <1>5, <1>6, <2>1
<1>8. ASSUME NEW i \in 1 .. Len(whole)
      PROVE  whole[i] = IF i <= 4 THEN Opening[i]
                        ELSE IF i <= 4 + n THEN "output_text.delta"
                        ELSE tail[i - 4 - n]
  <2>1. CASE i <= 4
    BY <1>2, <1>5, <1>7, <2>1
  <2>2. CASE i > 4 /\ i <= 4 + n
    BY <1>5, <1>7, <2>2
  <2>3. CASE i > 4 + n
    <3>1. i - (4 + n) = i - 4 - n /\ ~(i <= 4 + n) /\ ~(i <= 4)
      BY <1>3, <1>7, <2>3
    <3> QED
      BY <1>7, <3>1
  <2> QED
    BY <1>3, <1>7, <2>1, <2>2, <2>3
<1>9. whole = Opening \o [i \in 1 .. n |-> "output_text.delta"] \o tail
  BY <1>1, <1>2, <1>4, <1>6
<1> QED
  BY <1>7, <1>8, <1>9

(* The part that was sent is the beginning of the output.                  *)
LEMMA SentOutput ==
  ASSUME StreamTyped
  PROVE  /\ Len(sent) \in Nat /\ Len(sent) <= Total /\ DOMAIN sent = 1 .. Len(sent)
         /\ \A i \in 1 .. Len(sent) :
              /\ i \in 1 .. Total
              /\ Output(i).type = sent[i].type /\ Output(i).chunk = sent[i].chunk
         /\ SentTypes \in Seq(EventTypes) /\ Len(SentTypes) = Len(sent)
         /\ \A i \in 1 .. Len(sent) : SentTypes[i] = sent[i].type
<1>1. /\ Len(sent) \in Nat /\ Len(due) \in Nat /\ DOMAIN sent = 1 .. Len(sent)
      /\ \A i \in 1 .. Len(sent) : sent[i] \in SentEvent
  BY DEF StreamTyped
<1>2. Len(sent) <= Total /\ \A i \in 1 .. Len(sent) : i \in 1 .. Total
  BY <1>1 DEF Total
<1>3. \A i \in 1 .. Len(sent) :
        Output(i).type = sent[i].type /\ Output(i).chunk = sent[i].chunk
  BY <1>1 DEF Output
<1>4. /\ SentTypes = [i \in 1 .. Len(sent) |-> sent[i].type]
      /\ \A i \in 1 .. Len(sent) : sent[i].type \in EventTypes
  BY <1>1 DEF SentTypes, SentEvent
<1>5. /\ SentTypes \in Seq(EventTypes) /\ Len(SentTypes) = Len(sent)
      /\ \A i \in 1 .. Len(sent) : SentTypes[i] = sent[i].type
  BY <1>1, <1>4
<1> QED
  BY <1>1, <1>2, <1>3, <1>5

LEMMA FollowingIsOrdered ==
  ASSUME StreamTyped, TextInv, NEW tail \in {<<>>, Closing, Failing}, Follows(tail)
  PROVE  \E n \in 0 .. Len(sent), ending \in {Closing, Failing} :
            IsPrefix(SentTypes,
                     Opening \o [i \in 1 .. n |-> "output_text.delta"] \o ending)
<1>1. Taken \in Nat
  BY DEF StreamTyped, TypeOK, TextInv, Taken
<1>2. /\ Len(sent) \in Nat /\ Len(sent) <= Total
      /\ SentTypes \in Seq(EventTypes) /\ Len(SentTypes) = Len(sent)
      /\ \A i \in 1 .. Len(sent) :
            i \in 1 .. Total /\ SentTypes[i] = Output(i).type
  BY SentOutput
<1>3. PICK n \in 0 .. Len(sent) :
        n = IF Taken <= Len(sent) THEN Taken ELSE Len(sent)
  BY <1>1, <1>2
<1>4. PICK ending \in {Closing, Failing} : tail # <<>> => ending = tail
  OBVIOUS
<1>5. ending \in Seq(Types) /\ Len(ending) \in Nat /\ n \in Nat
  BY <1>2, <1>4, FixedLists
<1>6. PICK whole \in Seq(EventTypes) :
        /\ whole = Opening \o [i \in 1 .. n |-> "output_text.delta"] \o ending
        /\ Len(whole) = 4 + n + Len(ending)
        /\ \A i \in 1 .. Len(whole) :
              whole[i] = IF i <= 4 THEN Opening[i]
                         ELSE IF i <= 4 + n THEN "output_text.delta"
                         ELSE ending[i - 4 - n]
  BY <1>5, WholeStream
<1>7. Total = 4 + Taken + Len(tail) /\ \A i \in 1 .. Total : Output(i) = Planned(tail, i)
  BY DEF Follows
<1>8. Len(tail) \in Nat /\ (tail = <<>> => Len(tail) = 0)
  BY FixedLists
<1>9. Len(sent) <= Len(whole)
  BY <1>1, <1>2, <1>3, <1>4, <1>5, <1>6, <1>7, <1>8
<1>10. ASSUME NEW i \in 1 .. Len(sent)
       PROVE  SentTypes[i] = whole[i]
  <2>1. i \in Nat \ {0} /\ i \in 1 .. Len(whole) /\ SentTypes[i] = Planned(tail, i).type
    BY <1>2, <1>5, <1>6, <1>7, <1>9
  <2>2. CASE i <= 4
    BY <1>6, <2>1, <2>2 DEF Planned, Event
  <2>3. CASE i > 4 /\ i <= 4 + Taken
    <3>1. i <= 4 + n
      BY <1>1, <1>2, <1>3, <2>3
    <3> QED
      BY <1>1, <1>6, <2>1, <2>3, <3>1 DEF Planned, Delta
  <2>4. CASE i > 4 + Taken
    <3>1. n = Taken /\ tail = ending
      BY <1>1, <1>2, <1>3, <1>4, <1>7, <1>8, <2>4
    <3>2. ~(i <= 4) /\ ~(i <= 4 + Taken)
      BY <1>1, <2>4
    <3>3. Planned(tail, i).type = tail[i - 4 - Taken]
      BY <3>2 DEF Planned, Event
    <3> QED
      BY <1>6, <2>1, <3>1, <3>2, <3>3
  <2> QED
    BY <1>1, <2>1, <2>2, <2>3, <2>4
<1>11. IsPrefix(SentTypes, whole)
  BY <1>2, <1>9, <1>10, PrefixPointwise
<1> QED
  BY <1>6, <1>11

(* What has been sent of a single event is it or nothing.                  *)
LEMMA SingleIsOrdered ==
  ASSUME StreamTyped, NEW type, Blank \/ Single(type)
  PROVE  SentTypes \in {<<>>, <<type>>}
<1>1. /\ Len(sent) \in Nat /\ Len(sent) <= Total
      /\ SentTypes \in Seq(EventTypes) /\ Len(SentTypes) = Len(sent)
      /\ \A i \in 1 .. Len(sent) :
            i \in 1 .. Total /\ SentTypes[i] = Output(i).type
  BY SentOutput
<1>2. CASE Len(sent) = 0
  BY <1>1, <1>2
<1>3. CASE Len(sent) > 0
  <2>1. Len(SentTypes) = 1 /\ SentTypes[1] = Output(1).type /\ Single(type)
    BY <1>1, <1>3 DEF Blank, Single
  <2>2. SentTypes[1] = type
    BY <2>1 DEF Single, Event
  <2> QED
    BY <1>1, <2>1, <2>2
<1> QED
  BY <1>1, <1>2, <1>3

(* The client never reads anything but the beginning of one of the streams *)
(* the code describes, numbered without gap, whatever fails.               *)
THEOREM StreamsAreOrdered == Spec => []StreamOrdered
<1>1. StreamInv => StreamOrdered
  <2> SUFFICES ASSUME StreamInv
               PROVE  StreamOrdered
    OBVIOUS
  <2>1. \A i \in DOMAIN sent : sent[i].number = i - 1
    BY SentOutput DEF StreamInv, NumberInv
  <2>2. CASE \E tail \in {<<>>, Closing, Failing} : Follows(tail)
    BY <2>1, <2>2, FollowingIsOrdered DEF StreamInv, StreamOrdered
  <2>3. CASE SentTypes \in {<<"error">>, <<"completed">>}
    BY <2>1, <2>3 DEF StreamOrdered
  <2>4. CASE SentTypes = <<>>
    <3>1. PICK whole \in Seq(EventTypes) :
            whole = Opening \o [i \in 1 .. 0 |-> "output_text.delta"] \o Closing
      <4>1. 0 \in Nat /\ Closing \in Seq(Types)
        BY FixedLists
      <4> QED
        BY <4>1, WholeStream
    <3>2. IsPrefix(SentTypes, whole)
      <4>1. SentTypes \in Seq(EventTypes) /\ Len(SentTypes) = 0 /\ Len(whole) \in Nat
        BY <2>4
      <4>2. Len(SentTypes) <= Len(whole)
            /\ \A i \in 1 .. Len(SentTypes) : SentTypes[i] = whole[i]
        BY <4>1
      <4> QED
        BY <4>1, <4>2, PrefixPointwise
    <3>3. 0 \in 0 .. Len(sent)
      BY SentOutput DEF StreamInv
    <3> QED
      BY <2>1, <3>1, <3>2, <3>3 DEF StreamOrdered
  <2> QED
    BY <2>2, <2>3, <2>4, SingleIsOrdered DEF StreamInv, OutputInv
<1> QED
  BY <1>1, StreamsArePlanned, PTL

(* The deltas of the output are the text gathered up to there.             *)
LEMMA OutputDeltas ==
  ASSUME StreamTyped, OutputInv, TextInv, NEW i \in 1 .. Total
  PROVE  /\ Output(i).type = "output_text.delta" <=> i > 4 /\ i <= 4 + Taken
         /\ Output(i).type = "output_text.delta" =>
                Output(i).chunk = written[i - 4]
<1>1. Total \in Nat /\ Taken \in Nat /\ i \in Nat \ {0}
  BY DEF StreamTyped, TypeOK, TextInv, Taken, Total
<1>2. ASSUME NEW type, type # "output_text.delta", Blank \/ Single(type)
      PROVE  Output(i).type # "output_text.delta" /\ ~(i > 4)
  BY <1>1, <1>2 DEF Blank, Single, Event
<1>3. ASSUME NEW tail \in {<<>>, Closing, Failing}, Follows(tail)
      PROVE  /\ Output(i).type = "output_text.delta" <=> i > 4 /\ i <= 4 + Taken
             /\ Output(i).type = "output_text.delta" =>
                    Output(i).chunk = written[i - 4]
  <2>1. /\ Total = 4 + Taken + Len(tail)
        /\ Output(i) = Planned(tail, i)
    BY <1>1, <1>3 DEF Follows
  <2>2. CASE i <= 4 + Taken
    <3>1. Output(i).type = "output_text.delta" <=> i > 4
      BY <1>1, <2>1, <2>2, PlannedTypes
    <3>2. i > 4 => Output(i) = Delta(written[i - 4])
      BY <1>1, <2>1, <2>2 DEF Planned
    <3> QED
      BY <2>2, <3>1, <3>2 DEF Delta
  <2>3. CASE i > 4 + Taken
    <3>1. i <= 4 + Taken + Len(tail) /\ Len(<<>>) = 0
      BY <1>1, <2>1
    <3>2. tail # <<>>
      BY <1>1, <2>3, <3>1
    <3>3. Output(i).type # "output_text.delta"
      BY <1>1, <2>1, <2>3, <3>1, <3>2, PlannedTypes
    <3> QED
      BY <1>1, <2>3, <3>3
  <2> QED
    BY <1>1, <2>2, <2>3
<1> QED
  BY <1>2, <1>3 DEF OutputInv

LEMMA SentDeltas ==
  ASSUME StreamTyped, OutputInv, TextInv
  PROVE  \A i \in 1 .. Len(sent) :
            /\ i \in Deltas <=> i > 4 /\ i <= 4 + Taken
            /\ i \in Deltas => sent[i].chunk = written[i - 4]
<1> SUFFICES ASSUME NEW i \in 1 .. Len(sent)
             PROVE  /\ i \in Deltas <=> i > 4 /\ i <= 4 + Taken
                    /\ i \in Deltas => sent[i].chunk = written[i - 4]
  OBVIOUS
<1>1. /\ i \in 1 .. Total /\ Output(i).chunk = sent[i].chunk
      /\ i \in Deltas <=> Output(i).type = "output_text.delta"
  BY SentOutput DEF Deltas
<1> QED
  BY <1>1, OutputDeltas

(* Nobody reads text of two models, and the text of a completed run is     *)
(* what was streamed, the fixed reply excepted, which is never streamed.   *)
THEOREM StreamsHaveOneVoice == Spec => []OneVoice
<1>1. StreamInv => OneVoice
  <2> SUFFICES ASSUME StreamInv
               PROVE  OneVoice
    OBVIOUS
  <2>1. StreamTyped /\ OutputInv /\ TextInv
    BY DEF StreamInv
  <2>2. /\ Len(sent) \in Nat /\ DOMAIN sent = 1 .. Len(sent)
        /\ written \in Seq(Chunks) /\ Len(written) \in Nat /\ Len(pipe) \in Nat
        /\ Taken \in Nat /\ Taken <= Len(written)
    BY <2>1, SentOutput DEF StreamTyped, TypeOK, TextInv, Taken
  <2>3. \A i \in Deltas : i \in 1 .. Len(sent)
    BY <2>2 DEF Deltas
  <2>4. ASSUME NEW i \in Deltas
        PROVE  sent[i].chunk[1] = model
    <3>1. /\ i \in 1 .. Len(sent) /\ i > 4 /\ i <= 4 + Taken
          /\ sent[i].chunk = written[i - 4]
      BY <2>1, <2>3, SentDeltas
    <3>2. i - 4 \in 1 .. Len(written)
      BY <2>2, <3>1
    <3> QED
      BY <2>1, <3>1, <3>2 DEF TextInv
  <2>5. ASSUME run = "completed"
        PROVE  \/ text = Apology /\ Deltas = {}
               \/ /\ Deltas = {Len(Opening) + i : i \in DOMAIN text}
                  /\ \A i \in DOMAIN text : sent[Len(Opening) + i].chunk = text[i]
    <3>1. /\ text = IF written = <<>> THEN Apology ELSE written
          /\ Len(sent) >= 4 + Len(written) /\ Taken = Len(written)
      BY <2>1, <2>2, <2>5 DEF TextInv, Taken
    <3>2. \A i \in Nat : i \in Deltas <=> i > 4 /\ i <= 4 + Len(written)
      BY <2>1, <2>2, <2>3, <3>1, SentDeltas
    <3>3. CASE written = <<>>
      <4>1. Len(written) = 0
        BY <3>3
      <4>2. Deltas = {}
        BY <2>2, <2>3, <3>2, <4>1
      <4> QED
        BY <3>1, <3>3, <4>2
    <3>4. CASE written # <<>>
      <4>1. text = written /\ DOMAIN text = 1 .. Len(written) /\ Len(Opening) = 4
        BY <2>2, <3>1, <3>4, FixedLists
      <4>2. ASSUME NEW i \in 1 .. Len(written)
            PROVE  4 + i \in Deltas /\ sent[4 + i].chunk = written[i]
        <5>1. /\ 4 + i \in 1 .. Len(sent) /\ 4 + i \in Nat /\ 4 + i > 4
              /\ 4 + i <= 4 + Len(written) /\ (4 + i) - 4 = i
          BY <2>2, <3>1
        <5>2. 4 + i \in Deltas
          BY <3>2, <5>1
        <5> QED
          BY <2>1, <5>1, <5>2, SentDeltas
      <4>3. ASSUME NEW j \in Deltas
            PROVE  \E i \in 1 .. Len(written) : j = 4 + i
        <5>1. j \in Nat /\ j > 4 /\ j <= 4 + Len(written)
          BY <2>2, <2>3, <3>2
        <5>2. j - 4 \in 1 .. Len(written) /\ j = 4 + (j - 4)
          BY <2>2, <5>1
        <5> QED
          BY <5>2
      <4>4. Deltas = {4 + i : i \in 1 .. Len(written)}
        BY <4>2, <4>3
      <4> QED
        BY <4>1, <4>2, <4>4
    <3> QED
      BY <3>3, <3>4
  <2> QED
    BY <2>4, <2>5 DEF OneVoice
<1> QED
  BY <1>1, StreamsArePlanned, PTL

(* What the client is told has been stored, whatever fails afterwards.     *)
THEOREM StoredBeforeTold == Spec => []ToldIsStored
<1>1. StreamInv => ToldIsStored
  <2> SUFFICES ASSUME StreamInv
               PROVE  ToldIsStored
    OBVIOUS
  <2>1. ASSUME NEW type \in Range(SentTypes)
        PROVE  \E i \in 1 .. Total : Output(i).type = type
    <3>1. PICK i \in DOMAIN SentTypes : type = SentTypes[i]
      BY <2>1 DEF Range
    <3>2. i \in 1 .. Len(sent)
      BY <3>1 DEF SentTypes, StreamInv, StreamTyped
    <3> QED
      BY <3>1, <3>2, SentOutput DEF StreamInv
  <2>2. "completed" \in Range(SentTypes) => key.status = "completed"
    BY <2>1, LastEvent DEF StreamInv
  <2>3. "error" \in Range(SentTypes) => key = [status |-> "failed", code |-> code]
    BY <2>1, LastEvent DEF StreamInv
  <2> QED
    BY <2>2, <2>3 DEF StreamInv, StageInv, ToldIsStored
<1> QED
  BY <1>1, StreamsArePlanned, PTL

-----------------------------------------------------------------------------
(* The reader.                                                             *)

(* To the stream, the reader is a client that takes its events or leaves.  *)
THEOREM ReaderRunsStream == ReaderSpec => Spec
<1>1. ReaderInit => Init
  BY DEF ReaderInit
<1>2. [ReaderNext]_allVars => [Next]_vars
  BY DEF ReaderNext, ReaderProgress, Read, Finish, Dropped, Leave, ReaderDone,
     allVars, Next, Progress
<1> QED
  BY <1>1, <1>2, PTL DEF ReaderSpec, Spec

GotCompleted == \E i \in 1 .. Len(sent) : sent[i].type = "completed"
GotError == \E i \in 1 .. Len(sent) : sent[i].type = "error"

(* How many of the first n events are deltas.                              *)
DeltasIn(n) == IF n <= 4 THEN 0 ELSE IF n <= 4 + Taken THEN n - 4 ELSE Taken

ReaderTyped ==
    /\ shown \in Seq(Chunks) \cup {Apology}
    /\ reader \in {"reading", "prompt", "refused", "cut"}

(* The deltas read are on the screen, and at the end the stored text is.   *)
ScreenInv ==
    /\ GotCompleted => shown = text
    /\ ~GotCompleted =>
        /\ shown \in Seq(Chunks)
        /\ Len(shown) = DeltasIn(Len(sent))
        /\ \A i \in 1 .. Len(shown) : shown[i] = written[i]

(* The reader stops where the stream does.                                 *)
LoopInv ==
    /\ reader # "reading" => stage \in {"end", "broken", "left"}
    /\ reader = "refused" <=> GotError
    /\ reader = "prompt" /\ stage = "end" => GotCompleted

ReaderInv == ReaderTyped /\ ScreenInv /\ LoopInv

(* Nothing is read after the event that ends the stream.                   *)
LEMMA EndsOnce ==
  ASSUME StreamInv
  PROVE  /\ GotCompleted \/ GotError =>
                stage \in {"end", "left"} /\ Len(sent) = Total
         /\ GotCompleted => key.status = "completed"
         /\ GotError => key.status = "failed"
<1>1. ASSUME NEW i \in 1 .. Len(sent), sent[i].type \in {"completed", "error"}
      PROVE  /\ stage \in {"end", "left"} /\ Len(sent) = Total
             /\ sent[i].type = "completed" => key.status = "completed"
             /\ sent[i].type = "error" => key.status = "failed"
  <2>1. /\ i \in 1 .. Total /\ Output(i).type = sent[i].type
        /\ Len(sent) \in Nat /\ Len(sent) <= Total
    BY SentOutput DEF StreamInv
  <2>2. /\ i = Total /\ stage \in {"end", "left"}
        /\ Output(i).type = "completed" => key.status = "completed"
        /\ Output(i).type = "error" => key = [status |-> "failed", code |-> code]
    BY <1>1, <2>1, LastEvent DEF StreamInv
  <2>3. Len(sent) = Total
    BY <2>1, <2>2
  <2> QED
    BY <2>1, <2>2, <2>3
<1> QED
  BY <1>1 DEF GotCompleted, GotError

(* A stream of which all was sent has told how it ended.                   *)
LEMMA EndIsTold ==
  ASSUME StreamInv, stage = "end", due = <<>>
  PROVE  GotCompleted \/ GotError
<1>1. /\ Len(sent) \in Nat /\ Len(sent) = Total /\ Taken \in Nat
      /\ \A i \in 1 .. Len(sent) : Output(i).type = sent[i].type
  BY SentOutput DEF StreamInv, StreamTyped, TypeOK, TextInv, Total, Taken
<1>2. CASE Single("completed") \/ Single("error")
  <2>1. Len(sent) = 1 /\ Output(1).type \in {"completed", "error"}
    BY <1>1, <1>2 DEF Single, Event
  <2> QED
    BY <1>1, <2>1 DEF GotCompleted, GotError
<1>3. CASE Follows(Closing)
  <2>1. /\ Total \in Nat \ {0} /\ Total = 4 + Taken + Len(Closing) /\ Total > 4 + Taken
        /\ Output(Total) = Planned(Closing, Total)
    BY <1>1, <1>3, FixedLists DEF Follows
  <2>2. Output(Total).type = "completed"
    BY <2>1, PlannedTypes DEF StreamInv
  <2> QED
    BY <1>1, <2>1, <2>2 DEF GotCompleted
<1>4. CASE Follows(Failing)
  <2>1. /\ Total \in Nat \ {0} /\ Total = 4 + Taken + Len(Failing) /\ Total > 4 + Taken
        /\ Output(Total) = Planned(Failing, Total)
    BY <1>1, <1>4, FixedLists DEF Follows
  <2>2. Output(Total).type = "error"
    BY <2>1, PlannedTypes DEF StreamInv
  <2> QED
    BY <1>1, <2>1, <2>2 DEF GotError
<1> QED
  BY <1>2, <1>3, <1>4 DEF StreamInv, OutputInv

(* While the handler works the screen stays true.                          *)
LEMMA WorkKeepsReader ==
  ASSUME StreamInv, ReaderInv, Work, UNCHANGED readerVars
  PROVE  ReaderInv'
<1> USE DEF modelVars, recordVars, clientVars, Goto
<1>1. /\ stage \notin {"end", "broken", "left"} /\ sent' = sent
      /\ \/ UNCHANGED <<written, pipe>>
         \/ /\ written' = Append(written, <<model, given'>>)
            /\ pipe' = Append(pipe, <<model, given'>>)
         \/ TakeDelta
  BY DEF Work, CallModel, Chunk, ModelFails, ModelEnds, InNode, Replay, BeginTurn,
     BusyTurn, BeginRaises, GraphEnds, GraphRaises, CompleteTurn, Reload,
     CompleteRaises, MarkFailed, MarkRaises, StoreResponse, StoreRaises, FailKey,
     FailKeyRaises, TakeDelta
<1>2. reader = "reading" /\ shown' = shown /\ reader' = reader
  BY <1>1 DEF ReaderInv, LoopInv, readerVars
<1>3. ~GotCompleted /\ ~GotError /\ ~GotCompleted' /\ ~GotError'
  <2>1. ~GotCompleted /\ ~GotError
    BY <1>1, EndsOnce
  <2> QED
    BY <1>1, <2>1 DEF GotCompleted, GotError
<1>4. /\ shown \in Seq(Chunks) /\ Len(shown) \in Nat
      /\ Len(shown) = DeltasIn(Len(sent))
      /\ \A i \in 1 .. Len(shown) : shown[i] = written[i]
  BY <1>3 DEF ReaderInv, ScreenInv
<1>5. /\ written \in Seq(Chunks) /\ pipe \in Seq(Chunks)
      /\ Len(written) \in Nat /\ Len(pipe) \in Nat /\ Len(sent) \in Nat
      /\ Len(pipe) <= Len(written)
  BY DEF StreamInv, StreamTyped, TypeOK, TextInv
<1>6. Taken \in Nat /\ Taken <= Len(written) /\ Taken = Len(written) - Len(pipe)
  BY <1>5 DEF Taken
<1>7. Len(shown) <= Len(written)
  BY <1>4, <1>5, <1>6 DEF DeltasIn
<1>8. /\ Len(shown) = DeltasIn(Len(sent))'
      /\ \A i \in 1 .. Len(shown) : shown[i] = written'[i]
  <2>1. CASE UNCHANGED <<written, pipe>>
    BY <1>1, <1>4, <2>1 DEF DeltasIn, Taken
  <2>2. CASE /\ written' = Append(written, <<model, given'>>)
             /\ pipe' = Append(pipe, <<model, given'>>)
    <3>1. /\ Len(written') = Len(written) + 1 /\ Len(pipe') = Len(pipe) + 1
          /\ \A i \in 1 .. Len(written) : written'[i] = written[i]
      BY <1>5, <2>2
    <3>2. Taken' = Taken
      BY <1>5, <3>1 DEF Taken
    <3> QED
      BY <1>1, <1>4, <1>5, <1>7, <3>1, <3>2 DEF DeltasIn
  <2>3. CASE TakeDelta
    <3>1. /\ written' = written /\ due = <<>> /\ stage = "graph"
          /\ Len(pipe') = Len(pipe) - 1
      BY <1>5, <2>3 DEF TakeDelta, Resumed
    <3>2. Taken' = Taken + 1
      <4>1. Taken' = Len(written) - Len(pipe')
        BY <3>1 DEF Taken
      <4> QED
        BY <1>5, <1>6, <3>1, <4>1
    <3>3. Follows(<<>>)
      BY <3>1 DEF StreamInv, OutputInv
    <3>4. Len(sent) = 4 + Taken
      BY <1>5, <1>6, <3>1, <3>3 DEF Follows, Total
    <3> QED
      BY <1>1, <1>4, <1>6, <3>1, <3>2, <3>4 DEF DeltasIn
  <2> QED
    BY <1>1, <2>1, <2>2, <2>3
<1>9. ScreenInv'
  BY <1>2, <1>3, <1>4, <1>8 DEF ScreenInv
<1>10. LoopInv'
  BY <1>2, <1>3 DEF LoopInv
<1> QED
  BY <1>2, <1>9, <1>10 DEF ReaderInv, ReaderTyped

(* What is read goes to the screen.                                        *)
LEMMA ReadKeepsReader ==
  ASSUME StreamInv, ReaderInv, Read
  PROVE  ReaderInv'
<1>1. /\ reader = "reading" /\ Send /\ shown' = Screen(Head(due))
      /\ reader' = IF Head(due).type = "error" THEN "refused" ELSE reader
      /\ UNCHANGED <<written, pipe, text, stage>>
  BY DEF Read, Send, modelVars, recordVars
<1>2. /\ StreamTyped /\ OutputInv /\ TextInv /\ StageInv
      /\ written \in Seq(Chunks) /\ Len(written) \in Nat
      /\ Len(sent) \in Nat /\ Len(due) \in Nat
      /\ Taken \in Nat /\ Taken <= Len(written) /\ Taken' = Taken
      /\ Total \in Nat
      /\ text \in Seq(Chunks) \cup {Apology}
  BY <1>1 DEF StreamInv, StreamTyped, TypeOK, TextInv, Taken, Total
<1>3. PICK n \in 1 .. Total : n = Len(sent) + 1
  BY <1>1, <1>2, OutputSent
<1>4. /\ Len(sent') = n /\ Output(n) = Head(due)
      /\ \A i \in 1 .. Len(sent) : sent'[i] = sent[i]
      /\ sent'[n].type = Output(n).type
  BY <1>1, <1>2, <1>3, OutputSent
<1>5. ~GotCompleted /\ ~GotError
  BY <1>2, <1>3, EndsOnce
<1>6. /\ GotCompleted' <=> Output(n).type = "completed"
      /\ GotError' <=> Output(n).type = "error"
  <2>1. \A i \in 1 .. n : i # n => i \in 1 .. Len(sent)
    BY <1>2, <1>3
  <2> QED
    BY <1>3, <1>4, <1>5, <2>1 DEF GotCompleted, GotError
<1>7. /\ shown \in Seq(Chunks) /\ Len(shown) \in Nat
      /\ Len(shown) = DeltasIn(n - 1)
      /\ \A i \in 1 .. Len(shown) : shown[i] = written[i]
  BY <1>2, <1>3, <1>5 DEF ReaderInv, ScreenInv
<1>8. DeltasIn(Len(sent))' = DeltasIn(n)
  BY <1>2, <1>4 DEF DeltasIn
<1>9. /\ Output(n).type = "output_text.delta" <=> n > 4 /\ n <= 4 + Taken
      /\ Output(n).type = "output_text.delta" => Output(n).chunk = written[n - 4]
  BY <1>2, OutputDeltas
<1>10. CASE Output(n).type = "output_text.delta"
  <2>1. /\ shown' = Append(shown, written[n - 4]) /\ reader' = reader
        /\ n > 4 /\ n <= 4 + Taken
    BY <1>1, <1>4, <1>9, <1>10 DEF Screen
  <2>2. /\ Len(shown) = n - 5 /\ n - 4 \in 1 .. Len(written)
        /\ DeltasIn(n) = n - 4
    BY <1>2, <1>3, <1>7, <2>1 DEF DeltasIn
  <2>3. written[n - 4] \in Chunks
    BY <1>2, <2>2
  <2>4. /\ shown' \in Seq(Chunks) /\ Len(shown') = n - 4
        /\ \A i \in 1 .. n - 5 : shown'[i] = shown[i]
        /\ shown'[n - 4] = written[n - 4]
    BY <1>3, <1>7, <2>1, <2>2, <2>3
  <2>5. \A i \in 1 .. Len(shown') : shown'[i] = written'[i]
    BY <1>1, <1>3, <1>7, <2>2, <2>4
  <2>6. ScreenInv'
    BY <1>6, <1>8, <1>10, <2>2, <2>4, <2>5 DEF ScreenInv
  <2> QED
    BY <1>1, <1>6, <1>10, <2>1, <2>4, <2>6 DEF ReaderInv, ReaderTyped, LoopInv
<1>11. CASE Output(n).type = "completed"
  <2>1. shown' = (IF shown # <<>> THEN shown ELSE text) /\ reader' = reader
    BY <1>1, <1>4, <1>11 DEF Screen, ReceivedTokens
  <2>2. n = Total /\ stage \in {"end", "left"} /\ key.status = "completed"
    BY <1>2, <1>11, LastEvent
  <2>3. run \in {"completed", "none"}
    BY <1>2, <2>2 DEF StageInv
  <2>4. ASSUME run = "none"
        PROVE  shown' = text
    <3>1. text = <<>>
      BY <1>2, <2>4 DEF TextInv, Opened
    <3>2. Total <= 1
      BY <1>2, <2>2, <2>4 DEF OutputInv, Opened, Blank, Single
    <3>3. Len(shown) = 0
      BY <1>2, <1>3, <1>7, <3>2 DEF DeltasIn
    <3> QED
      BY <1>7, <2>1, <3>1, <3>3
  <2>5. ASSUME run = "completed"
        PROVE  shown' = text
    <3>1. /\ text = IF written = <<>> THEN Apology ELSE written
          /\ n - 1 >= 4 + Len(written) /\ Taken = Len(written)
      BY <1>2, <1>3, <2>5 DEF TextInv, Taken
    <3>2. Len(shown) = Len(written)
      BY <1>2, <1>3, <1>7, <3>1 DEF DeltasIn
    <3>3. shown = written
      BY <1>2, <1>7, <3>2, SeqEqual
    <3> QED
      BY <2>1, <3>1, <3>3
  <2>6. shown' = text'
    BY <1>1, <2>1, <2>3, <2>4, <2>5
  <2> QED
    BY <1>1, <1>2, <1>6, <1>11, <2>1, <2>6
    DEF ReaderInv, ReaderTyped, LoopInv, ScreenInv
<1>12. CASE Output(n).type \notin {"output_text.delta", "completed"}
  <2>1. shown' = shown
    BY <1>1, <1>4, <1>12 DEF Screen
  <2>2. DeltasIn(n) = DeltasIn(n - 1)
    BY <1>2, <1>3, <1>9, <1>12 DEF DeltasIn
  <2>3. ScreenInv'
    BY <1>1, <1>6, <1>7, <1>8, <1>12, <2>1, <2>2 DEF ScreenInv
  <2>4. LoopInv'
    <3>1. Output(n).type = "error" => stage \in {"end", "left"}
      BY <1>2, LastEvent
    <3> QED
      BY <1>1, <1>4, <1>6, <3>1 DEF LoopInv, Send
  <2> QED
    BY <1>1, <2>1, <2>3, <2>4 DEF ReaderInv, ReaderTyped
<1> QED
  BY <1>10, <1>11, <1>12

(* The loop over the events ends with them.                                *)
LEMMA LoopEndKeepsReader ==
  ASSUME StreamInv, ReaderInv, Finish \/ Dropped \/ Leave \/ UNCHANGED allVars
  PROVE  ReaderInv'
<1> USE DEF modelVars, recordVars, clientVars, vars, readerVars, allVars, Goto
<1>1. UNCHANGED <<sent, shown, text, written, pipe>>
  BY DEF Finish, Dropped, Leave, Disconnect
<1>2. (GotCompleted' <=> GotCompleted) /\ (GotError' <=> GotError)
  BY <1>1 DEF GotCompleted, GotError
<1>3. DeltasIn(Len(sent))' = DeltasIn(Len(sent))
  BY <1>1 DEF DeltasIn, Taken
<1>4. ScreenInv'
  BY <1>1, <1>2, <1>3 DEF ReaderInv, ScreenInv
<1>5. ReaderTyped'
  BY <1>1 DEF ReaderInv, ReaderTyped, Finish, Dropped, Leave
<1>6. LoopInv'
  <2>1. CASE Finish
    <3>1. GotCompleted
      BY <2>1, EndIsTold DEF Finish, ReaderInv, LoopInv
    <3> QED
      BY <1>2, <2>1, <3>1 DEF Finish, ReaderInv, LoopInv
  <2>2. CASE Dropped
    BY <1>2, <2>2 DEF Dropped, ReaderInv, LoopInv
  <2>3. CASE Leave
    BY <1>2, <2>3 DEF Leave, Disconnect, ReaderInv, LoopInv
  <2>4. CASE UNCHANGED allVars
    BY <1>2, <2>4 DEF ReaderInv, LoopInv
  <2> QED
    BY <2>1, <2>2, <2>3, <2>4
<1> QED
  BY <1>4, <1>5, <1>6 DEF ReaderInv

(* The screen and the loop agree with the stream at every moment.          *)
THEOREM ReaderAgrees == ReaderSpec => [](StreamInv /\ ReaderInv)
<1>1. ReaderInit => ReaderInv
  <2> SUFFICES ASSUME ReaderInit
               PROVE  ReaderInv
    OBVIOUS
  <2>1. sent = <<>> /\ shown = <<>> /\ text = <<>> /\ reader = "reading"
    BY DEF ReaderInit, Init
  <2>2. ~GotCompleted /\ ~GotError
    BY <2>1 DEF GotCompleted, GotError
  <2> QED
    BY <2>1, <2>2 DEF ReaderInv, ReaderTyped, ScreenInv, LoopInv, DeltasIn
<1>2. StreamInv /\ ReaderInv /\ [ReaderNext]_allVars => ReaderInv'
  BY WorkKeepsReader, ReadKeepsReader, LoopEndKeepsReader
  DEF ReaderNext, ReaderProgress, ReaderDone
<1>3. ReaderSpec => []StreamInv
  BY ReaderRunsStream, StreamsArePlanned, PTL
<1> QED
  BY <1>1, <1>2, <1>3, PTL DEF ReaderSpec

THEOREM ReaderTypeCorrect == ReaderSpec => []ReaderTypeOK
<1>1. StreamInv /\ ReaderInv => ReaderTypeOK
  BY DEF StreamInv, StreamTyped, ReaderInv, ReaderTyped, ReaderTypeOK
<1> QED
  BY <1>1, ReaderAgrees, PTL

(* The person at the prompt has read the turn that is stored, and no more. *)
THEOREM ShownAsStored == ReaderSpec => []ShownIsStored
<1>1. StreamInv /\ ReaderInv => ShownIsStored
  <2> SUFFICES ASSUME StreamInv, ReaderInv
               PROVE  ShownIsStored
    OBVIOUS
  <2>1. /\ StreamTyped /\ TextInv /\ StageInv /\ ScreenInv /\ LoopInv
    BY DEF StreamInv, ReaderInv
  <2>2. reader = "prompt" /\ stage = "end" =>
            shown = text /\ key.status = "completed" /\ run # "failed"
    BY <2>1, EndsOnce DEF LoopInv, ScreenInv, StageInv
  <2>3. reader = "refused" => run # "completed" /\ key.status = "failed"
    BY <2>1, EndsOnce DEF LoopInv, StageInv
  <2>4. ASSUME run = "completed"
        PROVE  IsPrefix(shown, text)
    <3>1. /\ text \in Seq(Marks) /\ Len(text) \in Nat
          /\ written \in Seq(Chunks) /\ Len(written) \in Nat /\ Len(sent) \in Nat
      <4>1. Apology \in Seq(Marks) /\ \A s \in Seq(Chunks) : s \in Seq(Marks)
        BY DEF Apology, Marks
      <4> QED
        BY <2>1, <4>1 DEF StreamTyped, TypeOK
    <3>2. CASE GotCompleted
      BY <2>1, <3>1, <3>2, PrefixPointwise DEF ScreenInv
    <3>3. CASE ~GotCompleted
      <4>1. /\ text = IF written = <<>> THEN Apology ELSE written
            /\ Len(sent) >= 4 + Len(written) /\ Taken = Len(written)
        BY <2>1, <2>4, <3>1 DEF TextInv, Taken
      <4>2. /\ shown \in Seq(Chunks) /\ Len(shown) = DeltasIn(Len(sent))
            /\ \A i \in 1 .. Len(shown) : shown[i] = written[i]
        BY <2>1, <3>3 DEF ScreenInv
      <4>3. Len(shown) = Len(written)
        BY <3>1, <4>1, <4>2 DEF DeltasIn
      <4>4. shown \in Seq(Marks)
        BY <4>2 DEF Marks
      <4>5. Len(shown) <= Len(text) /\ \A i \in 1 .. Len(shown) : shown[i] = text[i]
        BY <3>1, <4>1, <4>2, <4>3
      <4> QED
        BY <3>1, <4>4, <4>5, PrefixPointwise
    <3> QED
      BY <3>2, <3>3
  <2> QED
    BY <2>2, <2>3, <2>4 DEF ShownIsStored
<1> QED
  BY <1>1, ReaderAgrees, PTL

=============================================================================
