---------------------- MODULE ConversationTurnsProofs ----------------------
(***************************************************************************)
(* Proofs that the transcript, the checkpoint's exclusivity and its        *)
(* history, and the ends of turns are right for any conversations, turns,  *)
(* deletions and faults, and that the service implements SerialTurns.      *)
(***************************************************************************)
EXTENDS ConversationTurns, SequenceTheorems, TLAPS

(* A run exists exactly from _begin_turn on, is active while its request   *)
(* works on it, and is the only active one of its conversation.            *)
RunsFollowRequests ==
    /\ \A r \in Requests :
        /\ tpc[r] \in InGraph => runs[r] = "running"
        /\ tpc[r] \in {"idle", "required"} => runs[r] = "none"
        /\ tpc[r] = "committed" => runs[r] = "completed"
        /\ tpc[r] = "failing" => runs[r] \in {"running", "completed"}
    /\ \A r, o \in Requests :
        ConvOf[r] = ConvOf[o] /\ runs[r] = "running" /\ runs[o] = "running"
            => r = o

(* What an active request finds in the checkpoint and holds is its own.    *)
OwnResult ==
    \A r \in Requests :
        /\ tpc[r] = "replied" => final[ConvOf[r]] = r
        /\ tpc[r] = "answered" => answer[r] = r

(* Copies of the conversation row are never ahead of it, and a row's       *)
(* sequence is even between turns.                                         *)
SnapshotsBehind ==
    /\ \A r \in Requests : snapshot[r] <= latest[ConvOf[r]]
    /\ \A c \in Conversations : latest[c] % 2 = 0

ControlInv ==
    /\ TypeOK
    /\ RunsFollowRequests
    /\ OwnResult
    /\ GraphExclusive

IndInv == ControlInv /\ AnswerIsOwn /\ SnapshotsBehind /\ TranscriptOrdered

-----------------------------------------------------------------------------

(* Giving a run's assistant message another status or text keeps its place *)
(* in the transcript.                                                      *)
LEMMA RelabelKeepsOrder ==
  ASSUME messages \subseteq Message, latest \in [Conversations -> Nat],
         TranscriptOrdered, latest' = latest,
         NEW f \in [messages -> Message],
         \A m \in messages : /\ f[m].conv = m.conv /\ f[m].seq = m.seq
                             /\ f[m].role = m.role /\ f[m].run = m.run,
         messages' = {f[m] : m \in messages}
  PROVE  TranscriptOrdered' /\ messages' \subseteq Message
<1>1. ASSUME NEW c \in Conversations
      PROVE  {m.seq : m \in {x \in messages' : x.conv = c}} = 1 .. latest[c]
  <2>1. {m.seq : m \in {x \in messages : x.conv = c}} = 1 .. latest[c]
    BY DEF TranscriptOrdered
  <2>2. {m.seq : m \in {x \in messages' : x.conv = c}}
            = {m.seq : m \in {x \in messages : x.conv = c}}
    <3>1. \A m \in messages' : \E n \in messages : n.conv = m.conv /\ n.seq = m.seq
      OBVIOUS
    <3>2. \A n \in messages : \E m \in messages' : n.conv = m.conv /\ n.seq = m.seq
      OBVIOUS
    <3> QED
      BY <3>1, <3>2
  <2> QED
    BY <2>1, <2>2
<1>2. ASSUME NEW c \in Conversations, NEW m \in messages', NEW n \in messages',
             m.conv = c, n.conv = c
      PROVE  /\ m.seq = n.seq => m = n
             /\ m.seq % 2 = 1 <=> m.role = "user"
             /\ m.role = "user" /\ n.seq = m.seq + 1 => n.run = m.run
  <2>1. PICK x \in messages : m = f[x]
    OBVIOUS
  <2>2. PICK y \in messages : n = f[y]
    OBVIOUS
  <2>3. x.conv = c /\ y.conv = c
    BY <1>2, <2>1, <2>2
  <2>4. /\ x.seq = y.seq => x = y
        /\ x.seq % 2 = 1 <=> x.role = "user"
        /\ x.role = "user" /\ y.seq = x.seq + 1 => y.run = x.run
    BY <2>3 DEF TranscriptOrdered
  <2>5. /\ m.seq = x.seq /\ m.role = x.role /\ m.run = x.run
        /\ n.seq = y.seq /\ n.role = y.role /\ n.run = y.run
    BY <2>1, <2>2
  <2>6. m.seq = n.seq => m = n
    BY <2>1, <2>2, <2>4, <2>5
  <2> QED
    BY <2>4, <2>5, <2>6
<1>3. messages' \subseteq Message
  OBVIOUS
<1> QED
  BY <1>1, <1>2, <1>3 DEF TranscriptOrdered

(* _begin_turn on a copy of the row that is not stale, which the unique    *)
(* sequence constraint ensures: the two messages extend the transcript.    *)
LEMMA BeginExtendsTranscript ==
  ASSUME TypeOK, SnapshotsBehind, TranscriptOrdered,
         NEW r \in Requests, BeginTurn(r)
  PROVE  /\ snapshot[r] = latest[ConvOf[r]]
         /\ messages' \subseteq Message
         /\ SnapshotsBehind'
         /\ TranscriptOrdered'
<1> USE TurnsAssumption
<1> DEFINE c == ConvOf[r]
           n == snapshot[r]
           u == UserMessage(r)
           a == PendingReply(r)
<1>1. c \in Conversations /\ n \in Nat /\ latest[c] \in Nat /\ n <= latest[c]
  BY DEF TypeOK, SnapshotsBehind
<1>2. {m.seq : m \in {x \in messages : x.conv = c}} = 1 .. latest[c]
  BY <1>1 DEF TranscriptOrdered
<1>3. n = latest[c]
  <2>1. n + 1 \notin {m.seq : m \in {x \in messages : x.conv = c}}
    BY DEF BeginTurn, CanBegin, SequencesFree, SequenceTaken
  <2>2. n + 1 \notin 1 .. latest[c]
    BY <1>2, <2>1, Zenon
  <2> QED
    BY <1>1, <2>2
<1>4. /\ messages' = messages \cup {u, a}
      /\ latest' = [latest EXCEPT ![c] = n + 2]
      /\ snapshot' = snapshot
  BY DEF BeginTurn, locals
<1>5. /\ u \in Message /\ a \in Message
      /\ u.conv = c /\ u.seq = n + 1 /\ u.role = "user" /\ u.run = r
      /\ a.conv = c /\ a.seq = n + 2 /\ a.role = "assistant" /\ a.run = r
  BY <1>1 DEF UserMessage, PendingReply, NewMessage, Message
<1> HIDE DEF u, a, c, n
<1>6. messages' \subseteq Message
  BY <1>4, <1>5 DEF TypeOK
<1>7. n % 2 = 0 /\ (n + 1) % 2 = 1 /\ (n + 2) % 2 = 0
  BY <1>1, <1>3 DEF SnapshotsBehind
<1>8. SnapshotsBehind'
  <2>1. ASSUME NEW d \in Conversations
        PROVE  latest[d] \in Nat /\ latest'[d] \in Nat /\ latest'[d] % 2 = 0
               /\ latest[d] <= latest'[d]
    <3>1. latest[d] \in Nat /\ latest[d] % 2 = 0
      BY DEF TypeOK, SnapshotsBehind
    <3>2. d # c => latest'[d] = latest[d]
      BY <1>4 DEF TypeOK
    <3>3. d = c => latest'[d] = n + 2
      BY <1>1, <1>4 DEF TypeOK
    <3>4. CASE d = c
      BY <3>3, <3>4, <1>1, <1>3, <1>7
    <3>5. CASE d # c
      BY <3>1, <3>2, <3>5
    <3> QED
      BY <3>4, <3>5
  <2>2. ASSUME NEW o \in Requests
        PROVE  snapshot'[o] <= latest'[ConvOf[o]]
    <3>1. snapshot[o] \in Nat /\ snapshot[o] <= latest[ConvOf[o]]
      BY DEF TypeOK, SnapshotsBehind
    <3>2. ConvOf[o] \in Conversations
      OBVIOUS
    <3> QED
      BY <2>1, <3>1, <3>2, <1>4
  <2> QED
    BY <2>1, <2>2 DEF SnapshotsBehind
<1>9. TranscriptOrdered'
  <2>1. ASSUME NEW d \in Conversations
        PROVE  {m.seq : m \in {x \in messages' : x.conv = d}} = 1 .. latest'[d]
    <3>1. CASE d # c
      <4>1. {x \in messages' : x.conv = d} = {x \in messages : x.conv = d}
        BY <3>1, <1>4, <1>5
      <4>2. latest'[d] = latest[d]
        BY <3>1, <1>4 DEF TypeOK
      <4> QED
        BY <4>1, <4>2 DEF TranscriptOrdered
    <3>2. CASE d = c
      <4>1. {x \in messages' : x.conv = c} = {x \in messages : x.conv = c} \cup {u, a}
        BY <1>4, <1>5
      <4>2. {m.seq : m \in {x \in messages' : x.conv = c}}
                = {m.seq : m \in {x \in messages : x.conv = c}} \cup {n + 1, n + 2}
        BY <4>1, <1>5
      <4>3. latest'[c] = n + 2
        BY <1>1, <1>4 DEF TypeOK
      <4>4. (1 .. n) \cup {n + 1, n + 2} = 1 .. n + 2
        BY <1>1
      <4> QED
        BY <3>2, <4>2, <4>3, <4>4, <1>2, <1>3
    <3> QED
      BY <3>1, <3>2
  <2>2. ASSUME NEW m \in messages, m.conv = c
        PROVE  m.seq \in 1 .. n
    BY <2>2, <1>2, <1>3
  <2>3. ASSUME NEW d \in Conversations, NEW m \in messages', NEW k \in messages',
               m.conv = d, k.conv = d
        PROVE  /\ m.seq = k.seq => m = k
               /\ m.seq % 2 = 1 <=> m.role = "user"
               /\ m.role = "user" /\ k.seq = m.seq + 1 => k.run = m.run
    <3>1. CASE m \in messages /\ k \in messages
      BY <3>1, <2>3 DEF TranscriptOrdered
    <3>2. CASE m \in messages /\ k \in {u, a}
      <4>1. m.seq \in 1 .. n
        BY <3>2, <2>2, <2>3, <1>5
      <4>2. m.seq % 2 = 1 <=> m.role = "user"
        BY <3>2, <2>3 DEF TranscriptOrdered
      <4>3. k.seq = m.seq + 1 => m.seq = n
        BY <4>1, <3>2, <1>5, <1>1
      <4>4. m.seq = n => m.role # "user"
        BY <4>2, <1>7
      <4>5. m.seq # k.seq
        BY <4>1, <3>2, <1>5, <1>1
      <4> QED
        BY <4>2, <4>3, <4>4, <4>5
    <3>3. CASE m \in {u, a} /\ k \in messages
      <4>1. k.seq \in 1 .. n
        BY <3>3, <2>2, <2>3, <1>5
      <4>2. k.seq # m.seq /\ k.seq # m.seq + 1
        BY <4>1, <3>3, <1>5, <1>1
      <4>3. m.seq % 2 = 1 <=> m.role = "user"
        BY <3>3, <1>5, <1>7
      <4> QED
        BY <4>2, <4>3
    <3>4. CASE m \in {u, a} /\ k \in {u, a}
      <4>1. m.seq = k.seq => m = k
        BY <3>4, <1>5, <1>1
      <4>2. m.seq % 2 = 1 <=> m.role = "user"
        BY <3>4, <1>5, <1>7
      <4> QED
        BY <4>1, <4>2, <3>4, <1>5
    <3> QED
      BY <3>1, <3>2, <3>3, <3>4, <1>4
  <2> QED
    BY <2>1, <2>3 DEF TranscriptOrdered
<1> QED
  BY <1>3, <1>6, <1>8, <1>9 DEF n, c

-----------------------------------------------------------------------------

(* The first state: no run, no message, empty threads.                     *)
LEMMA InitIndInv == Init => IndInv
<1> SUFFICES ASSUME Init
             PROVE  IndInv
  OBVIOUS
<1> USE TurnsAssumption DEF Init
<1>1. TypeOK
  BY DEF TypeOK, InGraph
<1>2. RunsFollowRequests /\ OwnResult /\ GraphExclusive
  BY DEF RunsFollowRequests, OwnResult, GraphExclusive, InGraph
<1>3. AnswerIsOwn /\ SnapshotsBehind
  BY DEF AnswerIsOwn, SnapshotsBehind
<1>4. TranscriptOrdered
  <2>1. \A d \in Conversations :
            {m.seq : m \in {x \in messages : x.conv = d}} = 1 .. latest[d]
    BY SMT
  <2> QED
    BY <2>1 DEF TranscriptOrdered
<1> QED
  BY <1>1, <1>2, <1>3, <1>4 DEF IndInv, ControlInv

(* Steps that change nothing but where one request stands.                 *)
LEMMA MoveControl ==
  ASSUME ControlInv, NEW r \in Requests \cup Deleters,
         \/ r \in Requests /\ (NotFound(r) \/ Leave(r) \/ BusyTurn(r))
         \/ r \in Requests /\ (Refresh(r) \/ Raise(r) \/ Lose(r))
         \/ r \in Deleters /\ RequireDelete(r)
  PROVE  /\ ControlInv'
         /\ UNCHANGED <<latest, messages, runs, snapshot>>
<1> USE TurnsAssumption DEF ControlInv, tables, checkpoint, locals
<1>1. PICK stage : /\ tpc' = [tpc EXCEPT ![r] = stage]
                   /\ stage \in {"not_found", "left", "busy", "completed",
                                  "failing", "lost", "required"}
                   /\ stage = "required" => r \in Deleters
                   /\ stage = "failing" => /\ r \in Requests
                                            /\ tpc[r] \in InGraph \cup {"committed"}
  <2>1. CASE r \in Requests /\ Raise(r)
    <3>1. tpc' = [tpc EXCEPT ![r] = "failing"]
      BY <2>1 DEF Raise, Goto
    <3>2. tpc[r] \in InGraph \cup {"committed"}
      BY <2>1 DEF Raise
    <3> QED
      BY <2>1, <3>1, <3>2
  <2>2. CASE r \in Deleters /\ RequireDelete(r)
    BY <2>2 DEF RequireDelete, Goto
  <2>3. CASE r \in Requests /\ (NotFound(r) \/ Leave(r) \/ BusyTurn(r)
                               \/ Refresh(r) \/ Lose(r))
    BY <2>3 DEF NotFound, Leave, BusyTurn, Refresh, Lose, Goto
  <2> QED
    BY <2>1, <2>2, <2>3
<1>2. UNCHANGED <<latest, deleted, messages, runs, thread, final, purges,
                  snapshot, memory, answer>>
  BY DEF NotFound, Leave, BusyTurn, Refresh, Raise, Lose, RequireDelete
<1>3. TypeOK'
  BY <1>1, <1>2 DEF TypeOK
<1>4. RunsFollowRequests'
  <2>1. ASSUME NEW o \in Requests, o # r
        PROVE  tpc'[o] = tpc[o]
    BY <1>1, <2>1 DEF TypeOK
  <2>2. tpc'[r] = stage
    BY <1>1 DEF TypeOK
  <2>3. r \in Requests /\ stage = "failing" => runs[r] \in {"running", "completed"}
    BY <1>1 DEF RunsFollowRequests
  <2> QED
    BY <1>1, <1>2, <2>1, <2>2, <2>3 DEF RunsFollowRequests, InGraph
<1>5. OwnResult' /\ GraphExclusive'
  BY <1>1, <1>2 DEF TypeOK, OwnResult, GraphExclusive
<1> QED
  BY <1>2, <1>3, <1>4, <1>5

(* require reads the row.                                                  *)
LEMMA RequireControl ==
  ASSUME ControlInv, NEW r \in Requests, Require(r)
  PROVE  /\ ControlInv'
         /\ UNCHANGED <<latest, messages, runs>>
         /\ snapshot' = [snapshot EXCEPT ![r] = latest[ConvOf[r]]]
<1> USE TurnsAssumption DEF ControlInv, Require, Goto, tables, checkpoint
<1>1. ConvOf[r] \in Conversations
  OBVIOUS
<1>2. TypeOK'
  BY <1>1 DEF TypeOK
<1>3. RunsFollowRequests'
  BY DEF TypeOK, RunsFollowRequests, InGraph
<1>4. OwnResult' /\ GraphExclusive'
  BY DEF TypeOK, OwnResult, GraphExclusive
<1> QED
  BY <1>2, <1>3, <1>4

(* _begin_turn meets the index on active runs.                             *)
LEMMA BeginControl ==
  ASSUME ControlInv, SnapshotsBehind, TranscriptOrdered,
         NEW r \in Requests, BeginTurn(r)
  PROVE  ControlInv'
<1> USE TurnsAssumption DEF ControlInv
<1>1. /\ ConvOf[r] \in Conversations
      /\ tpc[r] = "required"
      /\ tpc' = [tpc EXCEPT ![r] = "began"]
      /\ runs' = [runs EXCEPT ![r] = "running"]
      /\ latest' = [latest EXCEPT ![ConvOf[r]] = snapshot[r] + 2]
      /\ UNCHANGED <<deleted, purges, thread, final, snapshot, memory, answer>>
      /\ \A o \in Requests : ConvOf[o] = ConvOf[r] => runs[o] # "running"
  BY DEF BeginTurn, Goto, checkpoint, locals, CanBegin, NoActiveRun, RunActive
<1>2. messages' \subseteq Message
  BY BeginExtendsTranscript
<1>3. TypeOK'
  BY <1>1, <1>2 DEF TypeOK, InGraph
<1>4. RunsFollowRequests'
  BY <1>1 DEF TypeOK, RunsFollowRequests, InGraph
<1>5. OwnResult' /\ GraphExclusive'
  BY <1>1 DEF TypeOK, OwnResult, GraphExclusive
<1> QED
  BY <1>3, <1>4, <1>5

(* The graph's writes: whoever writes a thread is the only active run of   *)
(* its conversation.                                                       *)
LEMMA GraphControl ==
  ASSUME ControlInv, NEW r \in Requests,
         Invoke(r) \/ Reply(r) \/ ReadFinal(r)
  PROVE  /\ ControlInv'
         /\ UNCHANGED <<latest, messages, runs, snapshot>>
<1> USE TurnsAssumption DEF ControlInv
<1> DEFINE d == ConvOf[r]
<1>1. d \in Conversations /\ tpc[r] \in InGraph /\ tpc[r] # "began" => memory[r] \in Seq(Entry)
  BY DEF Invoke, Reply, ReadFinal, InGraph, TypeOK
<1>2. runs[r] = "running" /\ tpc[r] \in InGraph
  BY DEF Invoke, Reply, ReadFinal, InGraph, RunsFollowRequests
<1>3. ASSUME NEW o \in Requests, o # r, ConvOf[o] = d
      PROVE  tpc[o] \notin InGraph
  BY <1>2, <1>3 DEF RunsFollowRequests
<1>4. UNCHANGED <<latest, deleted, messages, runs, purges, snapshot>>
  BY DEF Invoke, Reply, ReadFinal, tables
<1>5. Asks(r) \in Entry /\ Replies(r) \in Entry
  BY DEF Asks, Replies, Entry
<1>6. PICK stage \in {"invoked", "replied", "answered"} :
          tpc' = [tpc EXCEPT ![r] = stage]
  BY DEF Invoke, Reply, ReadFinal, Goto
<1>7. RunsFollowRequests'
  BY <1>2, <1>4, <1>6 DEF TypeOK, RunsFollowRequests, InGraph
<1>8. CASE Invoke(r)
  <2> DEFINE history == Append(thread[d], Asks(r))
  <2>1. /\ memory' = [memory EXCEPT ![r] = history]
        /\ thread' = [thread EXCEPT ![d] = history]
        /\ tpc' = [tpc EXCEPT ![r] = "invoked"]
        /\ final' = final /\ answer' = answer
    BY <1>8 DEF Invoke, Goto
  <2>2. history \in Seq(Entry)
    BY <1>1, <1>5 DEF TypeOK
  <2> HIDE DEF history
  <2>3. TypeOK'
    BY <1>1, <1>4, <2>1, <2>2 DEF TypeOK, InGraph
  <2>4. OwnResult' /\ GraphExclusive'
    BY <1>1, <1>3, <2>1 DEF TypeOK, OwnResult, GraphExclusive, InGraph
  <2> QED
    BY <1>4, <1>7, <2>3, <2>4
<1>9. CASE Reply(r)
  <2> DEFINE history == Append(memory[r], Replies(r))
  <2>1. /\ memory' = memory
        /\ thread' = [thread EXCEPT ![d] = history]
        /\ final' = [final EXCEPT ![d] = r]
        /\ \/ tpc' = [tpc EXCEPT ![r] = "replied"] /\ answer' = answer
           \/ /\ tpc' = [tpc EXCEPT ![r] = "answered"]
              /\ answer' = [answer EXCEPT ![r] = r]
    BY <1>9 DEF Reply, Goto
  <2>2. history \in Seq(Entry)
    BY <1>5 DEF TypeOK
  <2> HIDE DEF history
  <2>3. TypeOK'
    <3>1. answer' \in [Requests -> Requests \cup {Nobody}]
      BY <2>1 DEF TypeOK
    <3>2. thread' \in [Conversations -> Seq(Entry)]
      BY <2>1, <2>2 DEF TypeOK
    <3>3. final' \in [Conversations -> Requests \cup {Nobody}]
      BY <2>1 DEF TypeOK
    <3>4. tpc' \in [Requests \cup Deleters ->
                    {"idle", "required", "not_found", "left", "busy",
                     "committed", "completed", "failing", "failed", "lost",
                     "deleted"} \cup InGraph]
      BY <1>6 DEF TypeOK, InGraph
    <3> QED
      BY <1>4, <2>1, <3>1, <3>2, <3>3, <3>4 DEF TypeOK
  <2>4. \A o \in Requests : o # r => tpc'[o] = tpc[o] /\ answer'[o] = answer[o]
    BY <2>1 DEF TypeOK
  <2>5. \A o \in Requests : tpc'[o] \in InGraph => o = r \/ ConvOf[o] # d
    BY <1>3, <2>4
  <2>6. final'[d] = r /\ \A e \in Conversations : e # d => final'[e] = final[e]
                                                           /\ thread'[e] = thread[e]
    BY <1>1, <2>1 DEF TypeOK
  <2>7. tpc'[r] = "replied" \/ (tpc'[r] = "answered" /\ answer'[r] = r)
    BY <2>1 DEF TypeOK
  <2>8. OwnResult'
    BY <2>4, <2>5, <2>6, <2>7 DEF OwnResult, InGraph
  <2>9. GraphExclusive'
    BY <2>1, <2>4, <2>5, <2>6, <2>7 DEF GraphExclusive, InGraph
  <2> QED
    BY <1>4, <1>7, <2>3, <2>8, <2>9
<1>10. CASE ReadFinal(r)
  <2>1. /\ memory' = memory /\ thread' = thread /\ final' = final
        /\ tpc' = [tpc EXCEPT ![r] = "answered"]
        /\ answer' = [answer EXCEPT ![r] = final[d]]
        /\ final[d] = r
    BY <1>10 DEF ReadFinal, Goto, checkpoint, OwnResult
  <2>2. TypeOK'
    BY <1>1, <1>4, <2>1 DEF TypeOK, InGraph
  <2>3. OwnResult' /\ GraphExclusive'
    BY <2>1 DEF TypeOK, OwnResult, GraphExclusive
  <2> QED
    BY <1>4, <1>7, <2>2, <2>3
<1> QED
  BY <1>8, <1>9, <1>10

(* The end of a turn: only its own run and its own reply change.           *)
LEMMA EndTurnWith ==
  ASSUME IndInv, NEW r \in Requests, NEW f \in [messages -> Message],
         UNCHANGED <<latest, deleted, purges, thread, final, snapshot, memory,
                     answer>>,
         \/ /\ tpc[r] = "answered"
            /\ tpc' = [tpc EXCEPT ![r] = "committed"]
            /\ runs' = [runs EXCEPT ![r] = "completed"]
         \/ /\ tpc[r] = "failing"
            /\ tpc' = [tpc EXCEPT ![r] = "failed"]
            /\ runs' = [runs EXCEPT ![r] = "failed"],
         messages' = {f[m] : m \in messages},
         \A m \in messages : /\ f[m].conv = m.conv /\ f[m].seq = m.seq
                             /\ f[m].role = m.role /\ f[m].run = m.run,
         \A m \in messages : f[m].status = "complete" =>
            \/ f[m].text = m.text /\ m.status = "complete"
            \/ f[m].text = m.run
  PROVE  IndInv'
<1> USE TurnsAssumption DEF IndInv, ControlInv
<1>1. TranscriptOrdered' /\ messages' \subseteq Message
  <2>1. messages \subseteq Message /\ latest \in [Conversations -> Nat]
    BY DEF TypeOK
  <2>2. TranscriptOrdered /\ latest' = latest
    OBVIOUS
  <2> QED
    BY <2>1, <2>2, RelabelKeepsOrder
<1>2. TypeOK'
  BY <1>1 DEF TypeOK
<1>3. RunsFollowRequests'
  <2>1. \A o \in Requests : o # r => tpc'[o] = tpc[o] /\ runs'[o] = runs[o]
    BY DEF TypeOK
  <2>2. \/ tpc'[r] = "committed" /\ runs'[r] = "completed"
        \/ tpc'[r] = "failed" /\ runs'[r] = "failed"
    BY DEF TypeOK
  <2>3. \A o \in Requests : runs'[o] = "running" => o # r /\ runs[o] = "running"
    BY <2>1, <2>2
  <2>4. ASSUME NEW o \in Requests
        PROVE  /\ tpc'[o] \in InGraph => runs'[o] = "running"
               /\ tpc'[o] \in {"idle", "required"} => runs'[o] = "none"
               /\ tpc'[o] = "committed" => runs'[o] = "completed"
               /\ tpc'[o] = "failing" => runs'[o] \in {"running", "completed"}
    <3>1. CASE o = r
      BY <2>2, <3>1 DEF InGraph
    <3>2. CASE o # r
      BY <2>1, <3>2 DEF RunsFollowRequests
    <3> QED
      BY <3>1, <3>2
  <2> QED
    BY <2>3, <2>4 DEF RunsFollowRequests
<1>4. OwnResult' /\ GraphExclusive' /\ SnapshotsBehind'
  BY DEF TypeOK, OwnResult, GraphExclusive, SnapshotsBehind
<1>5. AnswerIsOwn'
  <2> SUFFICES ASSUME NEW n \in messages', n.role = "assistant", n.status = "complete"
               PROVE  n.text = n.run
    BY DEF AnswerIsOwn
  <2>1. PICK m \in messages : n = f[m]
    OBVIOUS
  <2> QED
    BY <2>1 DEF AnswerIsOwn
<1> QED
  BY <1>1, <1>2, <1>3, <1>4, <1>5

LEMMA EndTurn ==
  ASSUME IndInv, NEW r \in Requests, CompleteTurn(r) \/ MarkFailed(r)
  PROVE  IndInv'
<1> USE TurnsAssumption
<1>1. UNCHANGED <<latest, deleted, purges, thread, final, snapshot, memory, answer>>
  BY DEF CompleteTurn, MarkFailed, checkpoint, locals
<1>2. messages \subseteq Message
  BY DEF IndInv, ControlInv, TypeOK
<1>3. CASE CompleteTurn(r)
  <2> DEFINE New(m) == IF m.run = r /\ m.role = "assistant"
                       THEN [m EXCEPT !.status = "complete", !.text = answer[r]]
                       ELSE m
             f == [m \in messages |-> New(m)]
  <2>1. answer[r] = r /\ tpc[r] = "answered"
    BY <1>3 DEF CompleteTurn, IndInv, ControlInv, OwnResult
  <2>2. messages' = {New(m) : m \in messages}
    BY <1>3 DEF CompleteTurn, SetReply
  <2>3. \A m \in messages :
            /\ New(m) \in Message
            /\ New(m).conv = m.conv /\ New(m).seq = m.seq
            /\ New(m).role = m.role /\ New(m).run = m.run
            /\ New(m).status = "complete" =>
                  \/ New(m).text = m.text /\ m.status = "complete"
                  \/ New(m).text = m.run
    BY <2>1, <1>2 DEF Message
  <2>4. /\ tpc' = [tpc EXCEPT ![r] = "committed"]
        /\ runs' = [runs EXCEPT ![r] = "completed"]
    BY <1>3 DEF CompleteTurn, Goto
  <2> HIDE DEF New
  <2>5. f \in [messages -> Message] /\ \A m \in messages : f[m] = New(m)
    BY <2>3
  <2>6. messages' = {f[m] : m \in messages}
    BY <2>2, <2>5
  <2>7. \A m \in messages : /\ f[m].conv = m.conv /\ f[m].seq = m.seq
                            /\ f[m].role = m.role /\ f[m].run = m.run
    BY <2>3, <2>5
  <2>8. \A m \in messages : f[m].status = "complete" =>
            \/ f[m].text = m.text /\ m.status = "complete"
            \/ f[m].text = m.run
    BY <2>3, <2>5
  <2> HIDE DEF f
  <2> QED
    BY <1>1, <2>1, <2>4, <2>5, <2>6, <2>7, <2>8, EndTurnWith
<1>4. CASE MarkFailed(r)
  <2> DEFINE New(m) == IF m.run = r /\ m.role = "assistant"
                       THEN [m EXCEPT !.status = "failed"] ELSE m
             f == [m \in messages |-> New(m)]
  <2>2. messages' = {New(m) : m \in messages}
    BY <1>4 DEF MarkFailed, FailReply
  <2>3. \A m \in messages :
            /\ New(m) \in Message
            /\ New(m).conv = m.conv /\ New(m).seq = m.seq
            /\ New(m).role = m.role /\ New(m).run = m.run
            /\ New(m).status = "complete" =>
                  \/ New(m).text = m.text /\ m.status = "complete"
                  \/ New(m).text = m.run
    BY <1>2 DEF Message
  <2>4. /\ tpc[r] = "failing"
        /\ tpc' = [tpc EXCEPT ![r] = "failed"]
        /\ runs' = [runs EXCEPT ![r] = "failed"]
    BY <1>4 DEF MarkFailed, Goto
  <2> HIDE DEF New
  <2>5. f \in [messages -> Message] /\ \A m \in messages : f[m] = New(m)
    BY <2>3
  <2>6. messages' = {f[m] : m \in messages}
    BY <2>2, <2>5
  <2>7. \A m \in messages : /\ f[m].conv = m.conv /\ f[m].seq = m.seq
                            /\ f[m].role = m.role /\ f[m].run = m.run
    BY <2>3, <2>5
  <2>8. \A m \in messages : f[m].status = "complete" =>
            \/ f[m].text = m.text /\ m.status = "complete"
            \/ f[m].text = m.run
    BY <2>3, <2>5
  <2> HIDE DEF f
  <2> QED
    BY <1>1, <2>4, <2>5, <2>6, <2>7, <2>8, EndTurnWith
<1> QED
  BY <1>3, <1>4

(* A deletion touches no run and no message.                               *)
LEMMA DeleteControl ==
  ASSUME ControlInv, NEW d \in Deleters, Delete(d)
  PROVE  /\ ControlInv'
         /\ UNCHANGED <<latest, messages, runs, snapshot>>
<1> USE TurnsAssumption DEF ControlInv, Delete, Goto, checkpoint, locals
<1>1. ConvOf[d] \in Conversations
  OBVIOUS
<1>2. TypeOK'
  BY <1>1 DEF TypeOK
<1>3. RunsFollowRequests'
  BY DEF TypeOK, RunsFollowRequests, InGraph
<1>4. OwnResult' /\ GraphExclusive'
  BY DEF TypeOK, OwnResult, GraphExclusive
<1> QED
  BY <1>2, <1>3, <1>4

-----------------------------------------------------------------------------

(* Every step keeps the inductive invariant.                               *)
LEMMA NextIndInv == IndInv /\ [Next]_turnVars => IndInv'
<1> SUFFICES ASSUME IndInv, [Next]_turnVars
             PROVE  IndInv'
  OBVIOUS
<1> USE TurnsAssumption
<1>1. ASSUME ControlInv', UNCHANGED <<latest, messages, runs, snapshot>>
      PROVE  IndInv'
  BY <1>1 DEF IndInv, AnswerIsOwn, SnapshotsBehind, TranscriptOrdered
<1>2. ASSUME NEW r \in Requests, NotFound(r) \/ Leave(r) \/ BusyTurn(r)
                                 \/ Refresh(r) \/ Raise(r) \/ Lose(r)
      PROVE  IndInv'
  <2>1. ControlInv' /\ UNCHANGED <<latest, messages, runs, snapshot>>
    BY <1>2, MoveControl DEF IndInv
  <2> QED
    BY <1>1, <2>1
<1>3. ASSUME NEW r \in Requests, Require(r)
      PROVE  IndInv'
  <2>1. /\ ControlInv'
        /\ UNCHANGED <<latest, messages, runs>>
        /\ snapshot' = [snapshot EXCEPT ![r] = latest[ConvOf[r]]]
    BY <1>3, RequireControl DEF IndInv
  <2>2. latest[ConvOf[r]] \in Nat
    BY DEF IndInv, ControlInv, TypeOK
  <2>3. SnapshotsBehind'
    BY <2>1, <2>2 DEF IndInv, ControlInv, TypeOK, SnapshotsBehind
  <2>4. AnswerIsOwn' /\ TranscriptOrdered'
    BY <2>1 DEF IndInv, AnswerIsOwn, TranscriptOrdered
  <2> QED
    BY <2>1, <2>3, <2>4 DEF IndInv
<1>4. ASSUME NEW r \in Requests, BeginTurn(r)
      PROVE  IndInv'
  <2>1. ControlInv'
    BY <1>4, BeginControl DEF IndInv
  <2>2. SnapshotsBehind' /\ TranscriptOrdered'
    BY <1>4, BeginExtendsTranscript DEF IndInv, ControlInv
  <2>3. AnswerIsOwn'
    BY <1>4 DEF IndInv, AnswerIsOwn, BeginTurn, UserMessage, PendingReply, NewMessage
  <2> QED
    BY <2>1, <2>2, <2>3 DEF IndInv
<1>5. ASSUME NEW r \in Requests, Invoke(r) \/ Reply(r) \/ ReadFinal(r)
      PROVE  IndInv'
  <2>1. ControlInv' /\ UNCHANGED <<latest, messages, runs, snapshot>>
    BY <1>5, GraphControl DEF IndInv
  <2> QED
    BY <1>1, <2>1
<1>6. ASSUME NEW r \in Requests, CompleteTurn(r) \/ MarkFailed(r)
      PROVE  IndInv'
  BY <1>6, EndTurn
<1>7. ASSUME NEW d \in Deleters, RequireDelete(d)
      PROVE  IndInv'
  <2>1. ControlInv' /\ UNCHANGED <<latest, messages, runs, snapshot>>
    BY <1>7, MoveControl DEF IndInv
  <2> QED
    BY <1>1, <2>1
<1>8. ASSUME NEW d \in Deleters, Delete(d)
      PROVE  IndInv'
  <2>1. ControlInv' /\ UNCHANGED <<latest, messages, runs, snapshot>>
    BY <1>8, DeleteControl DEF IndInv
  <2> QED
    BY <1>1, <2>1
<1>9. ASSUME UNCHANGED turnVars
      PROVE  IndInv'
  BY <1>9 DEF turnVars, IndInv, ControlInv, TypeOK, RunsFollowRequests, OwnResult,
              GraphExclusive, AnswerIsOwn, SnapshotsBehind, TranscriptOrdered
<1> QED
  BY <1>2, <1>3, <1>4, <1>5, <1>6, <1>7, <1>8, <1>9 DEF Next, Execute, Quiet

THEOREM IndInvHolds == Spec => []IndInv
<1> QED
  BY InitIndInv, NextIndInv, PTL DEF Spec

(* The tables, the checkpoint and every request stay in their types.       *)
THEOREM TypeCorrect == Spec => []TypeOK
<1>1. IndInv => TypeOK
  BY DEF IndInv, ControlInv
<1> QED
  BY <1>1, IndInvHolds, PTL

(* No graph invocation overwrites the messages of another: the active-run  *)
(* index, enforced in _begin_turn, is what serialises the checkpoint.      *)
THEOREM CheckpointExclusive == Spec => []GraphExclusive
<1>1. IndInv => GraphExclusive
  BY DEF IndInv, ControlInv
<1> QED
  BY <1>1, IndInvHolds, PTL

(* The transcript stays dense and alternating under stale row copies.      *)
THEOREM TranscriptsOrdered == Spec => []TranscriptOrdered
<1>1. IndInv => TranscriptOrdered
  BY DEF IndInv
<1> QED
  BY <1>1, IndInvHolds, PTL

(* A completed reply is the answer of its own run.                         *)
THEOREM AnswersAreOwn == Spec => []AnswerIsOwn
<1>1. IndInv => AnswerIsOwn
  BY DEF IndInv
<1> QED
  BY <1>1, IndInvHolds, PTL

-----------------------------------------------------------------------------

(* What the transcript says of runs: a run that exists has one question    *)
(* and, behind it, one reply, both in its own conversation; a running one  *)
(* holds the last two places.                                              *)
RunsInTranscript ==
    /\ \A m \in messages : ConvOf[m.run] = m.conv /\ runs[m.run] # "none"
    /\ \A m, n \in messages : m.run = n.run /\ m.role = n.role => m = n
    /\ \A r \in Requests : runs[r] # "none" =>
        \E m, n \in messages :
            /\ m.run = r /\ m.role = "user"
            /\ n.run = r /\ n.role = "assistant" /\ m.seq < n.seq
    /\ \A m \in messages :
        runs[m.run] = "running" => latest[m.conv] <= m.seq + 1

(* Two versions of one transcript row.                                     *)
SamePlace(m, n) ==
    m.conv = n.conv /\ m.seq = n.seq /\ m.role = n.role /\ m.run = n.run

KeepsPlaces ==
    /\ \A m \in messages : \E n \in messages' : SamePlace(m, n)
    /\ \A n \in messages' : \E m \in messages : SamePlace(m, n)

(* The end of a turn moves no row.                                         *)
LEMMA EndKeepsPlaces ==
  ASSUME TypeOK, NEW r \in Requests, CompleteTurn(r) \/ MarkFailed(r)
  PROVE  KeepsPlaces /\ latest' = latest
<1>1. messages \subseteq Message
  BY DEF TypeOK
<1>2. CASE CompleteTurn(r)
  <2> DEFINE New(m) == IF m.run = r /\ m.role = "assistant"
                       THEN [m EXCEPT !.status = "complete", !.text = answer[r]]
                       ELSE m
  <2>1. messages' = {New(m) : m \in messages} /\ latest' = latest
    BY <1>2 DEF CompleteTurn, SetReply
  <2>2. \A m \in messages : SamePlace(m, New(m))
    BY <1>1 DEF Message, SamePlace
  <2> HIDE DEF New
  <2> QED
    BY <2>1, <2>2 DEF KeepsPlaces
<1>3. CASE MarkFailed(r)
  <2> DEFINE New(m) == IF m.run = r /\ m.role = "assistant"
                       THEN [m EXCEPT !.status = "failed"] ELSE m
  <2>1. messages' = {New(m) : m \in messages} /\ latest' = latest
    BY <1>3 DEF MarkFailed, FailReply
  <2>2. \A m \in messages : SamePlace(m, New(m))
    BY <1>1 DEF Message, SamePlace
  <2> HIDE DEF New
  <2> QED
    BY <2>1, <2>2 DEF KeepsPlaces
<1> QED
  BY <1>2, <1>3

(* Which steps write the tables.                                           *)
LEMMA OthersKeepTables ==
  ASSUME Next, \A r \in Requests : ~(BeginTurn(r) \/ CompleteTurn(r) \/ MarkFailed(r))
  PROVE  UNCHANGED <<latest, messages, runs>>
<1>1. ASSUME NEW r \in Requests,
             Require(r) \/ NotFound(r) \/ Leave(r) \/ BusyTurn(r) \/ Invoke(r)
             \/ Reply(r) \/ ReadFinal(r) \/ Refresh(r) \/ Raise(r) \/ Lose(r)
      PROVE  UNCHANGED <<latest, messages, runs>>
  BY <1>1 DEF Require, NotFound, Leave, BusyTurn, Invoke, Reply, ReadFinal,
              Refresh, Raise, Lose, tables
<1>2. ASSUME NEW d \in Deleters, RequireDelete(d) \/ Delete(d)
      PROVE  UNCHANGED <<latest, messages, runs>>
  BY <1>2 DEF RequireDelete, Delete, tables
<1>3. Quiet => UNCHANGED <<latest, messages, runs>>
  BY DEF Quiet, turnVars
<1> QED
  BY <1>1, <1>2, <1>3 DEF Next, Execute

(* _begin_turn gives a run that has no message yet the last two places.    *)
LEMMA BeginPlacesRun ==
  ASSUME IndInv, RunsInTranscript, NEW r \in Requests, BeginTurn(r)
  PROVE  RunsInTranscript'
<1> USE TurnsAssumption
<1> DEFINE c == ConvOf[r]
           u == UserMessage(r)
           a == PendingReply(r)
<1>1. /\ c \in Conversations /\ latest[c] \in Nat
      /\ \A m \in messages : m.run \in Requests /\ m.conv \in Conversations
                             /\ m.seq \in Nat
      /\ \A d \in Conversations : latest[d] \in Nat
  BY DEF IndInv, ControlInv, TypeOK, Message
<1>2. snapshot[r] = latest[c]
  BY BeginExtendsTranscript DEF IndInv, ControlInv
<1>3. /\ messages' = messages \cup {u, a}
      /\ latest' = [latest EXCEPT ![c] = latest[c] + 2]
      /\ runs' = [runs EXCEPT ![r] = "running"]
      /\ runs[r] = "none"
      /\ \A o \in Requests : ConvOf[o] = c => runs[o] # "running"
  BY <1>2 DEF BeginTurn, CanBegin, NoActiveRun, RunActive, IndInv, ControlInv,
              RunsFollowRequests
<1>4. /\ u.conv = c /\ u.seq = latest[c] + 1 /\ u.role = "user" /\ u.run = r
      /\ a.conv = c /\ a.seq = latest[c] + 2 /\ a.role = "assistant" /\ a.run = r
  BY <1>2 DEF UserMessage, PendingReply, NewMessage
<1> HIDE DEF u, a
<1>5. runs' \in [Requests -> {"none", "running", "completed", "failed"}]
      /\ runs'[r] = "running" /\ \A o \in Requests : o # r => runs'[o] = runs[o]
  BY <1>3 DEF IndInv, ControlInv, TypeOK
<1>6. \A m \in messages : m.run # r
  BY <1>3 DEF RunsInTranscript
<1>7. \A m \in messages' : ConvOf[m.run] = m.conv /\ runs'[m.run] # "none"
  BY <1>1, <1>3, <1>4, <1>5, <1>6 DEF RunsInTranscript
<1>8. \A m, n \in messages' : m.run = n.run /\ m.role = n.role => m = n
  BY <1>3, <1>4, <1>6 DEF RunsInTranscript
<1>9. ASSUME NEW o \in Requests, runs'[o] # "none"
      PROVE  \E m, n \in messages' :
                /\ m.run = o /\ m.role = "user"
                /\ n.run = o /\ n.role = "assistant" /\ m.seq < n.seq
  <2>1. CASE o = r
    <3>1. u.seq < a.seq
      BY <1>1, <1>4
    <3> QED
      BY <2>1, <3>1, <1>3, <1>4
  <2>2. CASE o # r
    BY <2>2, <1>3, <1>5, <1>9 DEF RunsInTranscript
  <2> QED
    BY <2>1, <2>2
<1>10. ASSUME NEW m \in messages', runs'[m.run] = "running"
       PROVE  latest'[m.conv] <= m.seq + 1
  <2>1. latest'[c] = latest[c] + 2
    BY <1>1, <1>3 DEF IndInv, ControlInv, TypeOK
  <2>2. CASE m \in {u, a}
    BY <2>1, <2>2, <1>1, <1>4
  <2>3. CASE m \in messages
    <3>1. runs[m.run] = "running" /\ ConvOf[m.run] = m.conv
      BY <2>3, <1>1, <1>5, <1>6, <1>10 DEF RunsInTranscript
    <3>2. m.conv # c
      BY <2>3, <3>1, <1>1, <1>3
    <3>3. latest'[m.conv] = latest[m.conv]
      BY <2>3, <3>2, <1>1, <1>3 DEF IndInv, ControlInv, TypeOK
    <3> QED
      BY <2>3, <3>1, <3>3 DEF RunsInTranscript
  <2> QED
    BY <2>2, <2>3, <1>3
<1> QED
  BY <1>7, <1>8, <1>9, <1>10 DEF RunsInTranscript

(* The end of a turn leaves every run with its two places.                 *)
LEMMA EndPlacesRun ==
  ASSUME IndInv, IndInv', RunsInTranscript, NEW r \in Requests,
         CompleteTurn(r) \/ MarkFailed(r)
  PROVE  RunsInTranscript'
<1>1. KeepsPlaces /\ latest' = latest
  BY EndKeepsPlaces DEF IndInv, ControlInv
<1>2. /\ runs[r] # "none"
      /\ runs' = [runs EXCEPT ![r] = "completed"] \/ runs' = [runs EXCEPT ![r] = "failed"]
      /\ runs \in [Requests -> {"none", "running", "completed", "failed"}]
      /\ messages \subseteq Message /\ messages' \subseteq Message
  BY DEF CompleteTurn, MarkFailed, IndInv, ControlInv, TypeOK, RunsFollowRequests,
         InGraph
<1>3. ASSUME NEW o \in Requests
      PROVE  /\ runs'[o] # "none" <=> runs[o] # "none"
             /\ runs'[o] = "running" => runs[o] = "running"
  BY <1>2
<1>4. \A n \in messages' : ConvOf[n.run] = n.conv /\ runs'[n.run] # "none"
                           /\ (runs'[n.run] = "running" => latest'[n.conv] <= n.seq + 1)
  BY <1>1, <1>2, <1>3 DEF RunsInTranscript, KeepsPlaces, SamePlace, Message
<1>5. ASSUME NEW m \in messages', NEW n \in messages', m.run = n.run, m.role = n.role
      PROVE  m = n
  <2>1. PICK x \in messages : SamePlace(x, m)
    BY <1>1 DEF KeepsPlaces
  <2>2. PICK y \in messages : SamePlace(y, n)
    BY <1>1 DEF KeepsPlaces
  <2>3. x = y
    BY <2>1, <2>2, <1>5 DEF RunsInTranscript, SamePlace
  <2>4. m.conv = n.conv /\ m.seq = n.seq /\ m.conv \in Conversations
    BY <2>1, <2>2, <2>3, <1>2 DEF SamePlace, Message
  <2> QED
    BY <2>4 DEF IndInv, TranscriptOrdered
<1>6. ASSUME NEW o \in Requests, runs'[o] # "none"
      PROVE  \E m, n \in messages' :
                /\ m.run = o /\ m.role = "user"
                /\ n.run = o /\ n.role = "assistant" /\ m.seq < n.seq
  <2>1. PICK m \in messages, n \in messages :
            /\ m.run = o /\ m.role = "user"
            /\ n.run = o /\ n.role = "assistant" /\ m.seq < n.seq
    BY <1>3, <1>6 DEF RunsInTranscript
  <2> QED
    BY <2>1, <1>1 DEF KeepsPlaces, SamePlace
<1> QED
  BY <1>4, <1>5, <1>6 DEF RunsInTranscript

LEMMA NextRunsInTranscript ==
  IndInv /\ IndInv' /\ RunsInTranscript /\ [Next]_turnVars => RunsInTranscript'
<1> SUFFICES ASSUME IndInv, IndInv', RunsInTranscript, [Next]_turnVars
             PROVE  RunsInTranscript'
  OBVIOUS
<1>1. ASSUME UNCHANGED <<latest, messages, runs>>
      PROVE  RunsInTranscript'
  BY <1>1 DEF RunsInTranscript
<1>2. CASE UNCHANGED turnVars
  BY <1>1, <1>2 DEF turnVars
<1>3. ASSUME NEW r \in Requests, BeginTurn(r)
      PROVE  RunsInTranscript'
  BY <1>3, BeginPlacesRun
<1>4. ASSUME NEW r \in Requests, CompleteTurn(r) \/ MarkFailed(r)
      PROVE  RunsInTranscript'
  BY <1>4, EndPlacesRun
<1> QED
  BY <1>1, <1>2, <1>3, <1>4, OthersKeepTables

(* Every run has its question and its reply in the transcript of its own   *)
(* conversation, once each, and a running one is the last turn.            *)
THEOREM RunsHaveTheirPlaces == Spec => [](IndInv /\ RunsInTranscript)
<1>1. Init => RunsInTranscript
  BY DEF Init, RunsInTranscript
<1> QED
  BY <1>1, NextRunsInTranscript, IndInvHolds, PTL DEF Spec

-----------------------------------------------------------------------------

(* A message shows an entry of the checkpointed history of conversation c. *)
Shows(c, m, e) == m.conv = c /\ m.role = e.role /\ m.run = e.run

(* The history is a selection of the transcript, in its order.             *)
HistoryShown ==
    /\ \A c \in Conversations : \A i \in DOMAIN thread[c] :
        \E m \in messages : Shows(c, m, thread[c][i])
    /\ \A c \in Conversations : \A i, j \in DOMAIN thread[c] : i < j =>
        \E m, n \in messages :
            /\ Shows(c, m, thread[c][i]) /\ Shows(c, n, thread[c][j])
            /\ m.seq < n.seq

(* A question directly followed by its reply.                              *)
AnsweredIn(r, history) ==
    \E i \in 1 .. Len(history) - 1 :
        history[i] = Asks(r) /\ history[i + 1] = Replies(r)

(* How far the turn of each request has come in the history.               *)
TurnsInHistory ==
    \A r \in Requests :
        LET history == thread[ConvOf[r]] IN
        /\ tpc[r] = "began" => \A i \in DOMAIN history : history[i].run # r
        /\ tpc[r] = "invoked" =>
            history # <<>> /\ history[Len(history)] = Asks(r)
        /\ tpc[r] \in {"replied", "answered"} \/ runs[r] = "completed" =>
            AnsweredIn(r, history)

HistoryInv == HistoryShown /\ TurnsInHistory

(* Appending an entry whose message is behind all the others.              *)
LEMMA AppendShown ==
  ASSUME TypeOK, HistoryShown, UNCHANGED messages,
         NEW d \in Conversations, NEW e \in Entry,
         thread' = [thread EXCEPT ![d] = Append(thread[d], e)],
         NEW n \in messages, Shows(d, n, e),
         \A i \in DOMAIN thread[d] : \E m \in messages :
            Shows(d, m, thread[d][i]) /\ m.seq < n.seq
  PROVE  HistoryShown'
<1> DEFINE old == thread[d]
           new == Append(old, e)
<1>1. /\ old \in Seq(Entry) /\ Len(old) \in Nat /\ DOMAIN old = 1 .. Len(old)
      /\ DOMAIN new = 1 .. Len(old) + 1
      /\ new[Len(old) + 1] = e
      /\ \A i \in 1 .. Len(old) : new[i] = old[i]
  BY DEF TypeOK
<1>2. thread'[d] = new /\ \A c \in Conversations : c # d => thread'[c] = thread[c]
  BY DEF TypeOK
<1> HIDE DEF new
<1>3. ASSUME NEW c \in Conversations, NEW i \in DOMAIN thread'[c]
      PROVE  \E m \in messages' : Shows(c, m, thread'[c][i])
  <2>1. CASE c # d
    BY <1>2, <2>1 DEF HistoryShown
  <2>2. CASE c = d /\ i \in 1 .. Len(old)
    BY <1>1, <1>2, <2>2 DEF HistoryShown
  <2>3. CASE c = d /\ i = Len(old) + 1
    BY <1>1, <1>2, <2>3
  <2> QED
    BY <1>1, <1>2, <2>1, <2>2, <2>3
<1>4. ASSUME NEW c \in Conversations, NEW i \in DOMAIN thread'[c],
             NEW j \in DOMAIN thread'[c], i < j
      PROVE  \E m, k \in messages' : /\ Shows(c, m, thread'[c][i])
                                     /\ Shows(c, k, thread'[c][j])
                                     /\ m.seq < k.seq
  <2>1. CASE c # d
    BY <1>2, <1>4, <2>1 DEF HistoryShown
  <2>2. CASE c = d /\ j \in 1 .. Len(old)
    <3>1. i \in 1 .. Len(old)
      BY <1>1, <1>2, <1>4, <2>2
    <3> QED
      BY <1>1, <1>2, <1>4, <2>2, <3>1 DEF HistoryShown
  <2>3. CASE c = d /\ j = Len(old) + 1
    <3>1. i \in 1 .. Len(old)
      BY <1>1, <1>2, <1>4, <2>3
    <3>2. PICK m \in messages : Shows(d, m, old[i]) /\ m.seq < n.seq
      BY <1>1, <3>1
    <3> QED
      BY <1>1, <1>2, <2>3, <3>1, <3>2
  <2> QED
    BY <1>1, <1>2, <2>1, <2>2, <2>3
<1> QED
  BY <1>3, <1>4 DEF HistoryShown

(* Both kinds of step that append: what was answered stays answered.       *)
LEMMA AppendKeepsAnswers ==
  ASSUME NEW history \in Seq(Entry), NEW e \in Entry, NEW r,
         AnsweredIn(r, history)
  PROVE  AnsweredIn(r, Append(history, e))
<1>1. PICK i \in 1 .. Len(history) - 1 :
        history[i] = Asks(r) /\ history[i + 1] = Replies(r)
  BY DEF AnsweredIn
<1>2. /\ i \in 1 .. Len(Append(history, e)) - 1
      /\ Append(history, e)[i] = history[i]
      /\ Append(history, e)[i + 1] = history[i + 1]
  OBVIOUS
<1> QED
  BY <1>1, <1>2 DEF AnsweredIn

(* The steps that leave the threads alone: rows stay in their places, or   *)
(* new rows come in behind.                                                *)
LEMMA SameThreadShown ==
  ASSUME HistoryShown, thread' = thread,
         \A m \in messages : \E n \in messages' : SamePlace(m, n)
  PROVE  HistoryShown'
<1>1. ASSUME NEW c \in Conversations, NEW i \in DOMAIN thread[c]
      PROVE  \E m \in messages' : Shows(c, m, thread[c][i])
  <2>1. PICK m \in messages : Shows(c, m, thread[c][i])
    BY DEF HistoryShown
  <2> QED
    BY <2>1 DEF Shows, SamePlace
<1>2. ASSUME NEW c \in Conversations, NEW i \in DOMAIN thread[c],
             NEW j \in DOMAIN thread[c], i < j
      PROVE  \E m, n \in messages' : /\ Shows(c, m, thread[c][i])
                                     /\ Shows(c, n, thread[c][j])
                                     /\ m.seq < n.seq
  <2>1. PICK m \in messages, n \in messages : /\ Shows(c, m, thread[c][i])
                                              /\ Shows(c, n, thread[c][j])
                                              /\ m.seq < n.seq
    BY <1>2 DEF HistoryShown
  <2>2. PICK x \in messages' : SamePlace(m, x)
    OBVIOUS
  <2>3. PICK y \in messages' : SamePlace(n, y)
    OBVIOUS
  <2> QED
    BY <2>1, <2>2, <2>3 DEF Shows, SamePlace
<1> QED
  BY <1>1, <1>2 DEF HistoryShown

(* The two messages of a running turn are the last of its conversation.    *)
LEMMA RunningIsLast ==
  ASSUME IndInv, RunsInTranscript, NEW r \in Requests, runs[r] = "running"
  PROVE  /\ \A m \in messages : m.conv = ConvOf[r] => m.seq <= latest[ConvOf[r]]
         /\ \E u, a \in messages :
            /\ Shows(ConvOf[r], u, Asks(r)) /\ u.seq + 1 = latest[ConvOf[r]]
            /\ Shows(ConvOf[r], a, Replies(r)) /\ a.seq = latest[ConvOf[r]]
            /\ \A m \in messages :
                m.conv = ConvOf[r] /\ m.run # r => m.seq < u.seq
<1> USE TurnsAssumption
<1> DEFINE c == ConvOf[r]
<1>1. c \in Conversations /\ latest[c] \in Nat /\ messages \subseteq Message
  BY DEF IndInv, ControlInv, TypeOK
<1>2. PICK u \in messages, a \in messages :
        /\ u.run = r /\ u.role = "user"
        /\ a.run = r /\ a.role = "assistant" /\ u.seq < a.seq
  BY DEF RunsInTranscript
<1>3. u.conv = c /\ a.conv = c /\ latest[c] <= u.seq + 1
  BY <1>2 DEF RunsInTranscript
<1>4. \A m \in messages : m.seq \in Nat /\ (m.conv = c => m.seq <= latest[c])
  <2>1. \A m \in messages : m.conv = c => m.seq \in 1 .. latest[c]
    BY <1>1 DEF IndInv, TranscriptOrdered
  <2> QED
    BY <1>1, <2>1 DEF Message
<1>5. a.seq = latest[c] /\ u.seq + 1 = latest[c]
  BY <1>1, <1>2, <1>3, <1>4
<1>6. ASSUME NEW m \in messages, m.conv = c, m.run # r
      PROVE  m.seq < u.seq
  <2>1. m.seq # u.seq /\ m.seq # a.seq
    BY <1>1, <1>2, <1>3, <1>6 DEF IndInv, TranscriptOrdered
  <2> QED
    BY <1>1, <1>4, <1>5, <1>6, <2>1
<1> QED
  BY <1>2, <1>3, <1>4, <1>5, <1>6 DEF Shows, Asks, Replies

(* An append to the thread of r moves on no turn but that of r.            *)
LEMMA AppendTurns ==
  ASSUME IndInv, HistoryInv, NEW r \in Requests, runs[r] = "running", runs' = runs,
         NEW e \in Entry, NEW stage, tpc' = [tpc EXCEPT ![r] = stage],
         thread' = [thread EXCEPT ![ConvOf[r]] = Append(thread[ConvOf[r]], e)],
         \/ stage = "invoked" /\ e = Asks(r)
         \/ /\ stage \in {"replied", "answered"}
            /\ AnsweredIn(r, Append(thread[ConvOf[r]], e))
  PROVE  TurnsInHistory'
<1> USE TurnsAssumption
<1> DEFINE d == ConvOf[r]
           old == thread[d]
           new == Append(old, e)
<1>1. d \in Conversations /\ old \in Seq(Entry)
  BY DEF IndInv, ControlInv, TypeOK
<1>2. /\ thread'[d] = new /\ \A c \in Conversations : c # d => thread'[c] = thread[c]
      /\ tpc'[r] = stage /\ \A o \in Requests : o # r => tpc'[o] = tpc[o]
      /\ new # <<>> /\ new[Len(new)] = e
  <2>1. thread'[d] = new /\ \A c \in Conversations : c # d => thread'[c] = thread[c]
    BY <1>1 DEF IndInv, ControlInv, TypeOK
  <2>2. tpc'[r] = stage /\ \A o \in Requests : o # r => tpc'[o] = tpc[o]
    BY DEF IndInv, ControlInv, TypeOK
  <2>3. new # <<>> /\ new[Len(new)] = e
    BY <1>1
  <2> QED
    BY <2>1, <2>2, <2>3
<1>3. ASSUME NEW o \in Requests, AnsweredIn(o, old)
      PROVE  AnsweredIn(o, new)
  BY <1>1, <1>3, AppendKeepsAnswers
<1> HIDE DEF new
<1>4. ASSUME NEW o \in Requests, o # r, ConvOf[o] = d
      PROVE  tpc[o] \notin InGraph
  BY <1>4 DEF IndInv, ControlInv, RunsFollowRequests
<1> SUFFICES ASSUME NEW o \in Requests
             PROVE  /\ tpc'[o] = "began" => \A i \in DOMAIN thread'[ConvOf[o]] :
                                              thread'[ConvOf[o]][i].run # o
                    /\ tpc'[o] = "invoked" =>
                          /\ thread'[ConvOf[o]] # <<>>
                          /\ thread'[ConvOf[o]][Len(thread'[ConvOf[o]])] = Asks(o)
                    /\ tpc'[o] \in {"replied", "answered"} \/ runs'[o] = "completed"
                          => AnsweredIn(o, thread'[ConvOf[o]])
  BY DEF TurnsInHistory, AnsweredIn
<1>5. CASE o = r
  BY <1>2, <1>5 DEF new
<1>6. CASE o # r /\ ConvOf[o] = d
  <2>1. tpc'[o] \notin InGraph
    BY <1>2, <1>4, <1>6
  <2>2. runs[o] = "completed" => AnsweredIn(o, old)
    BY <1>6 DEF HistoryInv, TurnsInHistory
  <2> QED
    BY <1>2, <1>3, <1>6, <2>1, <2>2 DEF InGraph
<1>7. CASE ConvOf[o] # d
  <2>1. thread'[ConvOf[o]] = thread[ConvOf[o]] /\ tpc'[o] = tpc[o] /\ runs'[o] = runs[o]
    BY <1>2, <1>7
  <2>2. /\ tpc[o] = "began" => \A i \in DOMAIN thread[ConvOf[o]] :
                                    thread[ConvOf[o]][i].run # o
        /\ tpc[o] = "invoked" => /\ thread[ConvOf[o]] # <<>>
                                 /\ thread[ConvOf[o]][Len(thread[ConvOf[o]])] = Asks(o)
        /\ tpc[o] \in {"replied", "answered"} \/ runs[o] = "completed"
              => AnsweredIn(o, thread[ConvOf[o]])
    BY DEF HistoryInv, TurnsInHistory
  <2> QED
    BY <2>1, <2>2, Zenon
<1> QED
  BY <1>5, <1>6, <1>7

(* The saver records the question behind everything saved before.          *)
LEMMA InvokeHistory ==
  ASSUME IndInv, RunsInTranscript, HistoryInv, NEW r \in Requests, Invoke(r)
  PROVE  HistoryInv'
<1> USE TurnsAssumption
<1> DEFINE d == ConvOf[r]
           old == thread[d]
           new == Append(old, Asks(r))
<1>1. /\ tpc[r] = "began" /\ tpc' = [tpc EXCEPT ![r] = "invoked"]
      /\ thread' = [thread EXCEPT ![d] = new]
      /\ messages' = messages /\ runs' = runs
  BY DEF Invoke, Goto, tables
<1>2. /\ d \in Conversations /\ old \in Seq(Entry) /\ Asks(r) \in Entry
      /\ runs[r] = "running" /\ TypeOK
  BY <1>1 DEF IndInv, ControlInv, TypeOK, RunsFollowRequests, InGraph, Asks, Entry
<1>3. PICK u \in messages : Shows(d, u, Asks(r)) /\ \A m \in messages :
                                m.conv = d /\ m.run # r => m.seq < u.seq
  BY <1>2, RunningIsLast
<1>4. ASSUME NEW i \in DOMAIN old
      PROVE  \E m \in messages : Shows(d, m, old[i]) /\ m.seq < u.seq
  <2>1. PICK m \in messages : Shows(d, m, old[i])
    BY <1>2 DEF HistoryInv, HistoryShown
  <2>2. m.conv = d /\ m.run # r
    BY <1>1, <2>1 DEF HistoryInv, TurnsInHistory, Shows
  <2> QED
    BY <1>3, <2>1, <2>2
<1>5. HistoryShown'
  BY <1>1, <1>2, <1>3, <1>4, AppendShown DEF HistoryInv
<1>6. TurnsInHistory'
  BY <1>1, <1>2, AppendTurns
<1> QED
  BY <1>5, <1>6 DEF HistoryInv

(* The agent node saves the reply directly behind its question.            *)
LEMMA ReplyHistory ==
  ASSUME IndInv, RunsInTranscript, HistoryInv, NEW r \in Requests, Reply(r)
  PROVE  HistoryInv'
<1> USE TurnsAssumption
<1> DEFINE d == ConvOf[r]
           old == thread[d]
           new == Append(old, Replies(r))
<1>1. /\ tpc[r] = "invoked" /\ memory[r] = old
      /\ tpc' = [tpc EXCEPT ![r] = "replied"] \/ tpc' = [tpc EXCEPT ![r] = "answered"]
      /\ thread' = [thread EXCEPT ![d] = new]
      /\ messages' = messages /\ runs' = runs
  BY DEF Reply, Goto, tables, IndInv, ControlInv, GraphExclusive
<1>2. /\ d \in Conversations /\ old \in Seq(Entry) /\ Replies(r) \in Entry
      /\ runs[r] = "running" /\ TypeOK
  BY <1>1 DEF IndInv, ControlInv, TypeOK, RunsFollowRequests, InGraph, Replies, Entry
<1>3. old # <<>> /\ old[Len(old)] = Asks(r)
  BY <1>1 DEF HistoryInv, TurnsInHistory
<1>4. /\ latest[d] \in Nat /\ \A m \in messages : m.seq \in Nat
      /\ \A m \in messages : m.conv = d => m.seq <= latest[d]
  BY <1>2, RunningIsLast DEF TypeOK, Message
<1>5. PICK a \in messages : Shows(d, a, Replies(r)) /\ a.seq = latest[d]
  BY <1>2, RunningIsLast
<1>6. ASSUME NEW i \in DOMAIN old
      PROVE  \E m \in messages : Shows(d, m, old[i]) /\ m.seq < a.seq
  <2>1. Len(old) \in DOMAIN old /\ DOMAIN old = 1 .. Len(old) /\ Len(old) \in Nat
    BY <1>2, <1>3
  <2>2. CASE i = Len(old)
    <3>1. PICK m \in messages : Shows(d, m, Asks(r))
      BY <1>2, <1>3, <2>1 DEF HistoryInv, HistoryShown
    <3>2. m # a
      BY <1>5, <3>1 DEF Shows, Asks, Replies
    <3>3. m.seq # a.seq
      BY <1>2, <1>5, <3>1, <3>2 DEF Shows, IndInv, TranscriptOrdered
    <3> QED
      BY <1>3, <1>4, <1>5, <2>2, <3>1, <3>3 DEF Shows
  <2>3. CASE i # Len(old)
    <3>1. i < Len(old)
      BY <2>1, <2>3
    <3>2. PICK m \in messages, n \in messages :
            Shows(d, m, old[i]) /\ Shows(d, n, old[Len(old)]) /\ m.seq < n.seq
      BY <1>2, <2>1, <3>1 DEF HistoryInv, HistoryShown
    <3>3. n.seq <= a.seq
      BY <1>4, <1>5, <3>2 DEF Shows
    <3> QED
      BY <1>4, <3>2, <3>3
  <2> QED
    BY <2>2, <2>3
<1>7. HistoryShown'
  BY <1>1, <1>2, <1>5, <1>6, AppendShown DEF HistoryInv
<1>8. AnsweredIn(r, new)
  <2>1. /\ Len(old) \in 1 .. Len(new) - 1
        /\ new[Len(old)] = old[Len(old)] /\ new[Len(old) + 1] = Replies(r)
    BY <1>2, <1>3
  <2> QED
    BY <1>3, <2>1 DEF AnsweredIn
<1>9. TurnsInHistory'
  <2>1. PICK stage \in {"replied", "answered"} : tpc' = [tpc EXCEPT ![r] = stage]
    BY <1>1
  <2> QED
    BY <1>1, <1>2, <1>8, <2>1, AppendTurns
<1> QED
  BY <1>7, <1>9 DEF HistoryInv


(* The steps of a request outside the graph's writes.                      *)
LEMMA MoveHistory ==
  ASSUME IndInv, HistoryInv, UNCHANGED <<thread, messages, runs>>,
         NEW r \in Requests \cup Deleters, NEW stage,
         tpc' = [tpc EXCEPT ![r] = stage],
         r \in Requests => stage \notin InGraph
                           \/ (tpc[r] = "replied" /\ stage = "answered")
  PROVE  HistoryInv'
<1> USE TurnsAssumption
<1>1. HistoryShown'
  BY SameThreadShown DEF HistoryInv, SamePlace
<1>2. tpc'[r] = stage /\ \A o \in Requests : o # r => tpc'[o] = tpc[o]
  BY DEF IndInv, ControlInv, TypeOK
<1>3. TurnsInHistory'
  BY <1>2 DEF HistoryInv, TurnsInHistory, AnsweredIn, InGraph
<1> QED
  BY <1>1, <1>3 DEF HistoryInv

(* A turn begins without a trace in the history.                           *)
LEMMA BeginHistory ==
  ASSUME IndInv, RunsInTranscript, HistoryInv, NEW r \in Requests, BeginTurn(r)
  PROVE  HistoryInv'
<1> USE TurnsAssumption
<1>1. /\ thread' = thread /\ messages \subseteq messages'
      /\ tpc[r] = "required" /\ tpc' = [tpc EXCEPT ![r] = "began"]
      /\ runs' = [runs EXCEPT ![r] = "running"] /\ runs[r] = "none"
  BY DEF BeginTurn, Goto, checkpoint, IndInv, ControlInv, RunsFollowRequests
<1>2. HistoryShown'
  BY <1>1, SameThreadShown DEF HistoryInv, SamePlace
<1>3. ASSUME NEW i \in DOMAIN thread[ConvOf[r]]
      PROVE  thread[ConvOf[r]][i].run # r
  <2>1. PICK m \in messages : Shows(ConvOf[r], m, thread[ConvOf[r]][i])
    BY DEF HistoryInv, HistoryShown
  <2> QED
    BY <1>1, <2>1 DEF Shows, RunsInTranscript
<1>4. /\ tpc'[r] = "began" /\ runs'[r] = "running"
      /\ \A o \in Requests : o # r => tpc'[o] = tpc[o] /\ runs'[o] = runs[o]
  BY <1>1 DEF IndInv, ControlInv, TypeOK
<1>5. TurnsInHistory'
  BY <1>1, <1>3, <1>4 DEF HistoryInv, TurnsInHistory, AnsweredIn
<1> QED
  BY <1>2, <1>5 DEF HistoryInv

(* A turn ends; one that completes has its reply in the history.           *)
LEMMA EndHistory ==
  ASSUME IndInv, HistoryInv, NEW r \in Requests, CompleteTurn(r) \/ MarkFailed(r)
  PROVE  HistoryInv'
<1> USE TurnsAssumption
<1>1. /\ thread' = thread
      /\ \/ /\ tpc[r] = "answered" /\ tpc' = [tpc EXCEPT ![r] = "committed"]
            /\ runs' = [runs EXCEPT ![r] = "completed"]
         \/ /\ tpc' = [tpc EXCEPT ![r] = "failed"]
            /\ runs' = [runs EXCEPT ![r] = "failed"]
  BY DEF CompleteTurn, MarkFailed, Goto, checkpoint
<1>2. HistoryShown'
  BY <1>1, EndKeepsPlaces, SameThreadShown
     DEF HistoryInv, KeepsPlaces, IndInv, ControlInv
<1>3. /\ \A o \in Requests : o # r => tpc'[o] = tpc[o] /\ runs'[o] = runs[o]
      /\ \/ tpc[r] = "answered" /\ tpc'[r] = "committed" /\ runs'[r] = "completed"
         \/ tpc'[r] = "failed" /\ runs'[r] = "failed"
  BY <1>1 DEF IndInv, ControlInv, TypeOK
<1>4. TurnsInHistory'
  BY <1>1, <1>3 DEF HistoryInv, TurnsInHistory, AnsweredIn
<1> QED
  BY <1>2, <1>4 DEF HistoryInv

LEMMA NextHistoryInv ==
  IndInv /\ RunsInTranscript /\ HistoryInv /\ [Next]_turnVars => HistoryInv'
<1> SUFFICES ASSUME IndInv, RunsInTranscript, HistoryInv, [Next]_turnVars
             PROVE  HistoryInv'
  OBVIOUS
<1> USE TurnsAssumption
<1>1. ASSUME NEW r \in Requests,
             Require(r) \/ NotFound(r) \/ Leave(r) \/ BusyTurn(r) \/ ReadFinal(r)
             \/ Refresh(r) \/ Raise(r) \/ Lose(r)
      PROVE  HistoryInv'
  <2>1. UNCHANGED <<thread, messages, runs>>
    BY <1>1 DEF Require, NotFound, Leave, BusyTurn, ReadFinal, Refresh, Raise, Lose,
                tables, checkpoint
  <2>2. PICK stage : /\ tpc' = [tpc EXCEPT ![r] = stage]
                     /\ stage \notin InGraph
                        \/ (tpc[r] = "replied" /\ stage = "answered")
    BY <1>1 DEF Require, NotFound, Leave, BusyTurn, ReadFinal, Refresh, Raise, Lose,
                Goto, InGraph
  <2> QED
    BY <2>1, <2>2, MoveHistory
<1>2. ASSUME NEW d \in Deleters, RequireDelete(d) \/ Delete(d)
      PROVE  HistoryInv'
  <2>1. UNCHANGED <<thread, messages, runs>>
    BY <1>2 DEF RequireDelete, Delete, tables, checkpoint
  <2>2. PICK stage : tpc' = [tpc EXCEPT ![d] = stage]
    BY <1>2 DEF RequireDelete, Delete, Goto
  <2> QED
    BY <2>1, <2>2, MoveHistory
<1>3. ASSUME UNCHANGED turnVars
      PROVE  HistoryInv'
  BY <1>3 DEF turnVars, HistoryInv, HistoryShown, TurnsInHistory, AnsweredIn
<1> QED
  BY <1>1, <1>2, <1>3, InvokeHistory, ReplyHistory, BeginHistory, EndHistory
     DEF Next, Execute, Quiet

(* The invariant of the transcript and of the checkpointed history.        *)
TurnInv == IndInv /\ RunsInTranscript /\ HistoryInv

THEOREM TurnInvHolds == Spec => []TurnInv
<1>1. Init => HistoryInv
  BY TurnsAssumption DEF Init, HistoryInv, HistoryShown, TurnsInHistory, AnsweredIn
<1> QED
  BY <1>1, NextHistoryInv, RunsHaveTheirPlaces, PTL DEF Spec, TurnInv

(* What the model is given of a conversation, and what its user reads, do  *)
(* not drift apart: the checkpoint, which the saver writes outside every   *)
(* transaction of the tables, stays a selection of the transcript in its   *)
(* order, with every completed turn's question and reply adjacent.         *)
THEOREM ThreadsFollowTranscripts == Spec => []ThreadFollowsTranscript
<1>1. TurnInv => ThreadFollowsTranscript
  BY DEF TurnInv, HistoryInv, HistoryShown, TurnsInHistory, AnsweredIn, Shows,
         ThreadFollowsTranscript
<1> QED
  BY <1>1, TurnInvHolds, PTL

-----------------------------------------------------------------------------

(* The reply of a run is in the transcript, complete and its own.          *)
ReplyShown(r) ==
    \E m \in messages : /\ m.run = r /\ m.role = "assistant"
                        /\ m.status = "complete" /\ m.text = r

(* How a request ended is what the tables say of its run.                  *)
EndsRecorded ==
    \A r \in Requests :
        /\ tpc[r] \in {"committed", "completed"} =>
            runs[r] = "completed" /\ ReplyShown(r)
        /\ tpc[r] = "busy" => runs[r] = "none"
        /\ tpc[r] = "failed" => runs[r] = "failed"

(* Steps that leave the reply of r alone.                                  *)
LEMMA OthersKeepReply ==
  ASSUME NEW r \in Requests, NEW o \in Requests, o # r, ReplyShown(r),
         CompleteTurn(o) \/ MarkFailed(o)
  PROVE  ReplyShown(r)'
<1>1. PICK m \in messages : /\ m.run = r /\ m.role = "assistant"
                            /\ m.status = "complete" /\ m.text = r
  BY DEF ReplyShown
<1>2. m \in messages'
  BY <1>1 DEF CompleteTurn, MarkFailed, SetReply, FailReply
<1> QED
  BY <1>1, <1>2 DEF ReplyShown

(* _complete_turn writes the answer into the one reply row of its run.     *)
LEMMA CompleteShowsReply ==
  ASSUME TurnInv, NEW r \in Requests, CompleteTurn(r)
  PROVE  ReplyShown(r)'
<1>1. answer[r] = r /\ runs[r] # "none"
  BY DEF CompleteTurn, TurnInv, IndInv, ControlInv, OwnResult, RunsFollowRequests,
         InGraph
<1>2. PICK m \in messages : m.run = r /\ m.role = "assistant"
  BY <1>1 DEF TurnInv, RunsInTranscript
<1>3. [m EXCEPT !.status = "complete", !.text = r] \in messages'
  BY <1>1, <1>2 DEF CompleteTurn, SetReply
<1>4. m \in Message
  BY DEF TurnInv, IndInv, ControlInv, TypeOK
<1>5. LET n == [m EXCEPT !.status = "complete", !.text = r]
      IN  n.run = r /\ n.role = "assistant" /\ n.status = "complete" /\ n.text = r
  BY <1>2, <1>4 DEF Message
<1> QED
  BY <1>3, <1>5 DEF ReplyShown

LEMMA NextEndsRecorded ==
  TurnInv /\ EndsRecorded /\ [Next]_turnVars => EndsRecorded'
<1> SUFFICES ASSUME TurnInv, EndsRecorded, [Next]_turnVars
             PROVE  EndsRecorded'
  OBVIOUS
<1>1. /\ runs \in [Requests -> {"none", "running", "completed", "failed"}]
      /\ DOMAIN tpc = Requests \cup Deleters /\ Requests \cap Deleters = {}
  BY TurnsAssumption DEF TurnInv, IndInv, ControlInv, TypeOK
<1>2. ASSUME NEW r \in Requests, BeginTurn(r)
      PROVE  EndsRecorded'
  <2>1. /\ tpc' = [tpc EXCEPT ![r] = "began"] /\ messages \subseteq messages'
        /\ runs' = [runs EXCEPT ![r] = "running"]
    BY <1>2 DEF BeginTurn, Goto
  <2>2. /\ tpc'[r] = "began"
        /\ \A o \in Requests : o # r => tpc'[o] = tpc[o] /\ runs'[o] = runs[o]
    BY <1>1, <2>1
  <2>3. \A o \in Requests : ReplyShown(o) => ReplyShown(o)'
    BY <2>1 DEF ReplyShown
  <2> QED
    BY <2>2, <2>3 DEF EndsRecorded
<1>3. ASSUME NEW r \in Requests, CompleteTurn(r)
      PROVE  EndsRecorded'
  <2>1. /\ tpc'[r] = "committed" /\ runs'[r] = "completed"
        /\ \A o \in Requests : o # r => tpc'[o] = tpc[o] /\ runs'[o] = runs[o]
    BY <1>1, <1>3 DEF CompleteTurn, Goto
  <2>2. ReplyShown(r)'
    BY <1>3, CompleteShowsReply
  <2>3. \A o \in Requests : o # r /\ ReplyShown(o) => ReplyShown(o)'
    BY <1>3, OthersKeepReply
  <2> QED
    BY <2>1, <2>2, <2>3 DEF EndsRecorded
<1>4. ASSUME NEW r \in Requests, MarkFailed(r)
      PROVE  EndsRecorded'
  <2>1. /\ tpc'[r] = "failed" /\ runs'[r] = "failed"
        /\ \A o \in Requests : o # r => tpc'[o] = tpc[o] /\ runs'[o] = runs[o]
    BY <1>1, <1>4 DEF MarkFailed, Goto
  <2>2. \A o \in Requests : o # r /\ ReplyShown(o) => ReplyShown(o)'
    BY <1>4, OthersKeepReply
  <2> QED
    BY <2>1, <2>2 DEF EndsRecorded
<1>5. ASSUME UNCHANGED <<messages, runs>>, NEW r \in Requests \cup Deleters, NEW stage,
             tpc' = [tpc EXCEPT ![r] = stage],
             r \in Requests =>
                /\ stage \notin {"committed", "failed"}
                /\ stage = "completed" => tpc[r] = "committed"
                /\ stage = "busy" => tpc[r] = "required"
      PROVE  EndsRecorded'
  <2>1. tpc'[r] = stage /\ \A o \in Requests : o # r => tpc'[o] = tpc[o]
    BY <1>1, <1>5
  <2>2. \A o \in Requests : tpc[o] = "required" => runs[o] = "none"
    BY DEF TurnInv, IndInv, ControlInv, RunsFollowRequests
  <2>3. \A o \in Requests : ReplyShown(o)' = ReplyShown(o)
    BY <1>5 DEF ReplyShown
  <2> QED
    BY <1>1, <1>5, <2>1, <2>2, <2>3 DEF EndsRecorded
<1>6. ASSUME NEW r \in Requests,
             Require(r) \/ NotFound(r) \/ Leave(r) \/ BusyTurn(r) \/ Invoke(r)
             \/ Reply(r) \/ ReadFinal(r) \/ Refresh(r) \/ Raise(r) \/ Lose(r)
      PROVE  EndsRecorded'
  <2>1. UNCHANGED <<messages, runs>>
    BY <1>6 DEF Require, NotFound, Leave, BusyTurn, Invoke, Reply, ReadFinal, Refresh,
                Raise, Lose, tables
  <2>2. PICK stage : /\ tpc' = [tpc EXCEPT ![r] = stage]
                     /\ stage \notin {"committed", "failed"}
                     /\ stage = "completed" => tpc[r] = "committed"
                     /\ stage = "busy" => tpc[r] = "required"
    <3>1. \/ tpc' = [tpc EXCEPT ![r] = "required"] \/ tpc' = [tpc EXCEPT ![r] = "not_found"]
          \/ tpc' = [tpc EXCEPT ![r] = "left"] \/ tpc' = [tpc EXCEPT ![r] = "invoked"]
          \/ tpc' = [tpc EXCEPT ![r] = "replied"] \/ tpc' = [tpc EXCEPT ![r] = "answered"]
          \/ tpc' = [tpc EXCEPT ![r] = "failing"] \/ tpc' = [tpc EXCEPT ![r] = "lost"]
          \/ tpc' = [tpc EXCEPT ![r] = "busy"] /\ tpc[r] = "required"
          \/ tpc' = [tpc EXCEPT ![r] = "completed"] /\ tpc[r] = "committed"
      BY <1>6 DEF Require, NotFound, Leave, BusyTurn, Invoke, Reply, ReadFinal, Refresh,
                  Raise, Lose, Goto
    <3> QED
      BY <3>1
  <2> QED
    BY <1>5, <2>1, <2>2
<1>7. ASSUME NEW d \in Deleters, RequireDelete(d) \/ Delete(d)
      PROVE  EndsRecorded'
  <2>1. UNCHANGED <<messages, runs>>
    BY <1>7 DEF RequireDelete, Delete, tables
  <2>2. PICK stage : tpc' = [tpc EXCEPT ![d] = stage]
    BY <1>7 DEF RequireDelete, Delete, Goto
  <2> QED
    BY <1>1, <1>5, <2>1, <2>2
<1>8. CASE UNCHANGED turnVars
  BY <1>8 DEF turnVars, EndsRecorded, ReplyShown
<1> QED
  BY <1>2, <1>3, <1>4, <1>6, <1>7, <1>8 DEF Next, Execute, Quiet

(* A request that has returned a completed turn left a completed run and   *)
(* its reply behind, a busy one no run and a failed one a failed run: what *)
(* the caller stores as the response can be told from how the turn ended.  *)
THEOREM EndsAreRecorded == Spec => [](TurnInv /\ EndsRecorded)
<1>1. Init => EndsRecorded
  BY DEF Init, EndsRecorded
<1> QED
  BY <1>1, NextEndsRecorded, TurnInvHolds, PTL DEF Spec

-----------------------------------------------------------------------------

(* The abstract log of a conversation has an entry for each user message,  *)
(* in their order.                                                         *)
LogFollows ==
    \A c \in Conversations :
        /\ TurnLog[c] \in Seq(Serial!Turn)
        /\ latest[c] = 2 * Len(TurnLog[c])
        /\ \A i \in 1 .. Len(TurnLog[c]) :
            \E m \in messages :
                /\ m.conv = c /\ m.seq = 2 * i - 1 /\ m.role = "user"
                /\ TurnLog[c][i] = [run |-> m.run, status |-> runs[m.run]]

(* A sequence number names one message.                                    *)
LEMMA RunAtPlace ==
  ASSUME TranscriptOrdered, NEW m \in messages, m.conv \in Conversations
  PROVE  RunAt(m.conv, m.seq) = m.run
<1> DEFINE P(n) == n.conv = m.conv /\ n.seq = m.seq
<1>1. \A n \in messages : P(n) => n = m
  BY DEF TranscriptOrdered
<1>2. (CHOOSE n \in messages : P(n)) = m
  BY <1>1
<1> QED
  BY <1>2 DEF RunAt

LEMMA TurnInvLog == TurnInv => LogFollows
<1> SUFFICES ASSUME TurnInv, NEW c \in Conversations
             PROVE  /\ TurnLog[c] \in Seq(Serial!Turn)
                    /\ latest[c] = 2 * Len(TurnLog[c])
                    /\ \A i \in 1 .. Len(TurnLog[c]) : \E m \in messages :
                        /\ m.conv = c /\ m.seq = 2 * i - 1 /\ m.role = "user"
                        /\ TurnLog[c][i] = [run |-> m.run, status |-> runs[m.run]]
  BY DEF LogFollows
<1> DEFINE k == latest[c] \div 2
           entry(i) == [run |-> RunAt(c, 2 * i - 1), status |-> runs[RunAt(c, 2 * i - 1)]]
           log == [i \in 1 .. k |-> entry(i)]
<1>1. latest[c] \in Nat /\ k \in Nat /\ latest[c] = 2 * k
  BY DEF TurnInv, IndInv, ControlInv, TypeOK, SnapshotsBehind
<1>2. TurnLog[c] = log
  BY DEF TurnLog
<1>3. ASSUME NEW i \in 1 .. k
      PROVE  \E m \in messages :
                /\ m.conv = c /\ m.seq = 2 * i - 1 /\ m.role = "user"
                /\ entry(i) = [run |-> m.run, status |-> runs[m.run]]
                /\ entry(i) \in Serial!Turn
  <2>1. 2 * i - 1 \in 1 .. latest[c] /\ (2 * i - 1) % 2 = 1
    BY <1>1
  <2>2. PICK m \in messages : m.conv = c /\ m.seq = 2 * i - 1
    BY <2>1 DEF TurnInv, IndInv, TranscriptOrdered
  <2>3. m.role = "user"
    BY <2>1, <2>2 DEF TurnInv, IndInv, TranscriptOrdered
  <2>4. RunAt(c, 2 * i - 1) = m.run
    BY <2>2, RunAtPlace DEF TurnInv, IndInv
  <2>5. m.run \in Requests /\ runs[m.run] \in {"running", "completed", "failed"}
    BY DEF TurnInv, IndInv, ControlInv, TypeOK, Message, RunsInTranscript
  <2> QED
    BY <2>2, <2>3, <2>4, <2>5 DEF Serial!Turn
<1> HIDE DEF entry, k
<1>4. log \in Seq(Serial!Turn) /\ Len(log) = k
  BY <1>1, <1>3
<1> QED
  BY <1>1, <1>2, <1>3, <1>4


(* A row that is still there, as itself or in another version, still gives *)
(* its entry of the log the same run.                                      *)
LEMMA EntryKeepsRun ==
  ASSUME TurnInv', NEW m \in messages, NEW n \in messages', m.conv \in Conversations,
         m.conv = n.conv, m.seq = n.seq, \E k \in messages' : SamePlace(m, k)
  PROVE  n.run = m.run /\ n.role = m.role
<1>1. PICK k \in messages' : SamePlace(m, k)
  OBVIOUS
<1>2. k = n
  BY <1>1 DEF SamePlace, TurnInv, IndInv, TranscriptOrdered
<1> QED
  BY <1>1, <1>2 DEF SamePlace

(* The entries of turns that a step does not touch stay as they are.       *)
LEMMA EntryStays ==
  ASSUME TurnInv, TurnInv', \A m \in messages : \E n \in messages' : SamePlace(m, n),
         NEW c \in Conversations, NEW i \in 1 .. Len(TurnLog[c]),
         i \in 1 .. Len(TurnLog'[c])
  PROVE  \E m \in messages :
            /\ m.conv = c /\ m.seq = 2 * i - 1 /\ m.role = "user"
            /\ TurnLog[c][i] = [run |-> m.run, status |-> runs[m.run]]
            /\ TurnLog'[c][i] = [run |-> m.run, status |-> runs'[m.run]]
<1>1. LogFollows /\ LogFollows'
  BY TurnInvLog, PTL
<1>2. PICK m \in messages :
        /\ m.conv = c /\ m.seq = 2 * i - 1 /\ m.role = "user"
        /\ TurnLog[c][i] = [run |-> m.run, status |-> runs[m.run]]
  BY <1>1 DEF LogFollows
<1>3. PICK n \in messages' :
        /\ n.conv = c /\ n.seq = 2 * i - 1
        /\ TurnLog'[c][i] = [run |-> n.run, status |-> runs'[n.run]]
  BY <1>1 DEF LogFollows
<1>4. n.run = m.run
  BY <1>2, <1>3, EntryKeepsRun
<1> QED
  BY <1>2, <1>3, <1>4

(* _begin_turn opens a turn of the abstract log.                           *)
LEMMA BeginOpens ==
  ASSUME TurnInv, TurnInv', NEW r \in Requests, BeginTurn(r)
  PROVE  Serial!Open(r)
<1> DEFINE e == [run |-> r, status |-> "running"]
           T == Serial!Turn
<1>1. LogFollows /\ LogFollows'
  BY TurnInvLog, PTL
<1>2. PICK c \in Conversations : c = ConvOf[r]
  BY TurnsAssumption
<1>3. /\ e \in T
      /\ TurnLog \in [Conversations -> Seq(T)] /\ TurnLog' \in [Conversations -> Seq(T)]
  BY <1>1 DEF LogFollows, TurnLog, Serial!Turn
<1>4. PICK k \in Nat : k = Len(TurnLog[c])
  BY <1>3
<1>5. /\ snapshot[r] = latest[c]
      /\ messages' = messages \cup {UserMessage(r), PendingReply(r)}
      /\ latest' = [latest EXCEPT ![c] = latest[c] + 2]
      /\ runs' = [runs EXCEPT ![r] = "running"] /\ runs[r] = "none"
      /\ \A o \in Requests : ConvOf[o] = c => runs[o] # "running"
  BY <1>2, BeginExtendsTranscript DEF TurnInv, BeginTurn, CanBegin, NoActiveRun,
     RunActive, IndInv, ControlInv, RunsFollowRequests
<1>6. runs'[r] = "running" /\ \A o \in Requests : o # r => runs'[o] = runs[o]
  BY <1>5 DEF TurnInv, IndInv, ControlInv, TypeOK
<1>7. \A m \in messages : m.run # r /\ m.run \in Requests /\ ConvOf[m.run] = m.conv
  BY <1>5 DEF TurnInv, RunsInTranscript, IndInv, ControlInv, TypeOK, Message
<1>8. /\ Len(TurnLog'[c]) = k + 1 /\ latest[c] = 2 * k
      /\ \A d \in Conversations : d # c => Len(TurnLog'[d]) = Len(TurnLog[d])
  <2>1. \A d \in Conversations : /\ Len(TurnLog[d]) \in Nat /\ Len(TurnLog'[d]) \in Nat
                                 /\ latest[d] = 2 * Len(TurnLog[d])
                                 /\ latest'[d] = 2 * Len(TurnLog'[d])
    BY <1>1, <1>3 DEF LogFollows
  <2>2. latest'[c] = latest[c] + 2
        /\ \A d \in Conversations : d # c => latest'[d] = latest[d]
    BY <1>5 DEF TurnInv, IndInv, ControlInv, TypeOK
  <2> QED
    BY <1>4, <2>1, <2>2
<1>9. ASSUME NEW d \in Conversations, NEW i \in 1 .. Len(TurnLog[d])
      PROVE  /\ TurnLog'[d][i] = TurnLog[d][i]
             /\ d = c => TurnLog[d][i].run # r /\ TurnLog[d][i].status # "running"
  <2>1. i \in 1 .. Len(TurnLog'[d])
    BY <1>4, <1>8
  <2>2. \A m \in messages : \E n \in messages' : SamePlace(m, n)
    BY <1>5 DEF SamePlace
  <2>3. PICK m \in messages :
            /\ m.conv = d
            /\ TurnLog[d][i] = [run |-> m.run, status |-> runs[m.run]]
            /\ TurnLog'[d][i] = [run |-> m.run, status |-> runs'[m.run]]
    BY <2>1, <2>2, EntryStays
  <2> QED
    BY <1>5, <1>6, <1>7, <2>3
<1>10. TurnLog'[c][k + 1] = e
  <2>1. k + 1 \in 1 .. Len(TurnLog'[c])
    BY <1>8
  <2>2. PICK n \in messages' :
            /\ n.conv = c /\ n.seq = 2 * (k + 1) - 1
            /\ TurnLog'[c][k + 1] = [run |-> n.run, status |-> runs'[n.run]]
    BY <1>1, <2>1 DEF LogFollows
  <2>3. /\ UserMessage(r) \in messages' /\ UserMessage(r).conv = c
        /\ UserMessage(r).seq = latest[c] + 1 /\ UserMessage(r).run = r
    BY <1>2, <1>5 DEF UserMessage, NewMessage
  <2>4. n.seq = UserMessage(r).seq
    BY <1>8, <2>2, <2>3
  <2>5. n.run = r
    BY <2>2, <2>3, <2>4 DEF TurnInv, IndInv, TranscriptOrdered
  <2> QED
    BY <1>6, <2>2, <2>5
<1> HIDE DEF e, T
<1>11. PICK g \in [Conversations -> Seq(T)] : g = [TurnLog EXCEPT ![c] = Append(@, e)]
  <2>1. TurnLog[c] \in Seq(T)
    BY <1>3
  <2>2. Append(TurnLog[c], e) \in Seq(T)
    BY <1>3, <2>1
  <2> QED
    BY <1>3, <2>2
<1>12. ASSUME NEW d \in Conversations
       PROVE  TurnLog'[d] = g[d]
  <2>1. TurnLog[d] \in Seq(T) /\ TurnLog'[d] \in Seq(T) /\ g[d] \in Seq(T)
    BY <1>3
  <2>2. CASE d # c
    <3>1. g[d] = TurnLog[d]
      BY <1>3, <1>11, <2>2
    <3>2. /\ Len(TurnLog'[d]) = Len(g[d])
          /\ \A i \in 1 .. Len(TurnLog'[d]) : TurnLog'[d][i] = g[d][i]
      BY <1>8, <1>9, <2>2, <3>1
    <3> QED
      BY <2>1, <3>2, SeqEqual
  <2>3. CASE d = c
    <3>1. g[c] = Append(TurnLog[c], e) /\ TurnLog[c] \in Seq(T)
      BY <1>3, <1>11
    <3>2. /\ Len(g[c]) = k + 1 /\ g[c][k + 1] = e
          /\ \A i \in 1 .. k : g[c][i] = TurnLog[c][i]
      BY <1>3, <1>4, <3>1
    <3>3. \A i \in 1 .. k + 1 : i \in 1 .. k \/ i = k + 1
      OBVIOUS
    <3>4. \A i \in 1 .. k : TurnLog'[c][i] = TurnLog[c][i]
      BY <1>4, <1>9
    <3>5. /\ Len(TurnLog'[c]) = Len(g[c])
          /\ \A i \in 1 .. Len(TurnLog'[c]) : TurnLog'[c][i] = g[c][i]
      BY <1>8, <1>10, <3>2, <3>3, <3>4
    <3> QED
      BY <2>1, <2>3, <3>5, SeqEqual
  <2> QED
    BY <2>2, <2>3
<1>13. TurnLog' = g
  BY <1>3, <1>12
<1>14. \A i \in DOMAIN TurnLog[c] : TurnLog[c][i].run # r
                                    /\ TurnLog[c][i].status # "running"
  BY <1>3, <1>9
<1>15. Answered' = Answered
  BY DEF BeginTurn, Goto, Answered, TurnInv, IndInv, ControlInv, TypeOK
<1> QED
  BY <1>2, <1>11, <1>13, <1>14, <1>15 DEF Serial!Open, e


(* Odd numbers are those before a double.                                  *)
LEMMA OddPlace ==
  ASSUME NEW n \in Nat, NEW s \in 1 .. 2 * n, s % 2 = 1
  PROVE  \E k \in 1 .. n : s = 2 * k - 1
<1> DEFINE h == s \div 2
<1>1. s \in Nat /\ 1 <= s /\ s <= 2 * n
  OBVIOUS
<1>2. h \in Nat /\ s = 2 * h + 1
  BY <1>1
<1> HIDE DEF h
<1>3. h + 1 \in 1 .. n /\ s = 2 * (h + 1) - 1
  BY <1>1, <1>2
<1> QED
  BY <1>3

(* A run that exists has a question, whose place is an entry of the log:   *)
(* the last one, if it is running.                                         *)
LEMMA QuestionInLog ==
  ASSUME TurnInv, NEW r \in Requests, NEW c \in Conversations, c = ConvOf[r],
         runs[r] # "none"
  PROVE  \E u \in messages, k \in 1 .. Len(TurnLog[c]) :
            /\ u.conv = c /\ u.run = r /\ u.role = "user" /\ u.seq = 2 * k - 1
            /\ runs[r] = "running" => k = Len(TurnLog[c])
<1>1. PICK u \in messages : u.run = r /\ u.role = "user"
  BY DEF TurnInv, RunsInTranscript
<1>2. u.conv = c /\ (runs[r] = "running" => latest[c] <= u.seq + 1)
  BY <1>1 DEF TurnInv, RunsInTranscript
<1>3. u.seq % 2 = 1
  BY <1>1, <1>2 DEF TurnInv, IndInv, TranscriptOrdered
<1>4. u.seq \in 1 .. latest[c]
  <2>1. {m.seq : m \in {x \in messages : x.conv = c}} = 1 .. latest[c]
    BY DEF TurnInv, IndInv, TranscriptOrdered
  <2>2. u.seq \in {m.seq : m \in {x \in messages : x.conv = c}}
    BY <1>2
  <2> QED
    BY <2>1, <2>2, Zenon
<1>5. PICK n \in Nat : n = Len(TurnLog[c]) /\ latest[c] = 2 * n
  <2>1. TurnLog[c] \in Seq(Serial!Turn) /\ latest[c] = 2 * Len(TurnLog[c])
    BY TurnInvLog DEF LogFollows
  <2> QED
    BY <2>1
<1>6. PICK k \in 1 .. n : u.seq = 2 * k - 1
  BY <1>3, <1>4, <1>5, OddPlace
<1>7. runs[r] = "running" => k = n
  BY <1>2, <1>5, <1>6
<1> QED
  BY <1>1, <1>2, <1>5, <1>6, <1>7

(* The end of a turn gives its one entry of the log another status: the    *)
(* last one, if it was running.                                            *)
LEMMA EndChangesEntry ==
  ASSUME TurnInv, TurnInv', NEW r \in Requests, NEW outcome \in {"completed", "failed"},
         CompleteTurn(r) \/ MarkFailed(r), runs' = [runs EXCEPT ![r] = outcome]
  PROVE  \E k \in 1 .. Len(TurnLog[ConvOf[r]]) :
            /\ TurnLog \in [Conversations -> Seq(Serial!Turn)]
            /\ TurnLog[ConvOf[r]][k] = [run |-> r, status |-> runs[r]]
            /\ runs[r] = "running" => k = Len(TurnLog[ConvOf[r]])
            /\ TurnLog' = [TurnLog EXCEPT ![ConvOf[r]][k].status = outcome]
<1> DEFINE T == Serial!Turn
<1>1. LogFollows /\ LogFollows'
  BY TurnInvLog, PTL
<1>2. PICK c \in Conversations : c = ConvOf[r]
  BY TurnsAssumption
<1>3. runs[r] \in {"running", "completed"}
  BY DEF CompleteTurn, MarkFailed, TurnInv, IndInv, ControlInv, RunsFollowRequests,
         InGraph
<1>4. KeepsPlaces /\ latest' = latest
  BY EndKeepsPlaces DEF TurnInv, IndInv, ControlInv
<1>5. PICK u \in messages, k \in 1 .. Len(TurnLog[c]) :
            /\ u.conv = c /\ u.run = r /\ u.role = "user" /\ u.seq = 2 * k - 1
            /\ runs[r] = "running" => k = Len(TurnLog[c])
  <2>1. runs[r] # "none"
    BY <1>3
  <2> QED
    BY <1>2, <2>1, QuestionInLog
<1>6. /\ TurnLog \in [Conversations -> Seq(T)] /\ TurnLog' \in [Conversations -> Seq(T)]
      /\ \A d \in Conversations : Len(TurnLog[d]) \in Nat /\ latest[d] = 2 * Len(TurnLog[d])
      /\ \A d \in Conversations : latest[d] = 2 * Len(TurnLog'[d])
  <2>1. TurnLog \in [Conversations -> Seq(T)] /\ TurnLog' \in [Conversations -> Seq(T)]
    BY <1>1 DEF LogFollows, TurnLog
  <2>2. \A d \in Conversations : latest[d] = 2 * Len(TurnLog[d])
                                /\ latest[d] = 2 * Len(TurnLog'[d])
    BY <1>1, <1>4 DEF LogFollows
  <2> QED
    BY <2>1, <2>2
<1>7. \A d \in Conversations : Len(TurnLog'[d]) = Len(TurnLog[d])
  <2>1. ASSUME NEW d \in Conversations
        PROVE  Len(TurnLog'[d]) = Len(TurnLog[d])
    <3>1. Len(TurnLog'[d]) \in Nat /\ Len(TurnLog[d]) \in Nat
      BY <1>6
    <3>2. 2 * Len(TurnLog'[d]) = 2 * Len(TurnLog[d])
      BY <1>6
    <3> QED
      BY <3>1, <3>2
  <2> QED
    BY <2>1
<1>8. runs'[r] = outcome /\ \A o \in Requests : o # r => runs'[o] = runs[o]
  BY DEF TurnInv, IndInv, ControlInv, TypeOK
<1>9. ASSUME NEW d \in Conversations, NEW i \in 1 .. Len(TurnLog[d])
       PROVE  \/ TurnLog'[d][i] = TurnLog[d][i] /\ ~(d = c /\ i = k)
              \/ /\ d = c /\ i = k
                 /\ TurnLog[d][i] = [run |-> r, status |-> runs[r]]
                 /\ TurnLog'[d][i] = [run |-> r, status |-> outcome]
  <2>1. i \in 1 .. Len(TurnLog'[d])
    BY <1>7
  <2>2. \A m \in messages : \E n \in messages' : SamePlace(m, n)
    BY <1>4 DEF KeepsPlaces
  <2>3. PICK m \in messages :
            /\ m.conv = d /\ m.seq = 2 * i - 1 /\ m.role = "user"
            /\ TurnLog[d][i] = [run |-> m.run, status |-> runs[m.run]]
            /\ TurnLog'[d][i] = [run |-> m.run, status |-> runs'[m.run]]
    BY <2>1, <2>2, EntryStays
  <2>4. CASE d = c /\ i = k
    <3>1. m = u
      BY <1>5, <2>3, <2>4 DEF TurnInv, IndInv, TranscriptOrdered
    <3> QED
      BY <1>5, <1>8, <2>3, <2>4, <3>1
  <2>5. CASE ~(d = c /\ i = k)
    <3>1. m # u
      BY <1>5, <2>3, <2>5
    <3>2. m.run # r
      BY <1>5, <2>3, <3>1 DEF TurnInv, RunsInTranscript
    <3>3. m.run \in Requests
      BY DEF TurnInv, IndInv, ControlInv, TypeOK, Message
    <3> QED
      BY <1>8, <2>3, <2>5, <3>2, <3>3
  <2> QED
    BY <2>4, <2>5
<1>10. /\ TurnLog[c][k] = [run |-> r, status |-> runs[r]]
       /\ TurnLog'[c][k] = [run |-> r, status |-> outcome]
  BY <1>9
<1>11. PICK x \in T : x = [run |-> r, status |-> outcome]
  BY DEF Serial!Turn
<1> HIDE DEF T
<1>12. PICK g \in [Conversations -> Seq(T)] :
            g = [TurnLog EXCEPT ![c] = [TurnLog[c] EXCEPT ![k] = x]]
  <2>1. TurnLog[c] \in Seq(T)
    BY <1>6
  <2>2. [TurnLog[c] EXCEPT ![k] = x] \in Seq(T)
    BY <2>1, ExceptSeq
  <2> QED
    BY <1>6, <2>2
<1>13. ASSUME NEW d \in Conversations
       PROVE  TurnLog'[d] = g[d]
  <2>1. TurnLog[d] \in Seq(T) /\ TurnLog'[d] \in Seq(T) /\ g[d] \in Seq(T)
    BY <1>6
  <2>2. /\ Len(TurnLog'[d]) = Len(g[d])
        /\ \A i \in 1 .. Len(TurnLog'[d]) : TurnLog'[d][i] = g[d][i]
    <3>1. CASE d # c
      BY <1>6, <1>7, <1>9, <1>12, <3>1
    <3>2. CASE d = c
      <4>1. g[c] = [TurnLog[c] EXCEPT ![k] = x]
        BY <1>6, <1>12
      <4>2. /\ Len(g[c]) = Len(TurnLog[c])
            /\ \A i \in 1 .. Len(TurnLog[c]) :
                    g[c][i] = IF i = k THEN x ELSE TurnLog[c][i]
        BY <1>6, <4>1, ExceptSeq
      <4> QED
        BY <1>7, <1>9, <1>11, <3>2, <4>2
    <3> QED
      BY <3>1, <3>2
  <2> QED
    BY <2>1, <2>2, SeqEqual
<1>14. TurnLog' = g
  BY <1>6, <1>13
<1>15. x = [TurnLog[c][k] EXCEPT !.status = outcome]
  BY <1>10, <1>11
<1>16. TurnLog' = [TurnLog EXCEPT ![c][k].status = outcome]
  BY <1>12, <1>14, <1>15
<1> QED
  BY <1>2, <1>5, <1>6, <1>10, <1>16 DEF T

(* The end of a turn closes the open turn of the log, or, when the reload  *)
(* failed, takes a completed one back.                                     *)
LEMMA EndCloses ==
  ASSUME TurnInv, TurnInv', NEW r \in Requests, CompleteTurn(r) \/ MarkFailed(r)
  PROVE  \/ \E outcome \in {"completed", "failed"} : Serial!Close(r, outcome)
         \/ Serial!Retract(r)
<1> DEFINE c == ConvOf[r]
<1>1. Answered' = Answered /\ r \notin Answered
  BY DEF CompleteTurn, MarkFailed, Goto, Answered, TurnInv, IndInv, ControlInv, TypeOK
<1>2. PICK outcome \in {"completed", "failed"} :
            /\ runs' = [runs EXCEPT ![r] = outcome]
            /\ outcome = "completed" => runs[r] = "running"
            /\ runs[r] \in {"running", "completed"}
  BY DEF CompleteTurn, MarkFailed, TurnInv, IndInv, ControlInv, RunsFollowRequests,
         InGraph
<1>3. PICK k \in 1 .. Len(TurnLog[c]) :
            /\ TurnLog \in [Conversations -> Seq(Serial!Turn)]
            /\ TurnLog[c][k] = [run |-> r, status |-> runs[r]]
            /\ runs[r] = "running" => k = Len(TurnLog[c])
            /\ TurnLog' = [TurnLog EXCEPT ![c][k].status = outcome]
  BY <1>2, EndChangesEntry
<1>4. TurnLog[c] # <<>> /\ k \in DOMAIN TurnLog[c]
  <2>1. TurnLog[c] \in Seq(Serial!Turn)
    BY <1>3, TurnsAssumption
  <2> QED
    BY <2>1
<1>5. CASE runs[r] = "running"
  BY <1>1, <1>3, <1>4, <1>5 DEF Serial!Close
<1>6. CASE runs[r] = "completed"
  <2>1. outcome = "failed"
    BY <1>2, <1>6
  <2> QED
    BY <1>1, <1>3, <1>4, <1>6, <2>1 DEF Serial!Retract, Serial!CompletedAt
<1> QED
  BY <1>2, <1>5, <1>6

(* The return of the reloaded reply answers a completed turn of the log.   *)
LEMMA RefreshAnswers ==
  ASSUME TurnInv, NEW r \in Requests, Refresh(r)
  PROVE  Serial!Answer(r)
<1> DEFINE c == ConvOf[r]
<1>1. UNCHANGED <<latest, messages, runs>> /\ tpc' = [tpc EXCEPT ![r] = "completed"]
  BY DEF Refresh, tables, Goto
<1>2. runs[r] = "completed" /\ tpc[r] = "committed" /\ c \in Conversations
  BY TurnsAssumption
     DEF Refresh, TurnInv, IndInv, ControlInv, RunsFollowRequests
<1>3. TurnLog' = TurnLog
  BY <1>1 DEF TurnLog, RunAt
<1>4. Answered' = Answered \cup {r} /\ r \notin Answered
  BY <1>1, <1>2 DEF Answered, TurnInv, IndInv, ControlInv, TypeOK
<1>5. PICK u \in messages, i \in 1 .. Len(TurnLog[c]) :
            u.conv = c /\ u.run = r /\ u.seq = 2 * i - 1
  BY <1>2, QuestionInLog
<1>6. TurnLog[c][i] = [run |-> r, status |-> "completed"]
  <2>1. PICK m \in messages :
            /\ m.conv = c /\ m.seq = 2 * i - 1
            /\ TurnLog[c][i] = [run |-> m.run, status |-> runs[m.run]]
    BY <1>2, TurnInvLog DEF LogFollows
  <2>2. m = u
    BY <1>2, <1>5, <2>1 DEF TurnInv, IndInv, TranscriptOrdered
  <2> QED
    BY <1>2, <1>5, <2>1, <2>2
<1>7. i \in DOMAIN TurnLog[c]
  <2>1. TurnLog[c] \in Seq(Serial!Turn)
    BY <1>2, TurnInvLog DEF LogFollows
  <2> QED
    BY <2>1
<1> QED
  BY <1>3, <1>4, <1>6, <1>7 DEF Serial!Answer, Serial!CompletedAt

(* No other step answers a turn, or takes an answer back.                  *)
LEMMA OthersKeepAnswered ==
  ASSUME TypeOK, Next, \A r \in Requests : ~Refresh(r)
  PROVE  Answered' = Answered
<1>1. ASSUME NEW r \in Requests \cup Deleters, NEW stage,
             tpc' = [tpc EXCEPT ![r] = stage],
             r \in Requests => stage # "completed" /\ tpc[r] # "completed"
      PROVE  Answered' = Answered
  BY <1>1 DEF TypeOK, Answered
<1>2. ASSUME NEW r \in Requests,
             \/ Require(r) \/ NotFound(r) \/ Leave(r) \/ BeginTurn(r) \/ BusyTurn(r)
             \/ Invoke(r) \/ Reply(r) \/ ReadFinal(r) \/ CompleteTurn(r)
             \/ MarkFailed(r) \/ Raise(r) \/ Lose(r)
      PROVE  Answered' = Answered
  <2>1. tpc[r] # "completed"
    BY <1>2 DEF Require, NotFound, Leave, BeginTurn, BusyTurn, Invoke, Reply, ReadFinal,
                CompleteTurn, MarkFailed, Raise, Lose, InGraph
  <2>2. PICK stage : tpc' = [tpc EXCEPT ![r] = stage] /\ stage # "completed"
    BY <1>2 DEF Require, NotFound, Leave, BeginTurn, BusyTurn, Invoke, Reply, ReadFinal,
                CompleteTurn, MarkFailed, Raise, Lose, Goto
  <2> QED
    BY <1>1, <2>1, <2>2
<1>3. ASSUME NEW d \in Deleters, RequireDelete(d) \/ Delete(d)
      PROVE  Answered' = Answered
  <2>1. PICK stage : tpc' = [tpc EXCEPT ![d] = stage]
    BY <1>3 DEF RequireDelete, Delete, Goto
  <2>2. d \notin Requests
    BY TurnsAssumption
  <2> QED
    BY <1>1, <2>1, <2>2
<1>4. Quiet => Answered' = Answered
  BY DEF Quiet, turnVars, Answered
<1> QED
  BY <1>2, <1>3, <1>4 DEF Next, Execute

(* The service implements SerialTurns: whatever the interleaving of stale  *)
(* snapshots, losses, deletions and failing reloads, _begin_turn opens a   *)
(* turn behind turns that are all closed, _complete_turn and _mark_failed  *)
(* close the last one, and after a failing reload _mark_failed takes back  *)
(* its own completed turn, which no handler has answered, and no other.    *)
THEOREM TurnsAreSerial == Spec => ImplementsSerialTurns
<1>1. Init => Serial!Init
  <2> SUFFICES ASSUME Init
               PROVE  (\A c \in Conversations : TurnLog[c] = <<>>) /\ Answered = {}
    BY DEF Serial!Init, TurnLog
  <2>1. \A c \in Conversations : latest[c] = 0
    BY DEF Init
  <2>2. Answered = {}
    BY DEF Init, Answered
  <2> QED
    BY <2>1, <2>2 DEF TurnLog
<1>2. TurnInv /\ TurnInv' /\ [Next]_turnVars => [Serial!Next]_<<TurnLog, Answered>>
  <2> SUFFICES ASSUME TurnInv, TurnInv', [Next]_turnVars
               PROVE  [Serial!Next]_<<TurnLog, Answered>>
    OBVIOUS
  <2>1. ASSUME NEW r \in Requests, BeginTurn(r)
        PROVE  Serial!Next
    BY <2>1, BeginOpens DEF Serial!Next
  <2>2. ASSUME NEW r \in Requests, CompleteTurn(r) \/ MarkFailed(r)
        PROVE  Serial!Next
    BY <2>2, EndCloses DEF Serial!Next
  <2>3. ASSUME NEW r \in Requests, Refresh(r)
        PROVE  Serial!Next
    BY <2>3, RefreshAnswers DEF Serial!Next
  <2>4. ASSUME UNCHANGED <<latest, messages, runs>>
        PROVE  UNCHANGED TurnLog
    BY <2>4 DEF TurnLog, RunAt
  <2>5. CASE UNCHANGED turnVars
    BY <2>4, <2>5 DEF turnVars, Answered
  <2>6. CASE /\ Next
             /\ \A r \in Requests : ~(BeginTurn(r) \/ CompleteTurn(r)
                                      \/ MarkFailed(r) \/ Refresh(r))
    <3>1. UNCHANGED TurnLog
      BY <2>4, <2>6, OthersKeepTables
    <3>2. Answered' = Answered
      BY <2>6, OthersKeepAnswered DEF TurnInv, IndInv, ControlInv
    <3> QED
      BY <3>1, <3>2
  <2> QED
    BY <2>1, <2>2, <2>3, <2>5, <2>6
<1> QED
  BY <1>1, <1>2, TurnInvHolds, PTL DEF Spec, ImplementsSerialTurns, Serial!Spec

=============================================================================
