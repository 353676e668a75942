----------------------- MODULE ConversationPagesProofs -----------------------
(***************************************************************************)
(* Proofs about ConversationPages, for any conversations, calls and        *)
(* clients: types, deletions and their purges, the histories that clients  *)
(* read page by page, and the list of conversations that moves under them. *)
(***************************************************************************)
EXTENDS ConversationPages, FiniteSetTheorems, TLAPS

(* A call that has resolved its conversation found one of its caller's,    *)
(* which stays in the table.                                               *)
ResolvedOwn ==
    /\ \A x \in Calls : pc[x] \in {"required", "flushed"} =>
        ConvOf[x] \in rows /\ OwnerOf[ConvOf[x]] = CallerOf[x]
    /\ \A w \in Histories : pc[w] = "required" =>
        OwnerOf[ConvOf[w]] = CallerOf[w]

(* Transcripts grow by whole turns.                                        *)
WholeTurns == \A c \in Conversations : latest[c] % 2 = 0

(* A client that reads a history has read all that is before its offset;   *)
(* when it has ended, all there was then.                                  *)
Reading(w) ==
    /\ pc[w] # "done" =>
        seen[w] = 1 .. offset[w] /\ offset[w] <= latest[ConvOf[w]]
    /\ pc[w] = "done" =>
        \E n \in Nat : /\ n % 2 = 0 /\ n <= latest[ConvOf[w]]
                       /\ seen[w] = 1 .. n /\ first[w] \subseteq 1 .. n
    /\ first[w] \subseteq 1 .. latest[ConvOf[w]]
    /\ repeats[w] = 0
    /\ seen[w] # {} => OwnerOf[ConvOf[w]] = CallerOf[w]

HistoriesRead == \A w \in Histories : Reading(w)

PagesInv ==
    /\ TypeOK
    /\ ResolvedOwn
    /\ WholeTurns
    /\ PurgeScheduled
    /\ HistoriesRead

-----------------------------------------------------------------------------
(* Pages.                                                                  *)

(* A page of a list of rows is a finite set of them.                       *)
LEMMA PageFinite ==
    ASSUME NEW positions, IsFiniteSet(DOMAIN positions),
           NEW from, NEW limit, NEW S
    PROVE  /\ Page(positions, from, limit) \subseteq DOMAIN positions
           /\ Cardinality(Page(positions, from, limit) \cap S) \in Nat
<1>1. Page(positions, from, limit) \cap S \subseteq DOMAIN positions
  BY DEF Page
<1>2. IsFiniteSet(Page(positions, from, limit) \cap S)
  BY <1>1, FS_Subset
<1> QED
  BY <1>2, FS_CardinalityType DEF Page

(* A client keeps its types when it is given a page.                       *)
LEMMA DeliverTypes ==
    ASSUME TypeOK, PagesAssumption, NEW w \in Walks, NEW positions,
           DOMAIN positions \subseteq Nat, IsFiniteSet(DOMAIN positions),
           Deliver(w, positions)
    PROVE  /\ seen' \in [Walks -> SUBSET Nat]
           /\ repeats' \in [Walks -> Nat]
           /\ first' \in [Walks -> SUBSET Nat]
           /\ offset' \in [Walks -> Nat]
           /\ pc' \in [Calls \cup Walks ->
                {"idle", "required", "flushed", "done", "not_found", "lost",
                 "paging"}]
<1> DEFINE page == Page(positions, offset[w], Limit[w])
<1>1. page \subseteq Nat /\ Cardinality(page \cap seen[w]) \in Nat
  BY PageFinite
<1>2. /\ Limit[w] \in Nat /\ offset[w] \in Nat /\ seen[w] \subseteq Nat
      /\ repeats[w] \in Nat
  <2>1. Limit[w] \in 1 .. 100
    BY DEF PagesAssumption
  <2> QED
    BY <2>1 DEF TypeOK
<1>3. /\ seen' = [seen EXCEPT ![w] = @ \cup page]
      /\ repeats' = [repeats EXCEPT ![w] = @ + Cardinality(page \cap seen[w])]
      /\ \/ first' = [first EXCEPT ![w] = DOMAIN positions]
         \/ first' = first
      /\ \/ /\ pc' = [pc EXCEPT ![w] = "paging"]
            /\ offset' = [offset EXCEPT ![w] = @ + Limit[w]]
         \/ pc' = [pc EXCEPT ![w] = "done"] /\ offset' = offset
  BY DEF Deliver, Goto, NextOffset
<1> HIDE DEF page
<1>4. seen' \in [Walks -> SUBSET Nat] /\ repeats' \in [Walks -> Nat]
  <2>1. seen \in [Walks -> SUBSET Nat] /\ repeats \in [Walks -> Nat]
    BY DEF TypeOK
  <2>2. seen[w] \cup page \in SUBSET Nat
    BY <1>1, <1>2
  <2>3. repeats[w] + Cardinality(page \cap seen[w]) \in Nat
    BY <1>1, <1>2
  <2>4. seen' \in [Walks -> SUBSET Nat]
    BY <1>3, <2>1, <2>2
  <2> QED
    BY <1>3, <2>1, <2>3, <2>4
<1>5. first' \in [Walks -> SUBSET Nat]
  BY <1>3 DEF TypeOK
<1>6. /\ offset' \in [Walks -> Nat]
      /\ pc' \in [Calls \cup Walks ->
            {"idle", "required", "flushed", "done", "not_found", "lost",
             "paging"}]
  BY <1>2, <1>3 DEF TypeOK
<1> QED
  BY <1>4, <1>5, <1>6

(* The history is given from the offset on, and is read to its end or to   *)
(* the next offset.                                                        *)
LEMMA TranscriptPage ==
    ASSUME NEW c, latest[c] \in Nat, NEW from \in Nat, from <= latest[c],
           NEW limit \in Nat \ {0}
    PROVE  /\ DOMAIN Transcript(c) = 1 .. latest[c]
           /\ Page(Transcript(c), from, limit) =
                {x \in 1 .. latest[c] : x \in from + 1 .. from + limit}
           /\ HasMore(Transcript(c), from, limit) <=> from + limit < latest[c]
<1>1. DOMAIN Transcript(c) = 1 .. latest[c]
      /\ \A x \in 1 .. latest[c] : Transcript(c)[x] = x - 1
  BY DEF Transcript
<1>2. Page(Transcript(c), from, limit) =
        {x \in 1 .. latest[c] : x \in from + 1 .. from + limit}
  BY <1>1 DEF Page
<1>3. ASSUME from + limit < latest[c] PROVE HasMore(Transcript(c), from, limit)
  <2>1. from + limit + 1 \in 1 .. latest[c]
    BY <1>3
  <2> QED
    BY <1>1, <2>1 DEF HasMore
<1>4. ASSUME HasMore(Transcript(c), from, limit) PROVE from + limit < latest[c]
  BY <1>1, <1>4 DEF HasMore
<1> QED
  BY <1>1, <1>2, <1>3, <1>4

-----------------------------------------------------------------------------
(* The invariant.                                                          *)

LEMMA PagesInit == PagesAssumption /\ Init => PagesInv
<1> SUFFICES ASSUME PagesAssumption, Init PROVE PagesInv
  OBVIOUS
<1>1. TypeOK
  BY DEF Init, TypeOK, PagesAssumption
<1>2. ResolvedOwn /\ WholeTurns /\ PurgeScheduled
  BY DEF Init, ResolvedOwn, WholeTurns, PurgeScheduled, PagesAssumption, Calls, Walks
<1>3. HistoriesRead
  BY DEF Init, HistoriesRead, Reading, PagesAssumption, Walks
<1> QED
  BY <1>1, <1>2, <1>3 DEF PagesInv

(* Counters of changes are numbers.                                        *)
LEMMA CountTypes ==
    ASSUME NEW counter \in [Lists -> Nat], NEW c
    PROVE  Count(counter, c) \in [Lists -> Nat]
BY DEF Count

(* TypeOK is preserved by each handler.                                    *)
LEMMA TypeStep ==
    ASSUME PagesAssumption, PagesInv, [Next]_vars
    PROVE  TypeOK'
<1> USE DEF PagesInv
<1>0. IsFiniteSet(Conversations) /\ Conversations \subseteq Nat
  BY DEF PagesAssumption
<1>1. CASE \E c \in Conversations : Create(c)
  BY <1>1, CountTypes DEF Create, TypeOK, changes, walkVars
<1>2. CASE \E x \in Calls : Require(x) \/ GiveUp(x)
  BY <1>2 DEF Require, GiveUp, Goto, TypeOK, conversationVars, changes, walkVars
<1>3. CASE \E t \in Turns : AppendMessages(t)
  BY <1>3 DEF AppendMessages, Goto, TypeOK, Calls, conversationVars, changes, walkVars
<1>4. CASE \E t \in Turns : CommitTurn(t)
  <2> PICK t \in Turns : CommitTurn(t)
    BY <1>4
  <2>1. ConvOf[t] \in Conversations /\ t \in Calls \cup Walks
    BY DEF PagesAssumption, Calls
  <2>2. lastAt' \in [Conversations -> Nat] /\ latest' \in [Conversations -> Nat]
    <3>1. /\ stamp[t] \in Nat
          /\ lastAt \in [Conversations -> Nat]
          /\ latest \in [Conversations -> Nat]
      BY DEF TypeOK
    <3>2. /\ lastAt' = [lastAt EXCEPT ![ConvOf[t]] = stamp[t]]
          /\ latest' = [latest EXCEPT ![ConvOf[t]] = latest[ConvOf[t]] + 2]
      BY DEF CommitTurn
    <3>3. lastAt' \in [Conversations -> Nat]
      BY <3>1, <3>2
    <3>4. latest' \in [Conversations -> Nat]
      <4>1. \A n \in Nat : n + 2 \in Nat
        OBVIOUS
      <4>2. latest[ConvOf[t]] \in Nat
        BY <2>1, <3>1
      <4> QED
        BY <3>1, <3>2, <4>1, <4>2
    <3> QED
      BY <3>3, <3>4
  <2>3. moved' \in [Lists -> SUBSET Conversations]
    BY <2>1 DEF CommitTurn, TypeOK
  <2>4. shifts' \in [Lists -> Nat]
    BY CountTypes DEF CommitTurn, TypeOK
  <2>5. pc' \in [Calls \cup Walks ->
            {"idle", "required", "flushed", "done", "not_found", "lost",
             "paging"}]
    BY <2>1 DEF CommitTurn, Goto, TypeOK
  <2> QED
    BY <2>2, <2>3, <2>4, <2>5 DEF CommitTurn, TypeOK, walkVars
<1>5. CASE \E d \in Deletions : Delete(d)
  <2> PICK d \in Deletions : Delete(d)
    BY <1>5
  <2>1. ConvOf[d] \in rows /\ d \in Calls \cup Walks
    BY DEF PagesAssumption, Calls, ResolvedOwn, Delete
  <2>2. removals' \in [Lists -> Nat]
    BY CountTypes DEF Delete, TypeOK
  <2> QED
    BY <2>1, <2>2 DEF Delete, Goto, TypeOK, walkVars
<1>6. CASE \E w \in Lists : ListPage(w)
  <2> PICK w \in Lists : ListPage(w)
    BY <1>6
  <2> DEFINE positions == Listing(CallerOf[w])
  <2>1. DOMAIN positions \subseteq Conversations
    BY DEF Listing, Active, TypeOK
  <2>2. IsFiniteSet(DOMAIN positions) /\ DOMAIN positions \subseteq Nat
    BY <1>0, <2>1, FS_Subset
  <2>3. w \in Walks /\ Deliver(w, positions)
    BY DEF ListPage, Walks
  <2> HIDE DEF positions
  <2>4. /\ seen' \in [Walks -> SUBSET Nat]
        /\ repeats' \in [Walks -> Nat]
        /\ first' \in [Walks -> SUBSET Nat]
        /\ offset' \in [Walks -> Nat]
        /\ pc' \in [Calls \cup Walks ->
             {"idle", "required", "flushed", "done", "not_found", "lost",
              "paging"}]
    BY <2>2, <2>3, DeliverTypes
  <2>5. moved' \in [Lists -> SUBSET Conversations]
    BY DEF ListPage, TypeOK
  <2> QED
    BY <2>4, <2>5 DEF ListPage, TypeOK, conversationVars
<1>7. CASE \E w \in Histories : RequireHistory(w)
  BY <1>7 DEF RequireHistory, Goto, TypeOK, Walks, conversationVars, changes, walkVars
<1>8. CASE \E w \in Histories : HistoryPage(w)
  <2> PICK w \in Histories : HistoryPage(w)
    BY <1>8
  <2> DEFINE positions == Transcript(ConvOf[w])
  <2>1. ConvOf[w] \in Conversations
    BY DEF PagesAssumption
  <2>2. DOMAIN positions = 1 .. latest[ConvOf[w]] /\ latest[ConvOf[w]] \in Nat
    BY <2>1 DEF Transcript, TypeOK
  <2>3. IsFiniteSet(DOMAIN positions) /\ DOMAIN positions \subseteq Nat
    BY <2>2, FS_Interval
  <2>4. w \in Walks /\ Deliver(w, positions)
    BY DEF HistoryPage, Walks
  <2> HIDE DEF positions
  <2>5. /\ seen' \in [Walks -> SUBSET Nat]
        /\ repeats' \in [Walks -> Nat]
        /\ first' \in [Walks -> SUBSET Nat]
        /\ offset' \in [Walks -> Nat]
        /\ pc' \in [Calls \cup Walks ->
             {"idle", "required", "flushed", "done", "not_found", "lost",
              "paging"}]
    BY <2>3, <2>4, DeliverTypes
  <2> QED
    BY <2>5 DEF HistoryPage, TypeOK, conversationVars, changes
<1>9. CASE UNCHANGED vars
  BY <1>9 DEF vars, TypeOK, conversationVars, changes, walkVars
<1> QED
  BY <1>1, <1>2, <1>3, <1>4, <1>5, <1>6, <1>7, <1>8, <1>9 DEF Next

(* A call or client is only sent on with a conversation of its own.        *)
LEMMA ResolvedStep ==
    ASSUME PagesAssumption, PagesInv, [Next]_vars
    PROVE  ResolvedOwn'
<1> USE DEF PagesInv
<1>0. /\ Calls \cap Walks = {} /\ Lists \cap Histories = {}
      /\ Turns \subseteq Calls /\ Deletions \subseteq Calls
      /\ Lists \subseteq Walks /\ Histories \subseteq Walks
  BY DEF PagesAssumption, Calls, Walks
<1>1. CASE \E c \in Conversations : Create(c)
  BY <1>1 DEF Create, ResolvedOwn
<1>2. CASE \E x \in Calls : Require(x)
  BY <1>0, <1>2 DEF Require, Required, Active, Goto, TypeOK, ResolvedOwn, conversationVars
<1>3. CASE \E x \in Calls : GiveUp(x)
  BY <1>0, <1>3 DEF GiveUp, Goto, TypeOK, ResolvedOwn, conversationVars
<1>4. CASE \E t \in Turns : AppendMessages(t)
  BY <1>0, <1>4 DEF AppendMessages, Goto, TypeOK, ResolvedOwn, conversationVars
<1>5. CASE \E t \in Turns : CommitTurn(t)
  BY <1>0, <1>5 DEF CommitTurn, Goto, TypeOK, ResolvedOwn
<1>6. CASE \E d \in Deletions : Delete(d)
  BY <1>0, <1>6 DEF Delete, Goto, TypeOK, ResolvedOwn
<1>7. CASE \E w \in Lists : ListPage(w)
  <2> PICK w \in Lists : ListPage(w)
    BY <1>7
  <2>1. /\ rows' = rows
        /\ \/ pc' = [pc EXCEPT ![w] = "paging"]
           \/ pc' = [pc EXCEPT ![w] = "done"]
    BY DEF ListPage, Deliver, Goto, conversationVars
  <2> QED
    BY <1>0, <2>1 DEF TypeOK, ResolvedOwn
<1>8. CASE \E w \in Histories : RequireHistory(w)
  BY <1>0, <1>8 DEF RequireHistory, Required, Active, Goto, TypeOK, ResolvedOwn, conversationVars
<1>9. CASE \E w \in Histories : HistoryPage(w)
  <2> PICK w \in Histories : HistoryPage(w)
    BY <1>9
  <2>1. /\ rows' = rows
        /\ \/ pc' = [pc EXCEPT ![w] = "paging"]
           \/ pc' = [pc EXCEPT ![w] = "done"]
    BY DEF HistoryPage, Deliver, Goto, conversationVars
  <2> QED
    BY <1>0, <2>1 DEF TypeOK, ResolvedOwn
<1>10. CASE UNCHANGED vars
  BY <1>10 DEF vars, conversationVars, ResolvedOwn
<1> QED
  BY <1>1, <1>2, <1>3, <1>4, <1>5, <1>6, <1>7, <1>8, <1>9, <1>10 DEF Next

(* Of the conversations' columns, a turn changes two and a deletion three. *)
LEMMA ColumnsOf ==
    ASSUME [Next]_vars
    PROVE  \/ /\ UNCHANGED <<latest, deleted, purgeAt, purges>>
              /\ rows \subseteq rows'
           \/ \E t \in Turns : CommitTurn(t)
           \/ \E d \in Deletions : Delete(d)
BY DEF Next, vars, conversationVars, Create, Require, GiveUp, AppendMessages,
       ListPage, RequireHistory, HistoryPage

LEMMA WholeTurnsStep ==
    ASSUME PagesAssumption, PagesInv, [Next]_vars
    PROVE  WholeTurns'
<1> USE DEF PagesInv
<1>1. CASE UNCHANGED latest
  BY <1>1 DEF WholeTurns
<1>2. CASE \E t \in Turns : CommitTurn(t)
  <2> PICK t \in Turns : CommitTurn(t)
    BY <1>2
  <2>1. latest' = [latest EXCEPT ![ConvOf[t]] = latest[ConvOf[t]] + 2]
    BY DEF CommitTurn
  <2>2. \A n \in Nat : n % 2 = 0 => (n + 2) % 2 = 0
    OBVIOUS
  <2> QED
    BY <2>1, <2>2 DEF WholeTurns, TypeOK
<1>3. CASE \E d \in Deletions : Delete(d)
  BY <1>1, <1>3 DEF Delete
<1> QED
  BY <1>1, <1>2, <1>3, ColumnsOf

LEMMA PurgeStep ==
    ASSUME PagesAssumption, PagesInv, [Next]_vars
    PROVE  PurgeScheduled'
<1> USE DEF PagesInv
<1>1. CASE UNCHANGED <<deleted, purgeAt, purges>>
  BY <1>1 DEF PurgeScheduled
<1>2. CASE \E t \in Turns : CommitTurn(t)
  BY <1>1, <1>2 DEF CommitTurn
<1>3. CASE \E d \in Deletions : Delete(d)
  <2> PICK d \in Deletions : Delete(d)
    BY <1>3
  <2>1. /\ ConvOf[d] \in Conversations
        /\ CallerOf[d] = OwnerOf[ConvOf[d]]
    BY DEF Delete, ResolvedOwn, Calls, PagesAssumption
  <2>2. /\ deleted' = deleted \cup {ConvOf[d]}
        /\ purgeAt' = [purgeAt EXCEPT ![ConvOf[d]] = d]
        /\ purges' = purges \cup {d}
    BY DEF Delete
  <2>3. ASSUME NEW c \in Conversations
        PROVE  /\ c \in deleted' <=> \E e \in purges' : ConvOf[e] = c
               /\ c \in deleted' => purgeAt'[c] \in purges' /\ ConvOf[purgeAt'[c]] = c
    BY <2>2 DEF PurgeScheduled, TypeOK
  <2>4. \A e \in purges' : CallerOf[e] = OwnerOf[ConvOf[e]]
    BY <2>1, <2>2 DEF PurgeScheduled
  <2> QED
    BY <2>3, <2>4 DEF PurgeScheduled
<1> QED
  BY <1>1, <1>2, <1>3, ColumnsOf

(* The reading of a history goes on if its rows stay or turns are added.   *)
LEMMA ReadingStays ==
    ASSUME TypeOK, PagesAssumption, NEW w \in Histories, Reading(w),
           latest'[ConvOf[w]] \in Nat, latest[ConvOf[w]] <= latest'[ConvOf[w]],
           UNCHANGED <<offset[w], seen[w], repeats[w], first[w]>>,
           pc'[w] = "done" <=> pc[w] = "done"
    PROVE  Reading(w)'
<1>1. /\ latest[ConvOf[w]] \in Nat /\ offset[w] \in Nat
  BY DEF TypeOK, PagesAssumption, Walks
<1>2. 1 .. latest[ConvOf[w]] \subseteq 1 .. latest'[ConvOf[w]]
  BY <1>1
<1>3. first'[w] \subseteq 1 .. latest'[ConvOf[w]]
  BY <1>2 DEF Reading
<1>4. CASE pc[w] = "done"
  <2> PICK n \in Nat : /\ n % 2 = 0 /\ n <= latest[ConvOf[w]]
                       /\ seen[w] = 1 .. n /\ first[w] \subseteq 1 .. n
    BY <1>4 DEF Reading
  <2>1. n <= latest'[ConvOf[w]]
    BY <1>1
  <2> QED
    BY <1>3, <1>4, <2>1 DEF Reading
<1>5. CASE pc[w] # "done"
  <2>1. offset[w] <= latest'[ConvOf[w]]
    BY <1>1, <1>5 DEF Reading
  <2> QED
    BY <1>3, <1>5, <2>1 DEF Reading
<1> QED
  BY <1>4, <1>5

(* A page of a history: the messages that follow those read before.        *)
LEMMA ReadingGoesOn ==
    ASSUME PagesAssumption, PagesInv, NEW w \in Histories, HistoryPage(w)
    PROVE  Reading(w)'
<1> DEFINE c == ConvOf[w]
           page == Page(Transcript(c), offset[w], Limit[w])
<1> USE DEF PagesInv
<1>1. /\ c \in Conversations /\ w \in Walks
      /\ latest[c] \in Nat /\ offset[w] \in Nat /\ latest[c] % 2 = 0
  BY DEF TypeOK, PagesAssumption, Walks, WholeTurns
<1>2. Limit[w] \in Nat \ {0}
  <2>1. Limit[w] \in 1 .. 100
    BY <1>1 DEF PagesAssumption
  <2> QED
    BY <2>1
<1>3. /\ seen[w] = 1 .. offset[w] /\ offset[w] <= latest[c]
      /\ first[w] \subseteq 1 .. latest[c] /\ repeats[w] = 0
      /\ pc[w] = "required" /\ OwnerOf[c] = CallerOf[w]
  BY DEF HistoryPage, HistoriesRead, Reading, ResolvedOwn
<1>4. /\ DOMAIN Transcript(c) = 1 .. latest[c]
      /\ page = {x \in 1 .. latest[c] : x \in offset[w] + 1 .. offset[w] + Limit[w]}
      /\ HasMore(Transcript(c), offset[w], Limit[w]) <=>
            offset[w] + Limit[w] < latest[c]
  BY <1>1, <1>2, <1>3, TranscriptPage
<1>5. page \cap seen[w] = {}
  BY <1>1, <1>2, <1>3, <1>4
<1>6. Cardinality(page \cap seen[w]) = 0
  BY <1>5, FS_EmptySet
<1>7. /\ seen'[w] = seen[w] \cup page
      /\ repeats'[w] = repeats[w] + Cardinality(page \cap seen[w])
      /\ first'[w] = DOMAIN Transcript(c) \/ first'[w] = first[w]
      /\ latest' = latest
      /\ \/ /\ HasMore(Transcript(c), offset[w], Limit[w])
            /\ pc'[w] = "paging" /\ offset'[w] = offset[w] + Limit[w]
         \/ /\ ~HasMore(Transcript(c), offset[w], Limit[w])
            /\ pc'[w] = "done" /\ offset'[w] = offset[w]
  BY <1>1 DEF HistoryPage, Deliver, NextOffset, Goto, TypeOK, conversationVars
<1> HIDE DEF page
<1>8. repeats'[w] = 0 /\ first'[w] \subseteq 1 .. latest'[c]
  <2>1. repeats'[w] = 0 + 0
    BY <1>3, <1>6, <1>7
  <2>2. first'[w] \subseteq 1 .. latest'[c]
    BY <1>3, <1>4, <1>7
  <2> QED
    BY <2>1, <2>2
<1>9. CASE HasMore(Transcript(c), offset[w], Limit[w])
  <2>1. /\ pc'[w] = "paging" /\ offset'[w] = offset[w] + Limit[w]
        /\ offset[w] + Limit[w] < latest[c]
    BY <1>4, <1>7, <1>9
  <2>2. seen'[w] = 1 .. offset[w] + Limit[w]
    BY <1>1, <1>2, <1>3, <1>4, <1>7, <2>1
  <2> QED
    BY <1>1, <1>2, <1>3, <1>7, <1>8, <2>1, <2>2 DEF Reading
<1>10. CASE ~HasMore(Transcript(c), offset[w], Limit[w])
  <2>1. pc'[w] = "done" /\ latest[c] <= offset[w] + Limit[w]
    BY <1>1, <1>2, <1>4, <1>7, <1>10
  <2>2. seen'[w] = 1 .. latest[c]
    BY <1>1, <1>2, <1>3, <1>4, <1>7, <2>1
  <2> QED
    BY <1>1, <1>3, <1>7, <1>8, <2>1, <2>2 DEF Reading
<1> QED
  BY <1>9, <1>10

LEMMA HistoriesStep ==
    ASSUME PagesAssumption, PagesInv, [Next]_vars
    PROVE  HistoriesRead'
<1> SUFFICES ASSUME NEW w \in Histories PROVE Reading(w)'
  BY DEF HistoriesRead
<1> USE DEF PagesInv
<1>0. /\ Reading(w) /\ w \in Walks /\ w \notin Calls /\ w \notin Lists
      /\ ConvOf[w] \in Conversations /\ latest[ConvOf[w]] \in Nat
  BY DEF HistoriesRead, PagesAssumption, Walks, TypeOK
<1>1. CASE HistoryPage(w)
  BY <1>1, ReadingGoesOn
<1>2. CASE ~HistoryPage(w)
  <2>1. latest'[ConvOf[w]] \in Nat /\ latest[ConvOf[w]] <= latest'[ConvOf[w]]
    <3>1. CASE UNCHANGED latest
      BY <1>0, <3>1
    <3>2. CASE \E t \in Turns : CommitTurn(t)
      <4> PICK t \in Turns : CommitTurn(t)
        BY <3>2
      <4>1. latest' = [latest EXCEPT ![ConvOf[t]] = latest[ConvOf[t]] + 2]
        BY DEF CommitTurn
      <4> QED
        BY <1>0, <4>1 DEF TypeOK
    <3>3. CASE \E d \in Deletions : Delete(d)
      BY <3>1, <3>3 DEF Delete
    <3> QED
      BY <3>1, <3>2, <3>3, ColumnsOf
  <2>2. /\ UNCHANGED <<offset[w], seen[w], repeats[w], first[w]>>
        /\ pc'[w] = "done" <=> pc[w] = "done"
    <3>1. CASE UNCHANGED walkVars /\ UNCHANGED pc
      BY <3>1 DEF walkVars
    <3>2. CASE \E x \in Calls : /\ UNCHANGED walkVars
                                 /\ \E stage : Goto(x, stage)
      BY <1>0, <3>2 DEF walkVars, Goto, TypeOK
    <3>3. CASE \E v \in Lists : ListPage(v)
      BY <1>0, <3>3 DEF ListPage, Deliver, Goto, TypeOK
    <3>4. CASE \E v \in Histories : RequireHistory(v)
      BY <1>0, <3>4 DEF RequireHistory, Goto, TypeOK, walkVars
    <3>5. CASE \E v \in Histories : HistoryPage(v)
      <4> PICK v \in Histories : HistoryPage(v)
        BY <3>5
      <4>1. v # w /\ Deliver(v, Transcript(ConvOf[v]))
        BY <1>2 DEF HistoryPage
      <4> QED
        BY <1>0, <4>1 DEF Deliver, Goto, TypeOK
    <3>6. \/ UNCHANGED walkVars /\ UNCHANGED pc
          \/ \E x \in Calls : UNCHANGED walkVars /\ \E stage : Goto(x, stage)
          \/ \E v \in Lists : ListPage(v)
          \/ \E v \in Histories : RequireHistory(v) \/ HistoryPage(v)
      BY DEF Next, vars, Create, Require, AppendMessages, CommitTurn, GiveUp,
             Delete, Calls
    <3> QED
      BY <3>1, <3>2, <3>3, <3>4, <3>5, <3>6
  <2> QED
    BY <1>0, <2>1, <2>2, ReadingStays
<1> QED
  BY <1>1, <1>2

-----------------------------------------------------------------------------
(* The theorems.                                                           *)

LEMMA PagesInvHolds == Spec => []PagesInv
<1>1. Init => PagesInv
  BY PagesInit, PagesAssumption
<1>2. PagesInv /\ [Next]_vars => PagesInv'
  BY PagesAssumption, TypeStep, ResolvedStep, WholeTurnsStep, PurgeStep,
     HistoriesStep DEF PagesInv
<1> QED
  BY <1>1, <1>2, PTL DEF Spec

(* The tables, the calls and the clients keep their types (base.py,        *)
(* services/crud/conversations.py).                                        *)
THEOREM TypeCorrect == Spec => []TypeOK
BY PagesInvHolds, PTL DEF PagesInv

(* A conversation is deleted exactly if its purge is scheduled, whatever   *)
(* deletions and turns overlap (services/crud/conversations.py:72-92).     *)
THEOREM DeletionsScheduled == Spec => []PurgeScheduled
BY PagesInvHolds, PTL DEF PagesInv

(* A history that is read by next_offset comes whole, in order, once and   *)
(* only to its owner, although turns append to it (base.py:101-115).       *)
THEOREM HistoriesWhole == Spec => []HistoryWalk
<1>1. PagesInv => HistoryWalk
  <2> SUFFICES ASSUME PagesInv, NEW w \in Histories
               PROVE  /\ seen[w] = 1 .. Cardinality(seen[w])
                      /\ repeats[w] = 0
                      /\ pc[w] = "paging" => Cardinality(seen[w]) = offset[w]
                      /\ pc[w] = "done" => /\ first[w] \subseteq seen[w]
                                           /\ Cardinality(seen[w]) % 2 = 0
                      /\ seen[w] # {} => OwnerOf[ConvOf[w]] = CallerOf[w]
    BY DEF HistoryWalk
  <2>1. Reading(w) /\ offset[w] \in Nat
    BY DEF PagesInv, HistoriesRead, TypeOK, Walks
  <2>2. \A n \in Nat : Cardinality(1 .. n) = n
    BY FS_Interval
  <2> QED
    BY <2>1, <2>2 DEF Reading
<1> QED
  BY <1>1, PagesInvHolds, PTL

-----------------------------------------------------------------------------
(* The list of conversations: places of rows.                              *)

(* Conversation c comes before d, with last_message_at as in at.           *)
Before(at, c, d) == at[c] > at[d] \/ (at[c] = at[d] /\ c > d)
Above(S, at, c) == {d \in S : Before(at, d, c)}
Place(S, at, c) == Cardinality(Above(S, at, c))

(* The rows of X that are listed from offset o on, and those before it.    *)
Onward(S, at, X, o) == {c \in S \cap X : Place(S, at, c) >= o}
Passed(S, at, X, o) == {c \in S \cap X : Place(S, at, c) < o}

(* A set with at most one more element has a cardinality at most one more. *)
LEMMA OneMore ==
    ASSUME NEW S, NEW T, IsFiniteSet(S),
           \A x, y \in T \ S : x = y
    PROVE  IsFiniteSet(T) /\ Cardinality(T) <= Cardinality(S) + 1
<1>1. CASE T \subseteq S
  BY <1>1, FS_Subset, FS_CardinalityType
<1>2. CASE ~(T \subseteq S)
  <2> PICK x \in T : x \notin S
    BY <1>2
  <2>1. T \subseteq S \cup {x}
    OBVIOUS
  <2>2. IsFiniteSet(S \cup {x}) /\ Cardinality(S \cup {x}) = Cardinality(S) + 1
    BY FS_AddElement
  <2> QED
    BY <2>1, <2>2, FS_Subset, FS_CardinalityType
<1> QED
  BY <1>1, <1>2

LEMMA AddOne ==
    ASSUME NEW S, IsFiniteSet(S), NEW x
    PROVE  /\ IsFiniteSet(S \cup {x})
           /\ Cardinality(S \cup {x}) <= Cardinality(S) + 1
           /\ Cardinality(S \cup {x}) \in Nat
<1>1. \A a, b \in S \cup {x} : a \notin S /\ b \notin S => a = b
  OBVIOUS
<1> QED
  BY <1>1, OneMore, FS_CardinalityType

(* Places are numbers, and rows in order have places in order.             *)
LEMMA PlaceType ==
    ASSUME NEW S, IsFiniteSet(S), NEW at, NEW c
    PROVE  /\ IsFiniteSet(Above(S, at, c)) /\ Above(S, at, c) \subseteq S
           /\ Place(S, at, c) \in Nat
<1>1. Above(S, at, c) \subseteq S
  BY DEF Above
<1> QED
  BY <1>1, FS_Subset, FS_CardinalityType DEF Place

LEMMA PlaceGrows ==
    ASSUME NEW S \in SUBSET Nat, IsFiniteSet(S), NEW at, \A e \in S : at[e] \in Nat,
           NEW c \in S, NEW d \in S, Before(at, c, d)
    PROVE  Place(S, at, c) < Place(S, at, d)
<1>1. c \notin Above(S, at, c) /\ at[c] \in Nat /\ at[d] \in Nat
  BY DEF Above, Before
<1>2. Above(S, at, c) \cup {c} \subseteq Above(S, at, d)
  <2>1. ASSUME NEW e \in S, Before(at, e, c) PROVE Before(at, e, d)
    BY <1>1, <2>1 DEF Before
  <2> QED
    BY <2>1 DEF Above
<1>3. Cardinality(Above(S, at, c) \cup {c}) = Place(S, at, c) + 1
  BY <1>1, PlaceType, FS_AddElement DEF Place
<1>4. Cardinality(Above(S, at, c) \cup {c}) <= Place(S, at, d)
  BY <1>2, PlaceType, FS_Subset DEF Place
<1> QED
  BY <1>3, <1>4, PlaceType

(* No two rows have one place.                                             *)
LEMMA PlacesDiffer ==
    ASSUME NEW S \in SUBSET Nat, IsFiniteSet(S), NEW at, \A e \in S : at[e] \in Nat,
           NEW c \in S, NEW d \in S, Place(S, at, c) = Place(S, at, d)
    PROVE  c = d
<1> SUFFICES ASSUME c # d PROVE FALSE
  OBVIOUS
<1>1. Before(at, c, d) \/ Before(at, d, c)
  BY DEF Before
<1>2. Place(S, at, c) < Place(S, at, d) \/ Place(S, at, d) < Place(S, at, c)
  BY <1>1, PlaceGrows
<1> QED
  BY <1>2, PlaceType

(* There is no gap: a row at or behind a place shows that there is one at  *)
(* that place.                                                             *)
LEMMA PlacesDense ==
    ASSUME NEW S \in SUBSET Nat, IsFiniteSet(S), NEW at, \A e \in S : at[e] \in Nat,
           NEW c \in S, NEW k \in Nat, k <= Place(S, at, c)
    PROVE  \E d \in S : Place(S, at, d) = k
<1> DEFINE n == Cardinality(S)
           f == [d \in S |-> Place(S, at, d)]
<1>1. n \in Nat
  BY FS_CardinalityType
<1>2. ASSUME NEW d \in S PROVE Place(S, at, d) \in 0 .. n - 1
  <2>1. Above(S, at, d) \subseteq S \ {d}
    BY DEF Above, Before
  <2>2. IsFiniteSet(S \ {d}) /\ Cardinality(S \ {d}) = n - 1
    BY FS_RemoveElement
  <2>3. Place(S, at, d) <= n - 1
    BY <2>1, <2>2, FS_Subset DEF Place
  <2> QED
    BY <1>1, <2>3, PlaceType
<1>3. IsFiniteSet(0 .. n - 1) /\ Cardinality(0 .. n - 1) = n
  <2> HIDE DEF n
  <2>1. ASSUME NEW m \in Int
        PROVE  /\ IsFiniteSet(0 .. m)
               /\ Cardinality(0 .. m) = IF 0 > m THEN 0 ELSE m - 0 + 1
    BY FS_Interval
  <2>2. n - 1 \in Int
    BY <1>1
  <2>3. /\ IsFiniteSet(0 .. n - 1)
        /\ Cardinality(0 .. n - 1) = IF 0 > n - 1 THEN 0 ELSE n - 1 - 0 + 1
    BY <2>1, <2>2
  <2> QED
    BY <1>1, <2>3
<1>4. f \in Injection(S, 0 .. n - 1)
  <2>1. f \in [S -> 0 .. n - 1]
    BY <1>2
  <2>2. \A d, e \in S : f[d] = f[e] => d = e
    BY PlacesDiffer
  <2> QED
    BY <2>1, <2>2 DEF Injection, IsInjective
<1>5. f \in Surjection(S, 0 .. n - 1)
  <2> HIDE DEF f
  <2> QED
    BY <1>3, <1>4, FS_Injection
<1>6. k \in 0 .. n - 1
  BY <1>1, <1>2
<1>7. \E d \in S : f[d] = k
  <2> HIDE DEF f
  <2> QED
    BY <1>5, <1>6 DEF Surjection
<1> QED
  BY <1>7

(* A row c is put in front of others, or added: it costs a client at most  *)
(* one row that comes again, and none that it misses.                      *)
LEMMA PutInFront ==
    ASSUME NEW S \in SUBSET Nat, IsFiniteSet(S),
           NEW at, \A e \in S : at[e] \in Nat,
           NEW T, IsFiniteSet(T), NEW at2, NEW c,
           S \subseteq T, T \subseteq S \cup {c},
           \A d \in S \ {c} :
              /\ Above(S, at, d) \subseteq Above(T, at2, d)
              /\ Above(T, at2, d) \subseteq Above(S, at, d) \cup {c},
           NEW X, c \in X => c \in S /\ Place(T, at2, c) <= Place(S, at, c),
           NEW Y, NEW Z, Z \subseteq Y \ {c}, NEW o \in Nat
    PROVE  /\ IsFiniteSet(Onward(T, at2, X, o))
           /\ Cardinality(Onward(T, at2, X, o))
                <= Cardinality(Onward(S, at, X, o)) + 1
           /\ Passed(T, at2, Z, o) \subseteq Passed(S, at, Y, o)
<1>1. \A d \in S : Place(S, at, d) \in Nat
  BY PlaceType
<1>2. \A d \in T : Place(T, at2, d) \in Nat
  BY PlaceType
<1>3. ASSUME NEW d \in S \ {c}
      PROVE  /\ Place(S, at, d) <= Place(T, at2, d)
             /\ Place(T, at2, d) <= Place(S, at, d) + 1
  <2>1. Place(S, at, d) <= Place(T, at2, d)
    BY PlaceType, FS_Subset DEF Place
  <2>2. /\ IsFiniteSet(Above(S, at, d) \cup {c})
        /\ Cardinality(Above(S, at, d) \cup {c}) <= Place(S, at, d) + 1
    BY PlaceType, AddOne DEF Place
  <2>3. Place(T, at2, d) <= Cardinality(Above(S, at, d) \cup {c})
    BY <2>2, FS_Subset DEF Place
  <2>4. Cardinality(Above(S, at, d) \cup {c}) \in Nat
    BY <2>2, FS_CardinalityType
  <2> QED
    BY <1>1, <1>2, <2>1, <2>2, <2>3, <2>4
<1>4. Passed(T, at2, Z, o) \subseteq Passed(S, at, Y, o)
  <2> SUFFICES ASSUME NEW d \in T, d \in Z, Place(T, at2, d) < o
               PROVE  d \in S /\ d \in Y /\ Place(S, at, d) < o
    BY DEF Passed
  <2>1. d \in S \ {c} /\ d \in Y
    OBVIOUS
  <2> QED
    BY <1>1, <1>2, <1>3, <2>1
<1>5. ASSUME NEW d \in Onward(T, at2, X, o) \ Onward(S, at, X, o)
      PROVE  d \in S /\ Place(S, at, d) = o - 1
  <2>1. d \in T /\ d \in X /\ Place(T, at2, d) >= o
    BY DEF Onward
  <2>2. d \in S
    BY <2>1
  <2>3. ~(Place(S, at, d) >= o)
    BY <2>1, <2>2 DEF Onward
  <2>4. d # c
    BY <1>1, <1>2, <2>1, <2>2, <2>3
  <2> QED
    BY <1>1, <1>2, <1>3, <2>1, <2>2, <2>3, <2>4
<1>6. \A d, e \in Onward(T, at2, X, o) \ Onward(S, at, X, o) : d = e
  <2> SUFFICES ASSUME NEW d \in Onward(T, at2, X, o) \ Onward(S, at, X, o),
                      NEW e \in Onward(T, at2, X, o) \ Onward(S, at, X, o)
               PROVE  d = e
    OBVIOUS
  <2>1. d \in S /\ e \in S /\ Place(S, at, d) = Place(S, at, e)
    BY <1>5
  <2> QED
    BY <2>1, PlacesDiffer
<1>7. IsFiniteSet(Onward(S, at, X, o))
  <2>1. Onward(S, at, X, o) \subseteq S
    BY DEF Onward
  <2> QED
    BY <2>1, FS_Subset
<1> QED
  BY <1>4, <1>6, <1>7, OneMore

(* A row c is removed: it costs a client at most one row that it misses,   *)
(* and none that comes again.                                              *)
LEMMA TakenAway ==
    ASSUME NEW S \in SUBSET Nat, IsFiniteSet(S),
           NEW at, \A e \in S : at[e] \in Nat, NEW c,
           NEW X, NEW Y, NEW o \in Nat
    PROVE  /\ Onward(S \ {c}, at, X, o) \subseteq Onward(S, at, X, o)
           /\ IsFiniteSet(Passed(S \ {c}, at, Y, o))
           /\ Cardinality(Passed(S \ {c}, at, Y, o))
                <= Cardinality(Passed(S, at, Y, o)) + 1
<1> DEFINE T == S \ {c}
<1>0. IsFiniteSet(T) /\ T \subseteq S
  BY FS_Subset
<1>1. \A d \in S : Place(S, at, d) \in Nat
  BY PlaceType
<1>2. \A d \in S : Place(T, at, d) \in Nat
  BY <1>0, PlaceType
<1>3. ASSUME NEW d \in S
      PROVE  /\ Place(T, at, d) <= Place(S, at, d)
             /\ Place(S, at, d) <= Place(T, at, d) + 1
  <2>1. /\ Above(T, at, d) \subseteq Above(S, at, d)
        /\ Above(S, at, d) \subseteq Above(T, at, d) \cup {c}
    BY DEF Above
  <2>2. Place(T, at, d) <= Place(S, at, d)
    BY <2>1, PlaceType, FS_Subset DEF Place
  <2>3. /\ IsFiniteSet(Above(T, at, d) \cup {c})
        /\ Cardinality(Above(T, at, d) \cup {c}) <= Place(T, at, d) + 1
    BY <1>0, PlaceType, AddOne DEF Place
  <2>4. Place(S, at, d) <= Cardinality(Above(T, at, d) \cup {c})
    BY <2>1, <2>3, FS_Subset DEF Place
  <2>5. Cardinality(Above(T, at, d) \cup {c}) \in Nat
    BY <2>3, FS_CardinalityType
  <2> QED
    BY <1>1, <1>2, <2>2, <2>3, <2>4, <2>5
<1> HIDE DEF T
<1>4. Onward(T, at, X, o) \subseteq Onward(S, at, X, o)
  <2> SUFFICES ASSUME NEW d \in T, d \in X, Place(T, at, d) >= o
               PROVE  d \in S /\ Place(S, at, d) >= o
    BY DEF Onward
  <2>1. d \in S
    BY <1>0
  <2> QED
    BY <1>1, <1>2, <1>3, <2>1
<1>5. ASSUME NEW d \in Passed(T, at, Y, o) \ Passed(S, at, Y, o)
      PROVE  d \in S /\ Place(S, at, d) = o
  <2>1. d \in T /\ d \in Y /\ Place(T, at, d) < o
    BY DEF Passed
  <2>2. ~(Place(S, at, d) < o)
    BY <1>0, <2>1 DEF Passed
  <2> QED
    BY <1>0, <1>1, <1>2, <1>3, <2>1, <2>2
<1>6. \A d, e \in Passed(T, at, Y, o) \ Passed(S, at, Y, o) : d = e
  <2> SUFFICES ASSUME NEW d \in Passed(T, at, Y, o) \ Passed(S, at, Y, o),
                      NEW e \in Passed(T, at, Y, o) \ Passed(S, at, Y, o)
               PROVE  d = e
    OBVIOUS
  <2>1. d \in S /\ e \in S /\ Place(S, at, d) = Place(S, at, e)
    BY <1>5
  <2> QED
    BY <2>1, PlacesDiffer
<1>7. IsFiniteSet(Passed(S, at, Y, o))
  <2>1. Passed(S, at, Y, o) \subseteq S
    BY DEF Passed
  <2> QED
    BY <2>1, FS_Subset
<1>8. /\ IsFiniteSet(Passed(T, at, Y, o))
      /\ Cardinality(Passed(T, at, Y, o)) <= Cardinality(Passed(S, at, Y, o)) + 1
  BY <1>6, <1>7, OneMore
<1> QED
  BY <1>4, <1>8 DEF T

(* The list of a user places each row by the rows above it.                *)
LEMMA ListingPlaces ==
    ASSUME TypeOK, PagesAssumption, NEW u
    PROVE  /\ Active(u) \in SUBSET Nat /\ IsFiniteSet(Active(u))
           /\ Active(u) \subseteq Conversations
           /\ \A e \in Active(u) : lastAt[e] \in Nat
           /\ Listing(u) = [c \in Active(u) |-> Place(Active(u), lastAt, c)]
<1>1. Active(u) \subseteq Conversations
  BY DEF Active, TypeOK
<1>2. IsFiniteSet(Active(u)) /\ Active(u) \in SUBSET Nat
  BY <1>1, FS_Subset DEF PagesAssumption
<1>3. \A e \in Active(u) : lastAt[e] \in Nat
  BY <1>1 DEF TypeOK
<1>4. Listing(u) = [c \in Active(u) |-> Place(Active(u), lastAt, c)]
  BY DEF Listing, Place, Above, Before, Precedes
<1> QED
  BY <1>1, <1>2, <1>3, <1>4

(* A page of the list are the rows with a place in its range.              *)
LEMMA ListingPage ==
    ASSUME TypeOK, PagesAssumption, NEW u, NEW from, NEW limit
    PROVE  /\ Page(Listing(u), from, limit) =
                {c \in Active(u) : Place(Active(u), lastAt, c)
                                     \in from .. from + limit - 1}
           /\ HasMore(Listing(u), from, limit) <=>
                \E c \in Active(u) :
                    Place(Active(u), lastAt, c) = from + limit
<1> DEFINE f == Listing(u)
           S == Active(u)
<1>1. f = [c \in S |-> Place(S, lastAt, c)]
  BY ListingPlaces
<1> HIDE DEF f, S
<1>2. DOMAIN f = S /\ \A c \in S : f[c] = Place(S, lastAt, c)
  BY <1>1
<1>3. Page(f, from, limit) =
        {c \in S : f[c] \in from .. from + limit - 1}
  BY <1>2 DEF Page
<1>4. {c \in S : f[c] \in from .. from + limit - 1} =
        {c \in S : Place(S, lastAt, c) \in from .. from + limit - 1}
  BY <1>2
<1>5. HasMore(f, from, limit) <=>
        \E c \in S : Place(S, lastAt, c) = from + limit
  BY <1>2 DEF HasMore
<1> QED
  BY <1>3, <1>4, <1>5 DEF f, S

-----------------------------------------------------------------------------
(* The list of conversations: the invariant.                               *)

(* A turn's stamp is younger than its conversation's row, which no other   *)
(* turn can write meanwhile: a turn never puts its conversation back.      *)
StampsFresh ==
    /\ \A c \in Conversations : lastAt[c] <= clock
    /\ \A t \in Turns : stamp[t] <= clock
    /\ \A t \in Turns : pc[t] = "flushed" => lastAt[ConvOf[t]] <= stamp[t]
    /\ \A t, u \in Turns :
        pc[t] = "flushed" /\ pc[u] = "flushed" /\ ConvOf[t] = ConvOf[u] => t = u

(* The rows a client has been given and will meet again, and the untouched *)
(* ones that it has gone past without seeing them.                         *)
Again(w) == Onward(Active(CallerOf[w]), lastAt, seen[w], offset[w])
Untouched(w) == first[w] \ (seen[w] \cup moved[w])
Skipped(w) == Passed(Active(CallerOf[w]), lastAt, Untouched(w), offset[w])

(* A client of the list has been given its user's rows.  Those given again *)
(* and still to be given again are no more than the rows put in front, and *)
(* the untouched ones it has skipped no more than the rows removed.        *)
Walking(w) ==
    /\ pc[w] \in {"idle", "paging", "done"}
    /\ pc[w] = "idle" => offset[w] = 0 /\ seen[w] = {} /\ repeats[w] = 0
    /\ pc[w] = "paging" => offset[w] # 0
    /\ \A c \in seen[w] \cup first[w] : c \in rows /\ OwnerOf[c] = CallerOf[w]
    /\ pc[w] = "paging" =>
        /\ repeats[w] + Cardinality(Again(w)) <= shifts[w]
        /\ Cardinality(Skipped(w)) <= removals[w]
    /\ pc[w] = "done" =>
        repeats[w] <= shifts[w] /\ Cardinality(Missed(w)) <= removals[w]

WalkInv == StampsFresh /\ \A w \in Lists : Walking(w)

LEMMA WalkInit == PagesAssumption /\ Init => WalkInv
BY DEF Init, WalkInv, StampsFresh, Walking, PagesAssumption, Walks, Calls

(* The clock and the stamps.                                               *)
LEMMA StampsStep ==
    ASSUME PagesAssumption, PagesInv, StampsFresh, [Next]_vars
    PROVE  StampsFresh'
<1>0. /\ TypeOK /\ Turns \subseteq Calls
      /\ \A t \in Turns : ConvOf[t] \in Conversations /\ t \notin Walks
                          /\ t \notin Deletions
      /\ clock \in Nat /\ stamp \in [Turns -> Nat]
      /\ lastAt \in [Conversations -> Nat]
  BY DEF PagesInv, PagesAssumption, Calls, TypeOK
<1>1. CASE \E t \in Turns : AppendMessages(t)
  <2> PICK t \in Turns : AppendMessages(t)
    BY <1>1
  <2>1. /\ clock' = clock + 1 /\ lastAt' = lastAt
        /\ stamp' = [stamp EXCEPT ![t] = clock + 1]
        /\ pc' = [pc EXCEPT ![t] = "flushed"]
        /\ \A u \in Turns : ConvOf[u] = ConvOf[t] => pc[u] # "flushed"
    BY DEF AppendMessages, Goto, conversationVars
  <2>2. \A c \in Conversations : lastAt'[c] <= clock'
    BY <1>0, <2>1 DEF StampsFresh
  <2>3. \A u \in Turns : stamp'[u] <= clock'
    BY <1>0, <2>1 DEF StampsFresh
  <2>4. \A u \in Turns : pc'[u] = "flushed" => lastAt'[ConvOf[u]] <= stamp'[u]
    <3>1. SUFFICES ASSUME NEW u \in Turns, pc'[u] = "flushed"
                   PROVE  lastAt'[ConvOf[u]] <= stamp'[u]
      OBVIOUS
    <3>2. CASE u = t
      BY <1>0, <2>1, <2>2, <3>2
    <3>3. CASE u # t
      BY <1>0, <2>1, <3>1, <3>3 DEF StampsFresh, TypeOK
    <3> QED
      BY <3>2, <3>3
  <2>5. \A u, v \in Turns :
          pc'[u] = "flushed" /\ pc'[v] = "flushed" /\ ConvOf[u] = ConvOf[v]
            => u = v
    BY <1>0, <2>1 DEF StampsFresh, TypeOK
  <2> QED
    BY <2>2, <2>3, <2>4, <2>5 DEF StampsFresh
<1>2. CASE \E t \in Turns : CommitTurn(t)
  <2> PICK t \in Turns : CommitTurn(t)
    BY <1>2
  <2>1. /\ clock' = clock /\ stamp' = stamp
        /\ lastAt' = [lastAt EXCEPT ![ConvOf[t]] = stamp[t]]
        /\ pc' = [pc EXCEPT ![t] = "done"] /\ pc[t] = "flushed"
    BY DEF CommitTurn, Goto
  <2>2. \A c \in Conversations : lastAt'[c] <= clock'
    BY <1>0, <2>1 DEF StampsFresh
  <2>3. \A u \in Turns : pc'[u] = "flushed" => u # t /\ pc[u] = "flushed"
    BY <1>0, <2>1 DEF TypeOK
  <2>4. \A u \in Turns : pc'[u] = "flushed" => lastAt'[ConvOf[u]] <= stamp'[u]
    BY <1>0, <2>1, <2>3 DEF StampsFresh
  <2> QED
    BY <2>1, <2>2, <2>3, <2>4 DEF StampsFresh
<1>3. CASE /\ UNCHANGED <<lastAt, clock, stamp>>
           /\ \A t \in Turns : pc'[t] = "flushed" => pc[t] = "flushed"
  BY <1>3 DEF StampsFresh
<1>4. CASE UNCHANGED vars
  BY <1>4 DEF StampsFresh, vars, conversationVars
<1>5. ASSUME Next, ~ \E t \in Turns : AppendMessages(t) \/ CommitTurn(t)
      PROVE  /\ UNCHANGED <<lastAt, clock, stamp>>
             /\ \A t \in Turns : pc'[t] = "flushed" => pc[t] = "flushed"
  <2>1. CASE \E c \in Conversations : Create(c)
    BY <2>1 DEF Create
  <2>2. CASE \E x \in Calls : Require(x) \/ GiveUp(x)
    BY <1>0, <2>2 DEF Require, GiveUp, Goto, TypeOK, conversationVars
  <2>3. CASE \E d \in Deletions : Delete(d)
    BY <1>0, <2>3 DEF Delete, Goto, TypeOK
  <2>4. CASE \E w \in Lists : ListPage(w)
    BY <1>0, <2>4 DEF ListPage, Deliver, Goto, TypeOK, conversationVars, Walks
  <2>5. CASE \E w \in Histories : RequireHistory(w)
    BY <1>0, <2>5 DEF RequireHistory, Goto, TypeOK, conversationVars, Walks
  <2>6. CASE \E w \in Histories : HistoryPage(w)
    BY <1>0, <2>6 DEF HistoryPage, Deliver, Goto, TypeOK, conversationVars, Walks
  <2> QED
    BY <1>5, <2>1, <2>2, <2>3, <2>4, <2>5, <2>6 DEF Next
<1> QED
  BY <1>1, <1>2, <1>3, <1>4, <1>5

(* The counters of a client, and the rows they are compared with.          *)
LEMMA WalkTypes ==
    ASSUME TypeOK, PagesAssumption, NEW w \in Lists
    PROVE  /\ w \in Walks /\ w \notin Calls /\ w \notin Histories
           /\ offset[w] \in Nat /\ repeats[w] \in Nat
           /\ shifts[w] \in Nat /\ removals[w] \in Nat
           /\ Limit[w] \in Nat \ {0}
           /\ IsFiniteSet(Again(w)) /\ Cardinality(Again(w)) \in Nat
           /\ IsFiniteSet(Skipped(w)) /\ Cardinality(Skipped(w)) \in Nat
<1>1. w \in Walks /\ w \notin Calls /\ w \notin Histories
  BY DEF PagesAssumption, Walks
<1>2. /\ offset[w] \in Nat /\ repeats[w] \in Nat
      /\ shifts[w] \in Nat /\ removals[w] \in Nat
  BY <1>1 DEF TypeOK
<1>3. Limit[w] \in Nat \ {0}
  <2>1. Limit[w] \in 1 .. 100
    BY <1>1 DEF PagesAssumption
  <2> QED
    BY <2>1
<1>4. /\ Again(w) \subseteq Active(CallerOf[w])
      /\ Skipped(w) \subseteq Active(CallerOf[w])
      /\ IsFiniteSet(Active(CallerOf[w]))
  BY ListingPlaces DEF Again, Skipped, Onward, Passed
<1>5. /\ IsFiniteSet(Again(w)) /\ Cardinality(Again(w)) \in Nat
      /\ IsFiniteSet(Skipped(w)) /\ Cardinality(Skipped(w)) \in Nat
  BY <1>4, FS_Subset, FS_CardinalityType
<1> QED
  BY <1>1, <1>2, <1>3, <1>5

(* What remains to be shown of a step that gives a client no page.         *)
LEMMA WalkRests ==
    ASSUME TypeOK, PagesAssumption, NEW w \in Lists, Walking(w),
           UNCHANGED <<pc[w], offset[w], seen[w], repeats[w], first[w]>>,
           rows \subseteq rows', deleted \subseteq deleted',
           moved[w] \subseteq moved'[w],
           pc[w] = "paging" =>
              /\ repeats[w] + Cardinality(Again(w)') <= shifts'[w]
              /\ Cardinality(Skipped(w)') <= removals'[w],
           pc[w] # "paging" => UNCHANGED <<shifts[w], removals[w]>>
    PROVE  Walking(w)'
<1>1. pc[w] = "done" => Cardinality(Missed(w)') <= removals'[w]
  <2> SUFFICES ASSUME pc[w] = "done"
               PROVE  Cardinality(Missed(w)') <= removals[w]
    OBVIOUS
  <2>1. Missed(w)' \subseteq Missed(w)
    BY DEF Missed
  <2>2. Missed(w) \subseteq Conversations
    BY DEF Missed, Walking, TypeOK
  <2>3. IsFiniteSet(Missed(w))
    BY <2>2, FS_Subset DEF PagesAssumption
  <2>4. Cardinality(Missed(w)') <= Cardinality(Missed(w))
    BY <2>1, <2>3, FS_Subset
  <2>5. Cardinality(Missed(w)') \in Nat /\ Cardinality(Missed(w)) \in Nat
    BY <2>1, <2>3, FS_Subset, FS_CardinalityType
  <2>6. Cardinality(Missed(w)) <= removals[w] /\ removals[w] \in Nat
    BY DEF Walking, TypeOK
  <2> QED
    BY <2>4, <2>5, <2>6
<1>2. \A c \in seen'[w] \cup first'[w] : c \in rows' /\ OwnerOf[c] = CallerOf[w]
  BY DEF Walking
<1>3. /\ pc'[w] \in {"idle", "paging", "done"}
      /\ pc'[w] = "idle" => offset'[w] = 0 /\ seen'[w] = {} /\ repeats'[w] = 0
      /\ pc'[w] = "paging" => offset'[w] # 0
      /\ pc'[w] = "done" => repeats'[w] <= shifts'[w]
  BY DEF Walking
<1>4. pc'[w] = "paging" =>
        /\ repeats'[w] + Cardinality(Again(w)') <= shifts'[w]
        /\ Cardinality(Skipped(w)') <= removals'[w]
  OBVIOUS
<1> QED
  BY <1>1, <1>2, <1>3, <1>4 DEF Walking

(* A step that leaves the list alone.                                      *)
LEMMA WalkUndisturbed ==
    ASSUME TypeOK, PagesAssumption, NEW w \in Lists, Walking(w),
           UNCHANGED <<pc[w], offset[w], seen[w], repeats[w], first[w]>>,
           UNCHANGED <<rows, deleted, lastAt>>,
           UNCHANGED <<moved[w], shifts[w], removals[w]>>
    PROVE  Walking(w)'
<1>1. Again(w)' = Again(w) /\ Skipped(w)' = Skipped(w)
  BY DEF Again, Skipped, Untouched, Active
<1>2. pc[w] = "paging" =>
        /\ repeats[w] + Cardinality(Again(w)') <= shifts'[w]
        /\ Cardinality(Skipped(w)') <= removals'[w]
  BY <1>1 DEF Walking
<1> QED
  BY <1>2, WalkRests

(* A conversation is created or gets a turn: one shift for its owner's     *)
(* clients.                                                                *)
LEMMA WalkShifted ==
    ASSUME TypeOK, TypeOK', PagesAssumption, NEW w \in Lists, Walking(w),
           UNCHANGED <<pc[w], offset[w], seen[w], repeats[w], first[w],
                       removals[w]>>,
           rows \subseteq rows', deleted' = deleted,
           NEW c, shifts' = Count(shifts, c),
           moved[w] \subseteq moved'[w],
           c \notin Untouched(w)' \/ c \notin rows,
           LET S == Active(CallerOf[w])
               T == Active(CallerOf[w])'
           IN  \/ S = T /\ \A d \in S : lastAt'[d] = lastAt[d]
               \/ /\ OwnerOf[c] = CallerOf[w]
                  /\ S \subseteq T /\ T \subseteq S \cup {c}
                  /\ \A d \in S \ {c} :
                       /\ Above(S, lastAt, d) \subseteq Above(T, lastAt', d)
                       /\ Above(T, lastAt', d) \subseteq Above(S, lastAt, d) \cup {c}
                  /\ c \in seen[w] => c \in S
                      /\ Place(T, lastAt', c) <= Place(S, lastAt, c)
    PROVE  Walking(w)'
<1> DEFINE S == Active(CallerOf[w])
           T == Active(CallerOf[w])'
<1>1. /\ S \in SUBSET Nat /\ IsFiniteSet(S) /\ \A e \in S : lastAt[e] \in Nat
      /\ IsFiniteSet(T)
  <2>1. T \subseteq Conversations
    BY DEF Active, TypeOK
  <2> QED
    BY <2>1, ListingPlaces, FS_Subset DEF PagesAssumption
<1>2. /\ offset[w] \in Nat /\ repeats[w] \in Nat /\ shifts[w] \in Nat
      /\ removals[w] \in Nat /\ Cardinality(Again(w)) \in Nat
      /\ IsFiniteSet(Skipped(w)) /\ Cardinality(Skipped(w)) \in Nat
  BY WalkTypes
<1>3. /\ c \notin Untouched(w)'
      /\ Untouched(w)' \subseteq Untouched(w) \ {c}
  BY DEF Untouched, Walking
<1>4. /\ shifts'[w] = IF pc[w] = "paging" /\ CallerOf[w] = OwnerOf[c]
                      THEN shifts[w] + 1 ELSE shifts[w]
  BY DEF Count, Begun
<1>5. CASE S = T /\ \A d \in S : lastAt'[d] = lastAt[d]
  <2>1. \A d \in S : Above(T, lastAt', d) = Above(S, lastAt, d)
    BY <1>5 DEF Above, Before
  <2>2. \A d \in S : Place(T, lastAt', d) = Place(S, lastAt, d)
    BY <2>1 DEF Place
  <2>3. Again(w)' = Again(w)
    BY <1>5, <2>2 DEF Again, Onward
  <2>4. Skipped(w)' \subseteq Skipped(w)
    BY <1>3, <1>5, <2>2 DEF Skipped, Passed
  <2>5. /\ Cardinality(Skipped(w)') <= Cardinality(Skipped(w))
        /\ Cardinality(Skipped(w)') \in Nat
    BY <1>2, <2>4, FS_Subset, FS_CardinalityType
  <2>6. pc[w] = "paging" =>
          /\ repeats[w] + Cardinality(Again(w)') <= shifts'[w]
          /\ Cardinality(Skipped(w)') <= removals'[w]
    BY <1>2, <1>4, <2>3, <2>5 DEF Walking
  <2> QED
    BY <1>4, <2>6, WalkRests
<1>6. CASE /\ OwnerOf[c] = CallerOf[w]
           /\ S \subseteq T /\ T \subseteq S \cup {c}
           /\ \A d \in S \ {c} :
                /\ Above(S, lastAt, d) \subseteq Above(T, lastAt', d)
                /\ Above(T, lastAt', d) \subseteq Above(S, lastAt, d) \cup {c}
           /\ c \in seen[w] => c \in S
               /\ Place(T, lastAt', c) <= Place(S, lastAt, c)
  <2> HIDE DEF S, T
  <2> DEFINE X == seen[w]
             Y == Untouched(w)
             Z == Untouched(w)'
             o == offset[w]
  <2>1. Z \subseteq Y \ {c} /\ o \in Nat
    BY <1>2, <1>3
  <2> HIDE DEF X, Y, Z, o
  <2>2. /\ IsFiniteSet(Onward(T, lastAt', X, o))
        /\ Cardinality(Onward(T, lastAt', X, o))
             <= Cardinality(Onward(S, lastAt, X, o)) + 1
        /\ Passed(T, lastAt', Z, o) \subseteq Passed(S, lastAt, Y, o)
    BY <1>1, <1>6, <2>1, PutInFront DEF X
  <2>3. /\ Again(w) = Onward(S, lastAt, X, o)
        /\ Again(w)' = Onward(T, lastAt', X, o)
        /\ Skipped(w) = Passed(S, lastAt, Y, o)
        /\ Skipped(w)' = Passed(T, lastAt', Z, o)
    BY DEF Again, Skipped, S, T, X, Y, Z, o
  <2>4. /\ Cardinality(Skipped(w)') <= Cardinality(Skipped(w))
        /\ Cardinality(Skipped(w)') \in Nat
    BY <1>2, <2>2, <2>3, FS_Subset, FS_CardinalityType
  <2>5. /\ Cardinality(Again(w)') <= Cardinality(Again(w)) + 1
        /\ Cardinality(Again(w)') \in Nat
    BY <2>2, <2>3, FS_CardinalityType
  <2>6. pc[w] = "paging" =>
          /\ repeats[w] + Cardinality(Again(w)') <= shifts'[w]
          /\ Cardinality(Skipped(w)') <= removals'[w]
    BY <1>2, <1>4, <1>6, <2>4, <2>5 DEF Walking
  <2> QED
    BY <1>4, <2>6, WalkRests
<1> QED
  BY <1>5, <1>6

LEMMA WalkCreated ==
    ASSUME TypeOK, TypeOK', PagesAssumption, NEW w \in Lists, Walking(w),
           NEW c \in Conversations, Create(c)
    PROVE  Walking(w)'
<1> DEFINE S == Active(CallerOf[w])
           T == Active(CallerOf[w])'
<1>1. /\ c \notin rows /\ rows' = rows \cup {c} /\ deleted' = deleted
      /\ lastAt' = lastAt /\ shifts' = Count(shifts, c)
      /\ UNCHANGED <<pc, offset, seen, repeats, first, moved, removals>>
  BY DEF Create, walkVars
<1>2. c \notin seen[w] /\ c \notin S /\ c \notin deleted
  BY <1>1 DEF Walking, Active, TypeOK
<1>3. T = IF OwnerOf[c] = CallerOf[w] THEN S \cup {c} ELSE S
  BY <1>1, <1>2 DEF Active
<1> HIDE DEF S, T
<1>4. ASSUME OwnerOf[c] = CallerOf[w], NEW d \in S \ {c}
      PROVE  /\ Above(S, lastAt, d) \subseteq Above(T, lastAt', d)
             /\ Above(T, lastAt', d) \subseteq Above(S, lastAt, d) \cup {c}
  BY <1>1, <1>3, <1>4 DEF Above
<1>5. \/ S = T /\ \A d \in S : lastAt'[d] = lastAt[d]
      \/ /\ OwnerOf[c] = CallerOf[w]
         /\ S \subseteq T /\ T \subseteq S \cup {c}
         /\ \A d \in S \ {c} :
              /\ Above(S, lastAt, d) \subseteq Above(T, lastAt', d)
              /\ Above(T, lastAt', d) \subseteq Above(S, lastAt, d) \cup {c}
         /\ c \in seen[w] => c \in S
             /\ Place(T, lastAt', c) <= Place(S, lastAt, c)
  BY <1>1, <1>2, <1>3, <1>4
<1>6. /\ UNCHANGED <<pc[w], offset[w], seen[w], repeats[w], first[w],
                     removals[w]>>
      /\ rows \subseteq rows' /\ moved[w] \subseteq moved'[w]
  BY <1>1
<1> QED
  BY <1>1, <1>5, <1>6, WalkShifted DEF S, T

(* A turn puts its conversation in front of others, never behind.          *)
LEMMA WalkTurned ==
    ASSUME TypeOK, TypeOK', PagesAssumption, StampsFresh,
           NEW w \in Lists, Walking(w), NEW t \in Turns, CommitTurn(t)
    PROVE  Walking(w)'
<1> DEFINE c == ConvOf[t]
           S == Active(CallerOf[w])
           T == Active(CallerOf[w])'
<1>1. /\ rows' = rows /\ deleted' = deleted
      /\ lastAt' = [lastAt EXCEPT ![c] = stamp[t]]
      /\ shifts' = Count(shifts, c)
      /\ moved' = [v \in Lists |-> moved[v] \cup {c}]
      /\ UNCHANGED <<offset, seen, repeats, first, removals>>
      /\ pc' = [pc EXCEPT ![t] = "done"] /\ pc[t] = "flushed"
  BY DEF CommitTurn, walkVars, Goto
<1>2. /\ c \in Conversations /\ t \in Calls /\ w \in Walks /\ w # t
      /\ stamp[t] \in Nat /\ lastAt \in [Conversations -> Nat]
      /\ lastAt[c] <= stamp[t]
  BY <1>1 DEF PagesAssumption, Calls, Walks, TypeOK, StampsFresh
<1>3. S = T /\ S \subseteq Conversations /\ IsFiniteSet(S)
      /\ Conversations \subseteq Nat
  BY <1>1, ListingPlaces DEF Active, PagesAssumption
<1>4. /\ UNCHANGED <<pc[w], offset[w], seen[w], repeats[w], first[w],
                     removals[w]>>
      /\ rows \subseteq rows' /\ moved[w] \subseteq moved'[w]
      /\ c \notin Untouched(w)'
  BY <1>1, <1>2 DEF TypeOK, Untouched
<1> HIDE DEF S, T, c
<1>5. CASE c \notin S
  <2>1. S = T /\ \A d \in S : lastAt'[d] = lastAt[d]
    BY <1>1, <1>2, <1>3, <1>5
  <2> QED
    BY <1>1, <1>4, <2>1, WalkShifted DEF S, T
<1>6. CASE c \in S
  <2>1. ASSUME NEW d \in S \ {c}
        PROVE  /\ Above(S, lastAt, d) \subseteq Above(T, lastAt', d)
               /\ Above(T, lastAt', d) \subseteq Above(S, lastAt, d) \cup {c}
    <3>1. /\ lastAt'[d] = lastAt[d] /\ lastAt'[c] = stamp[t]
          /\ lastAt[d] \in Nat /\ lastAt[c] \in Nat /\ c \in Nat /\ d \in Nat
      BY <1>1, <1>2, <1>3
    <3>2. \A e \in S : e # c => lastAt'[e] = lastAt[e]
      BY <1>1, <1>2, <1>3
    <3>3. Before(lastAt, c, d) => Before(lastAt', c, d)
      BY <1>2, <3>1 DEF Before
    <3>4. \A e \in S : e # c => (Before(lastAt', e, d) <=> Before(lastAt, e, d))
      BY <3>1, <3>2 DEF Before
    <3> QED
      BY <1>3, <3>3, <3>4 DEF Above
  <2>2. Above(T, lastAt', c) \subseteq Above(S, lastAt, c)
    <3>1. ASSUME NEW e \in S, Before(lastAt', e, c)
          PROVE  Before(lastAt, e, c)
      <4>1. lastAt'[c] = stamp[t] /\ lastAt[c] \in Nat
        BY <1>1, <1>2
      <4>2. e # c
        BY <1>2, <1>3, <3>1, <4>1 DEF Before
      <4>3. lastAt'[e] = lastAt[e] /\ lastAt[e] \in Nat /\ e \in Nat /\ c \in Nat
        BY <1>1, <1>2, <1>3, <4>2
      <4> QED
        BY <1>2, <3>1, <4>1, <4>3 DEF Before
    <3> QED
      BY <1>3, <3>1 DEF Above
  <2>3. Place(T, lastAt', c) <= Place(S, lastAt, c)
    BY <1>3, <2>2, PlaceType, FS_Subset DEF Place
  <2>4. OwnerOf[c] = CallerOf[w]
    BY <1>6 DEF S, Active
  <2>5. /\ OwnerOf[c] = CallerOf[w]
        /\ S \subseteq T /\ T \subseteq S \cup {c}
        /\ \A d \in S \ {c} :
             /\ Above(S, lastAt, d) \subseteq Above(T, lastAt', d)
             /\ Above(T, lastAt', d) \subseteq Above(S, lastAt, d) \cup {c}
        /\ c \in seen[w] => c \in S
            /\ Place(T, lastAt', c) <= Place(S, lastAt, c)
    BY <1>3, <1>6, <2>1, <2>3, <2>4
  <2> QED
    BY <1>1, <1>4, <2>5, WalkShifted DEF S, T
<1> QED
  BY <1>5, <1>6

(* A deletion is a removal for its owner's clients, unless the             *)
(* conversation was deleted before.                                        *)
LEMMA WalkDeleted ==
    ASSUME TypeOK, PagesAssumption, NEW w \in Lists, Walking(w),
           NEW x \in Deletions, Delete(x)
    PROVE  Walking(w)'
<1> DEFINE c == ConvOf[x]
           S == Active(CallerOf[w])
           T == Active(CallerOf[w])'
           o == offset[w]
<1>1. /\ deleted' = deleted \cup {c} /\ pc' = [pc EXCEPT ![x] = "done"]
      /\ removals' = IF c \in deleted THEN removals ELSE Count(removals, c)
      /\ UNCHANGED <<rows, lastAt, offset, seen, repeats, first, moved, shifts>>
  BY DEF Delete, walkVars, Goto
<1>2. /\ w # x /\ w \in Walks /\ offset[w] \in Nat /\ repeats[w] \in Nat
      /\ shifts[w] \in Nat /\ removals[w] \in Nat
      /\ IsFiniteSet(Again(w)) /\ Cardinality(Again(w)) \in Nat
      /\ Cardinality(Skipped(w)) \in Nat
  BY WalkTypes DEF Calls
<1>3. pc'[w] = pc[w]
  BY <1>1, <1>2 DEF TypeOK
<1>4. T = S \ {c} /\ Untouched(w)' = Untouched(w)
  BY <1>1 DEF Active, Untouched
<1>5. /\ S \in SUBSET Nat /\ IsFiniteSet(S) /\ \A e \in S : lastAt[e] \in Nat
  BY ListingPlaces
<1>6. c \in S => c \notin deleted /\ OwnerOf[c] = CallerOf[w]
  BY DEF Active
<1>7. removals'[w] = IF /\ pc[w] = "paging" /\ CallerOf[w] = OwnerOf[c]
                        /\ c \notin deleted
                     THEN removals[w] + 1 ELSE removals[w]
  BY <1>1 DEF Count, Begun
<1> HIDE DEF S, T, c
<1>8. /\ Again(w) = Onward(S, lastAt, seen[w], o)
      /\ Again(w)' = Onward(T, lastAt, seen[w], o)
      /\ Skipped(w) = Passed(S, lastAt, Untouched(w), o)
      /\ Skipped(w)' = Passed(T, lastAt, Untouched(w), o)
  BY <1>1, <1>4 DEF Again, Skipped, S, T
<1> HIDE DEF o
<1>9. o \in Nat
  BY <1>2 DEF o
<1>10. /\ Again(w)' \subseteq Again(w)
       /\ IsFiniteSet(Skipped(w)')
       /\ Cardinality(Skipped(w)') <= Cardinality(Skipped(w)) + 1
       /\ c \notin S => Skipped(w)' = Skipped(w)
  <2> DEFINE X == seen[w]
             Y == Untouched(w)
  <2> HIDE DEF X, Y
  <2>1. /\ Onward(S \ {c}, lastAt, X, o) \subseteq Onward(S, lastAt, X, o)
        /\ IsFiniteSet(Passed(S \ {c}, lastAt, Y, o))
        /\ Cardinality(Passed(S \ {c}, lastAt, Y, o))
             <= Cardinality(Passed(S, lastAt, Y, o)) + 1
    BY <1>5, <1>9, TakenAway
  <2>2. c \notin S => S \ {c} = S
    OBVIOUS
  <2> QED
    BY <1>4, <1>8, <2>1, <2>2 DEF X, Y
<1>11. /\ Cardinality(Again(w)') <= Cardinality(Again(w))
       /\ Cardinality(Again(w)') \in Nat /\ Cardinality(Skipped(w)') \in Nat
  BY <1>2, <1>10, FS_Subset, FS_CardinalityType
<1>12. pc[w] = "paging" => repeats[w] + Cardinality(Again(w)') <= shifts'[w]
  BY <1>1, <1>2, <1>11 DEF Walking
<1>13. pc[w] = "paging" => Cardinality(Skipped(w)') <= removals'[w]
  <2>1. CASE c \in S
    BY <1>2, <1>6, <1>7, <1>10, <1>11, <2>1 DEF Walking
  <2>2. CASE c \notin S
    BY <1>2, <1>7, <1>10, <2>2 DEF Walking
  <2> QED
    BY <2>1, <2>2
<1>14. /\ UNCHANGED <<pc[w], offset[w], seen[w], repeats[w], first[w]>>
       /\ rows \subseteq rows' /\ deleted \subseteq deleted'
       /\ moved[w] \subseteq moved'[w]
       /\ pc[w] # "paging" => UNCHANGED <<shifts[w], removals[w]>>
  BY <1>1, <1>3, <1>7
<1> QED
  BY <1>12, <1>13, <1>14, WalkRests

(* A client is given a page of the list: what it will meet again is either *)
(* on this page or on a later one, and it skips no row that it has not     *)
(* skipped before.                                                         *)
LEMMA WalkGoesOn ==
    ASSUME TypeOK, PagesAssumption, NEW w \in Lists, Walking(w), ListPage(w)
    PROVE  Walking(w)'
<1> DEFINE S == Active(CallerOf[w])
           o == offset[w]
           n == offset[w] + Limit[w]
           page == {c \in S : Place(S, lastAt, c) \in o .. n - 1}
           X == first'[w] \ (seen[w] \cup moved'[w])
           Z == first'[w] \ (seen'[w] \cup moved'[w])
           twice == page \cap seen[w]
           later == Onward(S, lastAt, seen'[w], n)
           skipped == Passed(S, lastAt, X, o)
<1>1. /\ w \in Walks /\ o \in Nat /\ n \in Nat /\ o < n /\ n # 0
      /\ repeats[w] \in Nat /\ shifts[w] \in Nat /\ removals[w] \in Nat
      /\ Cardinality(Again(w)) \in Nat /\ IsFiniteSet(Again(w))
      /\ IsFiniteSet(Skipped(w)) /\ Cardinality(Skipped(w)) \in Nat
  BY WalkTypes
<1>2. /\ S \in SUBSET Nat /\ IsFiniteSet(S) /\ \A e \in S : lastAt[e] \in Nat
      /\ Listing(CallerOf[w]) = [c \in S |-> Place(S, lastAt, c)]
      /\ \A c \in S : Place(S, lastAt, c) \in Nat
  BY ListingPlaces, PlaceType
<1>3. /\ UNCHANGED <<rows, lastAt, deleted, shifts, removals>>
      /\ moved' = IF offset[w] = 0 THEN [moved EXCEPT ![w] = {}] ELSE moved
      /\ pc[w] \in {"idle", "paging"} /\ Deliver(w, Listing(CallerOf[w]))
  BY DEF ListPage, conversationVars
<1>4. Page(Listing(CallerOf[w]), offset[w], Limit[w]) = page
  <2>1. offset[w] .. offset[w] + Limit[w] - 1 = o .. n - 1
    BY WalkTypes
  <2>2. Page(Listing(CallerOf[w]), offset[w], Limit[w]) =
          {c \in S : Place(S, lastAt, c) \in
                        offset[w] .. offset[w] + Limit[w] - 1}
    BY ListingPage
  <2> QED
    BY <2>1, <2>2
<1>5. HasMore(Listing(CallerOf[w]), offset[w], Limit[w])
        <=> \E c \in S : Place(S, lastAt, c) = n
  BY ListingPage
<1>6. /\ seen'[w] = seen[w] \cup page
      /\ repeats'[w] = repeats[w] + Cardinality(twice)
      /\ first'[w] = IF o = 0 THEN S ELSE first[w]
      /\ \/ pc'[w] = "paging" /\ offset'[w] = n
         \/ /\ pc'[w] = "done" /\ offset'[w] = o
            /\ ~ \E c \in S : Place(S, lastAt, c) = n
      /\ moved'[w] = IF o = 0 THEN {} ELSE moved[w]
  <2>1. /\ seen \in [Walks -> SUBSET Nat] /\ repeats \in [Walks -> Nat]
        /\ first \in [Walks -> SUBSET Nat] /\ offset \in [Walks -> Nat]
        /\ pc \in [Calls \cup Walks -> {"idle", "required", "flushed", "done",
                                        "not_found", "lost", "paging"}]
        /\ moved \in [Lists -> SUBSET Conversations]
    BY DEF TypeOK
  <2>2. DOMAIN Listing(CallerOf[w]) = S
    BY <1>2
  <2>3. /\ seen'[w] = seen[w] \cup page
        /\ repeats'[w] = repeats[w] + Cardinality(twice)
        /\ first'[w] = IF o = 0 THEN S ELSE first[w]
    BY <1>1, <1>3, <1>4, <2>1, <2>2 DEF Deliver
  <2>4. \/ pc'[w] = "paging" /\ offset'[w] = n
        \/ /\ pc'[w] = "done" /\ offset'[w] = o
           /\ ~HasMore(Listing(CallerOf[w]), offset[w], Limit[w])
    BY <1>1, <1>3, <2>1 DEF Deliver, Goto, NextOffset
  <2>5. moved'[w] = IF o = 0 THEN {} ELSE moved[w]
    BY <1>3, <2>1
  <2> QED
    BY <1>5, <2>3, <2>4, <2>5
<1>7. /\ pc[w] = "idle" => o = 0 /\ seen[w] = {} /\ repeats[w] = 0
      /\ pc[w] = "paging" => o # 0
      /\ pc[w] = "paging" => /\ repeats[w] + Cardinality(Again(w)) <= shifts[w]
                             /\ Cardinality(Skipped(w)) <= removals[w]
      /\ \A c \in seen[w] \cup first[w] : c \in rows /\ OwnerOf[c] = CallerOf[w]
  BY DEF Walking
<1>8. \A c \in seen'[w] \cup first'[w] : c \in rows' /\ OwnerOf[c] = CallerOf[w]
  BY <1>3, <1>6, <1>7 DEF Active
<1>9. Again(w) = {c \in S \cap seen[w] : Place(S, lastAt, c) >= o}
  BY DEF Again, Onward
<1>10. repeats[w] + Cardinality(Again(w)) <= shifts[w]
  <2>1. CASE pc[w] = "idle"
    <3>1. Again(w) = {}
      BY <1>7, <1>9, <2>1
    <3>2. Cardinality(Again(w)) = 0
      BY <3>1, FS_EmptySet
    <3> QED
      BY <1>1, <1>7, <2>1, <3>2
  <2> QED
    BY <1>3, <1>7, <2>1
<1>11. Again(w) = twice \cup later /\ twice \cap later = {}
  <2>1. later = {c \in S \cap (seen[w] \cup page) : Place(S, lastAt, c) >= n}
    BY <1>6 DEF Onward
  <2>2. \A c \in page : ~(Place(S, lastAt, c) >= n)
    BY <1>1, <1>2
  <2>3. later = {c \in S \cap seen[w] : Place(S, lastAt, c) >= n}
    BY <2>1, <2>2
  <2>4. \A c \in S : /\ Place(S, lastAt, c) >= o <=>
                          \/ Place(S, lastAt, c) \in o .. n - 1
                          \/ Place(S, lastAt, c) >= n
    BY <1>1, <1>2
  <2> HIDE DEF S, n, o, later
  <2> QED
    BY <1>9, <2>2, <2>3, <2>4
<1>12. /\ Cardinality(Again(w)) = Cardinality(twice) + Cardinality(later)
       /\ Cardinality(twice) \in Nat /\ Cardinality(later) \in Nat
  <2> HIDE DEF twice, later
  <2>1. /\ IsFiniteSet(twice) /\ IsFiniteSet(later)
    BY <1>1, <1>11, FS_Subset
  <2>2. /\ Cardinality(twice) \in Nat /\ Cardinality(later) \in Nat
    BY <2>1, FS_CardinalityType
  <2>3. Cardinality(twice \cup later) =
          Cardinality(twice) + Cardinality(later) - Cardinality(twice \cap later)
    BY <2>1, FS_Union
  <2>4. Cardinality(twice \cap later) = 0
    BY <1>11, FS_EmptySet
  <2> QED
    BY <1>11, <2>2, <2>3, <2>4
<1>13. IsFiniteSet(skipped) /\ Cardinality(skipped) <= removals[w]
       /\ Cardinality(skipped) \in Nat
  <2>1. CASE pc[w] = "idle"
    <3>1. skipped = {}
      BY <1>2, <1>7, <2>1 DEF Passed
    <3> HIDE DEF skipped
    <3>2. IsFiniteSet(skipped) /\ Cardinality(skipped) = 0
      BY <3>1, FS_EmptySet
    <3> QED
      BY <1>1, <3>2
  <2>2. CASE pc[w] = "paging"
    <3>1. skipped = Skipped(w)
      BY <1>6, <1>7, <2>2 DEF Skipped, Untouched
    <3> QED
      BY <1>1, <1>7, <2>2, <3>1
  <2> QED
    BY <1>3, <2>1, <2>2
<1>14. ASSUME NEW c \in S, c \in Z, Place(S, lastAt, c) < n
       PROVE  c \in skipped
  <2>1. c \notin page /\ c \in X
    BY <1>6, <1>14
  <2>2. Place(S, lastAt, c) < o
    BY <1>1, <1>2, <1>14, <2>1
  <2> QED
    BY <2>1, <2>2 DEF Passed
<1> HIDE DEF S, o, n, page, X, Z, twice, later, skipped
<1>15. CASE pc'[w] = "paging" /\ offset'[w] = n
  <2>1. Again(w)' = later
    BY <1>3, <1>15 DEF Again, later, S, Active
  <2>2. Skipped(w)' = Passed(S, lastAt, Z, n)
    BY <1>3, <1>15 DEF Skipped, Untouched, Z, S, Active
  <2>3. Skipped(w)' \subseteq skipped
    BY <1>14, <2>2 DEF Passed
  <2>4. /\ Cardinality(Skipped(w)') <= Cardinality(skipped)
        /\ Cardinality(Skipped(w)') \in Nat
    BY <1>13, <2>3, FS_Subset, FS_CardinalityType
  <2>5. Cardinality(Skipped(w)') <= removals'[w]
    BY <1>1, <1>3, <1>13, <2>4
  <2>6. repeats'[w] + Cardinality(Again(w)') <= shifts'[w]
    BY <1>1, <1>3, <1>6, <1>10, <1>12, <2>1
  <2> QED
    BY <1>1, <1>8, <1>15, <2>5, <2>6 DEF Walking
<1>16. CASE /\ pc'[w] = "done" /\ offset'[w] = o
            /\ ~ \E c \in S : Place(S, lastAt, c) = n
  <2>1. ASSUME NEW c \in S PROVE Place(S, lastAt, c) < n
    <3>1. ASSUME n <= Place(S, lastAt, c) PROVE FALSE
      <4>1. \E d \in S : Place(S, lastAt, d) = n
        BY <1>1, <1>2, <3>1, PlacesDense
      <4> QED
        BY <1>16, <4>1
    <3> QED
      BY <1>1, <1>2, <3>1
  <2>2. Missed(w)' \subseteq skipped
    <3>1. SUFFICES ASSUME NEW c \in Missed(w)' PROVE c \in skipped
      OBVIOUS
    <3>2. c \in Z /\ c \notin deleted /\ c \in first'[w]
      BY <1>3 DEF Missed, Z
    <3>3. c \in S
      BY <1>3, <1>8, <3>2 DEF S, Active
    <3> QED
      BY <1>14, <2>1, <3>2, <3>3
  <2>3. /\ Cardinality(Missed(w)') <= Cardinality(skipped)
        /\ Cardinality(Missed(w)') \in Nat
    BY <1>13, <2>2, FS_Subset, FS_CardinalityType
  <2>4. Cardinality(Missed(w)') <= removals'[w]
    BY <1>1, <1>3, <1>13, <2>3
  <2>5. repeats'[w] <= shifts'[w]
    BY <1>1, <1>3, <1>6, <1>10, <1>12
  <2> QED
    BY <1>8, <1>16, <2>4, <2>5 DEF Walking
<1> QED
  BY <1>6, <1>15, <1>16

LEMMA WalkStep ==
    ASSUME PagesAssumption, PagesInv, TypeOK', WalkInv, [Next]_vars
    PROVE  WalkInv'
<1> SUFFICES ASSUME NEW w \in Lists PROVE Walking(w)'
  BY StampsStep DEF WalkInv
<1>0. TypeOK /\ StampsFresh /\ Walking(w)
  BY DEF PagesInv, WalkInv
<1>1. w \in Walks /\ w \notin Calls /\ w \notin Histories
  BY <1>0, WalkTypes
<1>2. CASE \E c \in Conversations : Create(c)
  BY <1>0, <1>2, WalkCreated
<1>3. CASE \E t \in Turns : CommitTurn(t)
  BY <1>0, <1>3, WalkTurned
<1>4. CASE \E d \in Deletions : Delete(d)
  BY <1>0, <1>4, WalkDeleted
<1>5. CASE ListPage(w)
  BY <1>0, <1>5, WalkGoesOn
<1>6. ASSUME UNCHANGED <<pc[w], offset[w], seen[w], repeats[w], first[w]>>,
             UNCHANGED <<rows, deleted, lastAt>>,
             UNCHANGED <<moved[w], shifts[w], removals[w]>>
      PROVE  Walking(w)'
  BY <1>0, <1>6, WalkUndisturbed
<1>7. CASE \E x \in Calls : Require(x) \/ GiveUp(x)
  BY <1>0, <1>1, <1>6, <1>7
     DEF Require, GiveUp, Goto, TypeOK, conversationVars, walkVars, changes
<1>8. CASE \E t \in Turns : AppendMessages(t)
  <2> PICK t \in Turns : AppendMessages(t)
    BY <1>8
  <2>1. t # w
    BY <1>1 DEF Calls
  <2> QED
    BY <1>0, <1>1, <1>6, <2>1
       DEF AppendMessages, Goto, TypeOK, conversationVars, walkVars, changes
<1>9. CASE \E v \in Lists : v # w /\ ListPage(v)
  <2> PICK v \in Lists : v # w /\ ListPage(v)
    BY <1>9
  <2>1. v \in Walks
    BY DEF Walks
  <2>2. UNCHANGED <<pc[w], offset[w], seen[w], repeats[w], first[w]>>
    BY <1>0, <1>1, <2>1 DEF ListPage, Deliver, Goto, TypeOK
  <2>3. /\ UNCHANGED <<rows, deleted, lastAt>>
        /\ UNCHANGED <<moved[w], shifts[w], removals[w]>>
    BY <1>0 DEF ListPage, TypeOK, conversationVars
  <2> QED
    BY <1>6, <2>2, <2>3
<1>10. CASE \E v \in Histories : RequireHistory(v)
  BY <1>0, <1>1, <1>6, <1>10
     DEF RequireHistory, Goto, TypeOK, conversationVars, walkVars, changes
<1>11. CASE \E v \in Histories : HistoryPage(v)
  <2> PICK v \in Histories : HistoryPage(v)
    BY <1>11
  <2>1. UNCHANGED <<pc[w], offset[w], seen[w], repeats[w], first[w]>>
    BY <1>0, <1>1 DEF HistoryPage, Deliver, Goto, TypeOK
  <2>2. /\ UNCHANGED <<rows, deleted, lastAt>>
        /\ UNCHANGED <<moved[w], shifts[w], removals[w]>>
    BY DEF HistoryPage, conversationVars, changes
  <2> QED
    BY <1>6, <2>1, <2>2
<1>12. CASE UNCHANGED vars
  BY <1>6, <1>12 DEF vars, conversationVars, walkVars, changes
<1> QED
  BY <1>2, <1>3, <1>4, <1>5, <1>7, <1>8, <1>9, <1>10, <1>11, <1>12 DEF Next

LEMMA WalkInvHolds == Spec => []WalkInv
<1>1. Init => WalkInv
  BY WalkInit, PagesAssumption
<1>2. PagesInv /\ PagesInv' /\ WalkInv /\ [Next]_vars => WalkInv'
  <2>1. PagesInv' => TypeOK'
    BY DEF PagesInv
  <2> QED
    BY <2>1, PagesAssumption, WalkStep
<1> QED
  BY <1>1, <1>2, PagesInvHolds, PTL DEF Spec

(* A client that pages through the list while it is in motion is given its *)
(* user's conversations only, at most as many again as were created or     *)
(* moved meanwhile, and misses at most as many untouched ones as were      *)
(* deleted (base.py:101-115, conversations.py:56-62).                      *)
THEOREM ListsLoseLittle == Spec => []ListWalk
<1>1. PagesInv /\ WalkInv => ListWalk
  <2> SUFFICES ASSUME PagesInv, WalkInv, NEW w \in Lists
               PROVE  /\ \A c \in seen[w] : OwnerOf[c] = CallerOf[w]
                      /\ repeats[w] <= shifts[w]
                      /\ pc[w] = "done" => Cardinality(Missed(w)) <= removals[w]
    BY DEF ListWalk
  <2>1. Walking(w) /\ TypeOK
    BY DEF WalkInv, PagesInv
  <2>2. /\ repeats[w] \in Nat /\ shifts[w] \in Nat
        /\ Cardinality(Again(w)) \in Nat
    BY <2>1, WalkTypes, PagesAssumption
  <2>3. repeats[w] <= shifts[w]
    BY <2>1, <2>2 DEF Walking
  <2> QED
    BY <2>1, <2>3 DEF Walking
<1> QED
  BY <1>1, PagesInvHolds, WalkInvHolds, PTL

=============================================================================
