-------------------------- MODULE ConversationPages --------------------------
(***************************************************************************)
(* What a user sees of the conversations: the list of conversations, most  *)
(* recent first, and the message history of one, both read page by page    *)
(* with core/crud/base.py, while conversations are created, get turns and  *)
(* are deleted.  A page is one SELECT with OFFSET and LIMIT in a request   *)
(* of its own, and a client goes on at next_offset, so the rows may move   *)
(* between two pages.                                                      *)
(*                                                                         *)
(* Identifiers are UUIDv7, so they are numbers that grow with the time of  *)
(* creation.  The messages of a conversation are numbered from 1 without   *)
(* gap (TranscriptOrdered of ConversationTurns).  The clock is the time    *)
(* that last_message_at is taken from; it is one for all processes.        *)
(***************************************************************************)
EXTENDS Naturals, FiniteSets

CONSTANTS
    Conversations,   \* identifiers, of conversations that exist or are created
    Existing,        \* those that exist at first
    Turns,           \* submissions that get as far as _begin_turn
    Deletions,       \* calls of delete_conversation
    Lists,           \* clients that page through list_conversations
    Histories,       \* clients that page through list_messages
    Users,
    OwnerOf,         \* conversations.user_id
    CallerOf,        \* the user of each call and client
    ConvOf,          \* the conversation each of them asks for
    Limit,           \* the page size each client asks for
    Nobody           \* the NULL purge_after_at

Walks == Lists \cup Histories
Calls == Turns \cup Deletions

ASSUME PagesAssumption ==
    /\ Conversations \subseteq Nat \ {0} /\ IsFiniteSet(Conversations)
    /\ Existing \subseteq Conversations
    /\ Turns \cap Deletions = {} /\ Lists \cap Histories = {}
    /\ Calls \cap Walks = {}
    /\ OwnerOf \in [Conversations -> Users]
    /\ CallerOf \in [Calls \cup Walks -> Users]
    /\ ConvOf \in [Calls \cup Histories -> Conversations]
    /\ Limit \in [Walks -> 1 .. 100]
    /\ Nobody \notin Deletions

VARIABLES
    rows,            \* the conversations in the table
    lastAt,          \* last_message_at, 0 when it is NULL
    latest,          \* latest_message_sequence
    deleted,         \* the conversations with status and deleted_at set
    purgeAt,         \* purge_after_at, by the deletion that computed it
    purges,          \* data_deletion_requests, by the deletion that added one
    clock,           \* the time
    pc,              \* where each call and each client stands
    stamp,           \* the last_message_at that a turn is about to commit
    offset,          \* the offset of a client's next page
    seen,            \* the rows a client has been given
    repeats,         \* how many of them it was given again
    first,           \* what a walk could have shown when it began
    moved,           \* the conversations that had a turn since
    shifts, removals \* how often since then a conversation was put in front
                     \* of others, or removed

conversationVars == <<rows, lastAt, latest, deleted, purgeAt, purges>>
walkVars == <<offset, seen, repeats, first>>
changes == <<moved, shifts, removals>>
vars == <<conversationVars, clock, pc, stamp, walkVars, changes>>

TypeOK ==
    /\ rows \subseteq Conversations
    /\ lastAt \in [Conversations -> Nat]
    /\ latest \in [Conversations -> Nat]
    /\ deleted \subseteq rows
    /\ purgeAt \in [Conversations -> Deletions \cup {Nobody}]
    /\ purges \subseteq Deletions
    /\ clock \in Nat
    /\ pc \in [Calls \cup Walks -> {"idle", "required", "flushed", "done",
                                    "not_found", "lost", "paging"}]
    /\ stamp \in [Turns -> Nat]
    /\ offset \in [Walks -> Nat]
    /\ seen \in [Walks -> SUBSET Nat]
    /\ repeats \in [Walks -> Nat]
    /\ first \in [Walks -> SUBSET Nat]
    /\ moved \in [Lists -> SUBSET Conversations]
    /\ shifts \in [Lists -> Nat]
    /\ removals \in [Lists -> Nat]

Init ==
    /\ rows = Existing
    /\ lastAt = [c \in Conversations |-> 0]
    /\ latest = [c \in Conversations |-> 0]
    /\ deleted = {}
    /\ purgeAt = [c \in Conversations |-> Nobody]
    /\ purges = {}
    /\ clock = 0
    /\ pc = [x \in Calls \cup Walks |-> "idle"]
    /\ stamp = [t \in Turns |-> 0]
    /\ offset = [w \in Walks |-> 0]
    /\ seen = [w \in Walks |-> {}]
    /\ repeats = [w \in Walks |-> 0]
    /\ first = [w \in Walks |-> {}]
    /\ moved = [w \in Lists |-> {}]
    /\ shifts = [w \in Lists |-> 0]
    /\ removals = [w \in Lists |-> 0]

Goto(x, stage) == pc' = [pc EXCEPT ![x] = stage]

-----------------------------------------------------------------------------
(* core/crud/base.py.                                                      *)

(* _active_statement: the user's conversations that are not deleted.       *)
Active(user) == {c \in rows \ deleted : OwnerOf[c] = user}

(* require: one of them, or a 404.                                         *)
Required(x) == ConvOf[x] \in Active(CallerOf[x])

(* A slip, for the mutation runs: the order is ascending.                  *)
PrecedesAscending(c, d) ==
    lastAt[c] < lastAt[d] \/ (lastAt[c] = lastAt[d] /\ c < d)

(* ORDER BY last_message_at DESC NULLS LAST, id DESC.                      *)
Precedes(c, d) == lastAt[c] > lastAt[d] \/ (lastAt[c] = lastAt[d] /\ c > d)

(* The rows of a statement, each with the number of rows before it.        *)
Listing(user) ==
    [c \in Active(user) |-> Cardinality({d \in Active(user) : Precedes(d, c)})]

Transcript(c) == [n \in 1 .. latest[c] |-> n - 1]

(* _get_page: the rows from offset on, at most limit of them.              *)
Page(positions, from, limit) ==
    {x \in DOMAIN positions : positions[x] \in from .. from + limit - 1}

(* A slip: the sentinel row is counted as shown.                           *)
HasMoreBeyond(positions, from, limit) ==
    \E x \in DOMAIN positions : positions[x] = from + limit + 1

(* The sentinel row, the one after limit others, says that there is more.  *)
HasMore(positions, from, limit) ==
    \E x \in DOMAIN positions : positions[x] = from + limit

NextOffset(from, limit) == from + limit

(* A client is given a page, and goes on at next_offset or has ended.      *)
Deliver(w, positions) ==
    LET page == Page(positions, offset[w], Limit[w]) IN
    /\ seen' = [seen EXCEPT ![w] = @ \cup page]
    /\ repeats' = [repeats EXCEPT ![w] = @ + Cardinality(page \cap seen[w])]
    /\ first' = IF offset[w] = 0 THEN [first EXCEPT ![w] = DOMAIN positions]
                                 ELSE first
    /\ IF HasMore(positions, offset[w], Limit[w])
       THEN /\ Goto(w, "paging")
            /\ offset' = [offset EXCEPT ![w] = NextOffset(@, Limit[w])]
       ELSE Goto(w, "done") /\ UNCHANGED offset

-----------------------------------------------------------------------------
(* The handlers of api/v1/conversations.py.                                *)

(* The walks that have begun: what they are told of a conversation that is *)
(* put in front of others, or no longer listed.                            *)
Begun == {w \in Lists : pc[w] = "paging"}
Count(counter, c) ==
    [w \in Lists |-> IF w \in Begun /\ CallerOf[w] = OwnerOf[c]
                      THEN counter[w] + 1 ELSE counter[w]]

(* create_conversation: one insertion, committed.                          *)
Create(c) ==
    /\ c \notin rows
    /\ rows' = rows \cup {c}
    /\ shifts' = Count(shifts, c)
    /\ UNCHANGED <<lastAt, latest, deleted, purgeAt, purges, clock, pc, stamp,
                   walkVars, moved, removals>>

(* submit_message and delete_conversation resolve the conversation.        *)
Require(x) ==
    /\ pc[x] = "idle"
    /\ Goto(x, IF Required(x) THEN "required" ELSE "not_found")
    /\ UNCHANGED <<conversationVars, clock, stamp, walkVars, changes>>

(* _begin_turn up to its commit: _append_message reads the clock.  The     *)
(* unique index of active runs admits one turn of a conversation.          *)
AppendMessages(t) ==
    /\ pc[t] = "required"
    /\ \A u \in Turns : ConvOf[u] = ConvOf[t] => pc[u] # "flushed"
    /\ clock' = clock + 1
    /\ stamp' = [stamp EXCEPT ![t] = clock']
    /\ Goto(t, "flushed")
    /\ UNCHANGED <<conversationVars, walkVars, changes>>

(* A slip: the whole row is written back, as it was when it was read.      *)
CommitTurnWholeRow(t) ==
    LET c == ConvOf[t] IN
    /\ pc[t] = "flushed"
    /\ lastAt' = [lastAt EXCEPT ![c] = stamp[t]]
    /\ latest' = [latest EXCEPT ![c] = @ + 2]
    /\ deleted' = deleted \ {c}
    /\ moved' = [w \in Lists |-> moved[w] \cup {c}]
    /\ shifts' = Count(shifts, c)
    /\ Goto(t, "done")
    /\ UNCHANGED <<rows, purgeAt, purges, clock, stamp, walkVars, removals>>

(* _begin_turn commits: two messages, and of the conversation's row the    *)
(* columns it has assigned.                                                *)
CommitTurn(t) ==
    LET c == ConvOf[t] IN
    /\ pc[t] = "flushed"
    /\ lastAt' = [lastAt EXCEPT ![c] = stamp[t]]
    /\ latest' = [latest EXCEPT ![c] = @ + 2]
    /\ moved' = [w \in Lists |-> moved[w] \cup {c}]
    /\ shifts' = Count(shifts, c)
    /\ Goto(t, "done")
    /\ UNCHANGED <<rows, deleted, purgeAt, purges, clock, stamp, walkVars,
                   removals>>

(* A turn that is refused as busy, fails or is lost before its commit, and *)
(* a deletion that is lost.                                                *)
GiveUp(x) ==
    /\ pc[x] \in {"required", "flushed"}
    /\ Goto(x, "lost")
    /\ UNCHANGED <<conversationVars, clock, stamp, walkVars, changes>>

(* A slip: the row is removed although its purge is still to come.         *)
DeleteRow(d) ==
    LET c == ConvOf[d] IN
    /\ pc[d] = "required"
    /\ rows' = rows \ {c}
    /\ deleted' = deleted \cup {c}
    /\ purgeAt' = [purgeAt EXCEPT ![c] = d]
    /\ purges' = purges \cup {d}
    /\ removals' = IF c \in deleted THEN removals ELSE Count(removals, c)
    /\ Goto(d, "done")
    /\ UNCHANGED <<lastAt, latest, clock, stamp, walkVars, moved, shifts>>

(* delete_conversation: the row read before is marked, whatever has        *)
(* happened to it since, and a purge request commits with it.              *)
Delete(d) ==
    LET c == ConvOf[d] IN
    /\ pc[d] = "required"
    /\ deleted' = deleted \cup {c}
    /\ purgeAt' = [purgeAt EXCEPT ![c] = d]
    /\ purges' = purges \cup {d}
    /\ removals' = IF c \in deleted THEN removals ELSE Count(removals, c)
    /\ Goto(d, "done")
    /\ UNCHANGED <<rows, lastAt, latest, clock, stamp, walkVars, moved, shifts>>

(* list_conversations.                                                     *)
ListPage(w) ==
    /\ pc[w] \in {"idle", "paging"}
    /\ Deliver(w, Listing(CallerOf[w]))
    /\ moved' = IF offset[w] = 0 THEN [moved EXCEPT ![w] = {}] ELSE moved
    /\ UNCHANGED <<conversationVars, clock, stamp, shifts, removals>>

(* list_messages, or get_conversation for the first page: the conversation *)
(* is resolved, then its messages are read in a second statement.          *)
RequireHistory(w) ==
    /\ pc[w] \in {"idle", "paging"}
    /\ Goto(w, IF Required(w) THEN "required" ELSE "not_found")
    /\ UNCHANGED <<conversationVars, clock, stamp, walkVars, changes>>

HistoryPage(w) ==
    /\ pc[w] = "required"
    /\ Deliver(w, Transcript(ConvOf[w]))
    /\ UNCHANGED <<conversationVars, clock, stamp, changes>>

Next ==
    \/ \E c \in Conversations : Create(c)
    \/ \E t \in Turns : AppendMessages(t) \/ CommitTurn(t)
    \/ \E d \in Deletions : Delete(d)
    \/ \E x \in Calls : Require(x) \/ GiveUp(x)
    \/ \E w \in Lists : ListPage(w)
    \/ \E w \in Histories : RequireHistory(w) \/ HistoryPage(w)

Spec == Init /\ [][Next]_vars

-----------------------------------------------------------------------------

(* A client that reads a history by next_offset gets every message once,   *)
(* in order and without a gap, although turns append while it reads; and   *)
(* when it has ended it has whole turns, at least those there were at      *)
(* first (base.py:101-115, messages.py:31-34).  Only the owner gets any.   *)
HistoryWalk ==
    \A w \in Histories :
        /\ seen[w] = 1 .. Cardinality(seen[w])
        /\ repeats[w] = 0
        /\ pc[w] = "paging" => Cardinality(seen[w]) = offset[w]
        /\ pc[w] = "done" => /\ first[w] \subseteq seen[w]
                             /\ Cardinality(seen[w]) % 2 = 0
        /\ seen[w] # {} => OwnerOf[ConvOf[w]] = CallerOf[w]

(* The conversations a finished walk of the list has missed: those that it *)
(* could have shown when it began, that had no turn and are not deleted.   *)
Missed(w) == (first[w] \ seen[w]) \ (moved[w] \cup deleted)

(* The list is in motion while a client reads it: a turn puts its          *)
(* conversation in front, with a time that may be older than that of a     *)
(* turn committed before it; a creation adds one and a deletion removes    *)
(* one.  Every such change costs a client at most one row: it misses at    *)
(* most as many untouched conversations as were deleted, and is given at   *)
(* most as many again as were created or moved, all of them its user's     *)
(* (base.py:101-115, conversations.py:56-62).                              *)
ListWalk ==
    \A w \in Lists :
        /\ \A c \in seen[w] : OwnerOf[c] = CallerOf[w]
        /\ repeats[w] <= shifts[w]
        /\ pc[w] = "done" => Cardinality(Missed(w)) <= removals[w]

(* A conversation is deleted exactly if its purge is scheduled, and at the *)
(* time its row records; so also after two deletions at once, and after    *)
(* turns that read the row before it was deleted and write it later        *)
(* (services/crud/conversations.py:72-92, base.py:117-125).                *)
PurgeScheduled ==
    \A c \in Conversations :
        /\ c \in deleted <=> \E d \in purges : ConvOf[d] = c
        /\ c \in deleted => purgeAt[c] \in purges /\ ConvOf[purgeAt[c]] = c
        /\ \A d \in purges : CallerOf[d] = OwnerOf[ConvOf[d]]

=============================================================================
