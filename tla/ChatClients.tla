---------------------------- MODULE ChatClients ----------------------------
(***************************************************************************)
(* One browser that follows the chat of a room: RealtimeChat of the host   *)
(* or of a participant (pushes over the data channel, and a GET every 4 s) *)
(* or PollChat of an HLS viewer (a GET every 3 s that carries a cursor).   *)
(* The timers do not wait for the answer, so GETs overlap.  The server is  *)
(* the one of FreshReads, which ChatSnapshot implements: each part of an   *)
(* answer shows the table at a moment of its own, not before the changes   *)
(* that were settled when the GET arrived.                                 *)
(***************************************************************************)
EXTENDS Naturals, Sequences, FiniteSets

CONSTANTS
    Ids,     \* ids of messages, in the order they are allocated
    Gets,    \* GETs of this client that can be under way together
    None,    \* no GET, no cursor
    History, \* HISTORY_LIMIT, 50 in the code
    Page,    \* PAGE_LIMIT, 200 in the code
    Keep,    \* what mergeMessages keeps, 200 in the code
    Kinds,   \* bound: the kinds of client the instance looks at
    MaxChanges, \* bound: changes of the table
    MaxFaults   \* bound: GETs that fail

ChatClientsAssumption ==
    /\ Ids \subseteq Nat \ {0} /\ None \notin Nat
    /\ Kinds \subseteq {"host", "viewer", "poller"}
    /\ {History, Page, Keep} \subseteq Nat \ {0} /\ History <= Keep
    /\ MaxChanges \in Nat /\ MaxFaults \in Nat

VARIABLES
    table,   \* the changes of chat_messages, in the order they were committed
    settled, \* changes that every GET from now on sees
    kind,    \* the component this browser runs
    shown,   \* its list: by message, "absent", "plain" or "hidden"
    cursor,  \* cursorRef of PollChat
    get,     \* its GETs: after, and the changes settled when it arrived
    due,     \* pushes, and answers to its own POSTs, that may still come
    faults

vars == <<table, settled, kind, shown, cursor, get, due, faults>>

now == Len(table)

TypeOK ==
    /\ table \in Seq([op : {"post", "hide", "unhide"}, id : Ids])
    /\ settled \in 0 .. now
    /\ kind \in Kinds
    /\ shown \in [Ids -> {"absent", "plain", "hidden"}]
    /\ Cardinality({m \in Ids : shown[m] # "absent"}) <= Keep
    /\ cursor \in Ids \cup {0, None}
    /\ get \in [Gets -> [after : Ids \cup {0, None}, floor : 0 .. now] \cup {None}]
    /\ due \subseteq 1 .. now
    /\ faults \in 0 .. MaxFaults

Init ==
    /\ table = <<>> /\ settled = 0
    /\ kind \in Kinds
    /\ shown = [m \in Ids |-> "absent"]
    /\ cursor = None
    /\ get = [g \in Gets |-> None]
    /\ due = {} /\ faults = 0

-----------------------------------------------------------------------------
(* The table after k changes, and what the queries read from it.           *)

Newest(S, n) == {m \in S : Cardinality({x \in S : x > m}) < n}
Oldest(S, n) == {m \in S : Cardinality({x \in S : x < m}) < n}

Done(k, op, m) == {i \in 1 .. k : table[i] = [op |-> op, id |-> m]}
Posted(k)      == {m \in Ids : Done(k, "post", m) # {}}
Hidden(k)      == {m \in Ids : \E i \in Done(k, "hide", m) :
                                  \A j \in Done(k, "unhide", m) : j < i}

ListChat(k, after, asHost) ==
    LET listed == IF asHost THEN Posted(k) ELSE Posted(k) \ Hidden(k)
    IN  IF after = None THEN Newest(listed, History)
                        ELSE Oldest({m \in listed : m > after}, Page)
GetRecentHiddenIds(k) == Newest(Hidden(k), Page)
GetChatCursor(k)      == CHOOSE c \in Posted(k) \cup {0} : \A m \in Posted(k) : m <= c

-----------------------------------------------------------------------------
(* The room: others post, the host hides and shows again.                  *)

\* Ids are allocated before the insert commits, so they can commit in another
\* order.  Whoever is connected is sent each change once, in whatever order the
\* routes come to it; the send may fail, and then nothing arrives.
Change(op, m) ==
    /\ now < MaxChanges
    /\ table' = Append(table, [op |-> op, id |-> m])
    /\ due' = due \cup {now + 1}
    /\ UNCHANGED <<settled, kind, shown, cursor, get, faults>>

Post(m)   == m \notin Posted(now) /\ Change("post", m)
Hide(m)   == m \in Posted(now) \ Hidden(now) /\ Change("hide", m)
Unhide(m) == m \in Hidden(now) /\ Change("unhide", m)

\* The cached page that misses a change is given up.
Settle ==
    /\ settled < now /\ settled' = now
    /\ UNCHANGED <<table, kind, shown, cursor, get, due, faults>>

-----------------------------------------------------------------------------
(* The client.                                                             *)

\* mergeMessages: an incoming message replaces the one with its id.
Kept(S) == Newest(S, Keep)
Merge(list, incoming) ==
    LET all == {m \in Ids : list[m] # "absent"} \cup DOMAIN incoming
    IN  [m \in Ids |-> IF m \notin Kept(all) THEN "absent"
                       ELSE IF m \in DOMAIN incoming THEN incoming[m] ELSE list[m]]
Without(list, S) == [m \in Ids |-> IF m \in S THEN "absent" ELSE list[m]]
Flagged(list, m, flag) == [list EXCEPT ![m] = IF @ = "absent" THEN @ ELSE flag]

\* reconcile and poll, by their timers.
After == IF kind = "poller" THEN cursor ELSE None
Ask(g) ==
    /\ get[g] = None
    /\ get' = [get EXCEPT ![g] = [after |-> After, floor |-> settled]]
    /\ UNCHANGED <<table, settled, kind, shown, cursor, due, faults>>

\* What the host's answer says of a message, and what the others' say.
Flag(k, m) == IF kind = "host" /\ m \in Hidden(k) THEN "hidden" ELSE "plain"

\* The answer is applied: messages, hiddenIds and cursor were each read at some
\* moment between the GET's arrival and now.
MergedOnly(list, S) == list
FilterHidden(list, S) == IF kind = "host" THEN list ELSE Without(list, S)
Apply(g) ==
    /\ get[g] # None
    /\ \E k \in get[g].floor .. now, h \in get[g].floor .. now :
          LET listed == ListChat(k, get[g].after, kind = "host")
              merged == Merge(shown, [m \in listed |-> Flag(k, m)])
          IN  shown' = FilterHidden(merged, GetRecentHiddenIds(h))
    /\ IF kind = "poller"
       THEN \E c \in get[g].floor .. now : cursor' = GetChatCursor(c)
       ELSE cursor' = cursor
    /\ get' = [get EXCEPT ![g] = None]
    /\ UNCHANGED <<table, settled, kind, due, faults>>

\* "The next period recovers."
GetFails(g) ==
    /\ faults < MaxFaults /\ get[g] # None
    /\ faults' = faults + 1
    /\ get' = [get EXCEPT ![g] = None]
    /\ UNCHANGED <<table, settled, kind, shown, cursor, due>>

\* onData and onSend: a message, without its flag, as it was stored; the HLS
\* viewer has only the answers to its own POSTs.
Message(i) ==
    /\ table[i].op = "post"
    /\ shown' = Merge(shown, [m \in {table[i].id} |-> "plain"])

\* applyModeration.  A viewer waits for the next GET to see a message again.
Moderation(i) ==
    /\ table[i].op # "post" /\ kind # "poller"
    /\ shown' = CASE kind = "host" /\ table[i].op = "hide"   -> Flagged(shown, table[i].id, "hidden")
                  [] kind = "host" /\ table[i].op = "unhide" -> Flagged(shown, table[i].id, "plain")
                  [] kind # "host" /\ table[i].op = "hide"   -> Without(shown, {table[i].id})
                  [] OTHER -> shown

OnData(i) ==
    /\ i \in due
    /\ due' = due \ {i}
    /\ Message(i) \/ Moderation(i)
    /\ UNCHANGED <<table, settled, kind, cursor, get, faults>>

Next ==
    \/ \E m \in Ids : Post(m) \/ Hide(m) \/ Unhide(m)
    \/ \E g \in Gets : Ask(g) \/ Apply(g) \/ GetFails(g)
    \/ \E i \in 1 .. now : OnData(i)
    \/ Settle

Spec == Init /\ [][Next]_vars

\* Apply, or GetFails.
Ends(g) == get[g] # None /\ get' = [get EXCEPT ![g] = None]

\* The page stays open: its timer polls for ever and GETs come to an end; a push
\* is owed to nobody.
Fairness ==
    /\ WF_vars(Settle)
    /\ \A g \in Gets : WF_vars(Ask(g)) /\ WF_get(Ends(g))

FairSpec == Spec /\ Fairness

-----------------------------------------------------------------------------
(* What everyone ends up seeing.                                           *)

Recent(S) == Newest(S, History)

\* Hiding reaches everyone but the host, whatever late answers and late pushes put the
\* message back in between (hiddenIds, in every answer).
HiddenGone ==
    kind # "host" => \A m \in GetRecentHiddenIds(now) : shown[m] = "absent"

\* A lost push is repaired by the GET of the next period: the recent messages
\* are all shown to a participant, those shown again too.
PushesRepaired ==
    kind = "viewer" => \A m \in Recent(Posted(now) \ Hidden(now)) : shown[m] = "plain"

\* The host's list tells the hidden from the others, although a push of the
\* message itself overwrites the flag.
FlagsShown ==
    kind = "host" => \A m \in Recent(Posted(now)) :
                       shown[m] = IF m \in Hidden(now) THEN "hidden" ELSE "plain"

\* However GETs overlap and pushes get lost or late: in the end, and for good, the lists
\* of the host and of the participants show the recent messages as their readers may see
\* them, and the hidden ones have left every list but the host's.  For what else the list
\* of an HLS viewer shows see PollersConverge.
ListsConverge == <>[](HiddenGone /\ PushesRepaired /\ FlagsShown)

\* PollChat's comment: its GETs converge.  Asked only of messages nobody hid, for
\* one that is shown again does not come back by design.
PollersConverge ==
    <>[](kind = "poller" => \A m \in Recent(Posted(now)) :
                               Done(now, "hide", m) = {} => shown[m] = "plain")
=============================================================================
