---------------------------- MODULE ChatSnapshot ----------------------------
(***************************************************************************)
(* The chat of one room in the API: the routes that write (POST /chat with *)
(* its rate limit, hide and unhide) and GET /chat with its cache of one    *)
(* second, keyed by a version every write raises.  What the messages say   *)
(* is left out: the table is a number of changes, a page is the number of  *)
(* changes it shows.  A ban is an answer the database may give (403).      *)
(*                                                                         *)
(* One action is the code between two awaits.                              *)
(***************************************************************************)
EXTENDS Naturals, FiniteSets, FiniteSetsExt

CONSTANTS
    Users,     \* those who write messages
    Writers,   \* writing requests that can be under way together
    Readers,   \* the same for GET /chat
    Parts,     \* the parts of a page, read side by side
    Queries,   \* what a GET asks for: viewer or host, and after
    None,      \* no entry, no value
    MaxChanges, \* bound: changes of the table
    MaxFaults  \* bound: failing calls and restarts of the API

ASSUME ChatSnapshotAssumption ==
    /\ MaxChanges \in Nat /\ MaxFaults \in Nat
    /\ Parts \subseteq {"messages", "hidden", "cursor"}
    /\ None \notin Nat /\ None \notin Users
    /\ IsFiniteSet(Queries) /\ IsFiniteSet(Readers) /\ IsFiniteSet(Writers)

VARIABLES
    now,     \* changes in chat_messages
    version, \* chat:ver:*
    cache,   \* chat:snap:*: by version and query
    limit,   \* chat:rl:*: no counter, one without a TTL, one with a TTL
    read,    \* GET /chat
    answer,  \* the page this step answered a GET with
    write,   \* the writing requests
    faults

redis  == <<version, cache, limit>>
vars   == <<now, redis, read, answer, write, faults>>

Versions == 0 .. MaxChanges
Counts   == 0 .. MaxChanges
Nothing  == [p \in Parts |-> None]
Page     == [Parts -> Counts]

NoRead   == [pc |-> "idle", ver |-> 0, query |-> None, got |-> Nothing, floor |-> 0]
NoWrite  == [pc |-> "idle", user |-> None, index |-> 0]

TypeOK ==
    /\ now \in Counts /\ version \in Versions /\ version <= now
    /\ cache \in [Versions -> [Queries -> Page \cup {None}]]
    /\ limit \in [Users -> {"none", "endless", "window"}]
    /\ read \in [Readers -> [pc : {"idle", "lookup", "query"}, ver : Versions,
                             query : Queries \cup {None},
                             got : [Parts -> Counts \cup {None}], floor : Counts]]
    /\ answer \in Page \cup {None}
    /\ write \in [Writers -> [pc : {"idle", "ban", "limit", "expire", "store", "moderate",
                                    "bump", "answer"},
                              user : Users \cup {None}, index : Counts]]
    /\ faults \in 0 .. MaxFaults

Init ==
    /\ now = 0 /\ version = 0
    /\ cache = [v \in Versions |-> [q \in Queries |-> None]]
    /\ limit = [u \in Users |-> "none"]
    /\ read = [r \in Readers |-> NoRead]
    /\ answer = None
    /\ write = [w \in Writers |-> NoWrite]
    /\ faults = 0

\* The pages a request that arrives now can still be answered from: cached
\* under today's version, or being read to be cached under it.
Cached  == {cache[version][q] : q \in Queries} \ {None}
Filling == {r \in Readers : read[r].pc = "query" /\ read[r].ver = version}
Shown   == {page[p] : page \in Cached, p \in Parts}
           \cup {read[r].got[p] : r \in Filling, p \in Parts}
Settled == Min({now} \cup (Shown \ {None}))

-----------------------------------------------------------------------------
(* GET /rooms/:id/chat: getChatSnapshot.                                   *)

Silent == answer' = None

BeginGet(r, q) ==
    /\ read[r].pc = "idle"
    /\ read' = [read EXCEPT ![r] =
                  [pc |-> "lookup", ver |-> version, query |-> q,
                   got |-> Nothing, floor |-> Settled]]
    /\ UNCHANGED <<now, redis, write, faults>>
    /\ Silent

Respond(r, page) ==
    /\ answer' = page
    /\ read' = [read EXCEPT ![r] = NoRead]

\* A hit is the answer.
Hit(r) ==
    /\ read[r].pc = "lookup" /\ cache[read[r].ver][read[r].query] # None
    /\ Respond(r, cache[read[r].ver][read[r].query])
    /\ UNCHANGED <<now, redis, write, faults>>

Miss(r) ==
    /\ read[r].pc = "lookup" /\ cache[read[r].ver][read[r].query] = None
    /\ read' = [read EXCEPT ![r].pc = "query"]
    /\ UNCHANGED <<now, redis, write, faults>>
    /\ Silent

\* listChat, getRecentHiddenIds and getChatCursor run side by side.
Query(r, p) ==
    /\ read[r].pc = "query" /\ read[r].got[p] = None
    /\ read' = [read EXCEPT ![r].got[p] = now]
    /\ UNCHANGED <<now, redis, write, faults>>
    /\ Silent

\* The page goes into the cache under the version read first.
VersionAtStore(r) == version
VersionOf(r)      == read[r].ver
Store(r) ==
    /\ read[r].pc = "query" /\ \A p \in Parts : read[r].got[p] # None
    /\ cache' = [cache EXCEPT ![VersionOf(r)][read[r].query] = read[r].got]
    /\ Respond(r, read[r].got)
    /\ UNCHANGED <<now, version, limit, write, faults>>

-----------------------------------------------------------------------------
(* The routes that write.                                                  *)

Step(w, p)   == write' = [write EXCEPT ![w].pc = p]
Begin(w, u, p) ==
    /\ write[w].pc = "idle"
    /\ now + Cardinality({x \in Writers : write[x].pc # "idle"}) < MaxChanges
    /\ write' = [write EXCEPT ![w] = [pc |-> p, user |-> u, index |-> 0]]
    /\ UNCHANGED <<now, redis, read, faults>>
    /\ Silent
Finish(w)    == write' = [write EXCEPT ![w] = NoWrite]

\* POST /chat; the room was not ended.
BeginPost(w, u) == Begin(w, u, "ban")

CheckBan(w) ==
    /\ write[w].pc = "ban"
    /\ Finish(w) \/ Step(w, "limit")
    /\ UNCHANGED <<now, redis, read, faults>>
    /\ Silent

\* enforceRateLimit: the first of a window starts its clock (here one message
\* is allowed in a window).
FirstOfWindow(u) == limit[u] = "none"
CountPost(w) ==
    LET u == write[w].user
    IN  /\ write[w].pc = "limit"
        /\ limit' = [limit EXCEPT ![u] = IF @ = "none" THEN "endless" ELSE @]
        /\ IF FirstOfWindow(u) THEN Step(w, "expire") ELSE Finish(w)
        /\ UNCHANGED <<now, version, cache, read, faults>>
        /\ Silent

StartWindow(w) ==
    /\ write[w].pc = "expire"
    /\ limit' = [limit EXCEPT ![write[w].user] = IF @ = "none" THEN @ ELSE "window"]
    /\ Step(w, "store")
    /\ UNCHANGED <<now, version, cache, read, faults>>
    /\ Silent

\* postChat and setChatHidden: the row first, the version next.
Changed(w, p) ==
    /\ now' = now + 1
    /\ write' = [write EXCEPT ![w].pc = p, ![w].index = now + 1]
NotBumped(w) ==
    /\ write[w].pc \in {"store", "moderate"}
    /\ Changed(w, "answer")
    /\ UNCHANGED <<redis, read, faults>>
    /\ Silent
ChangeRow(w) ==
    /\ write[w].pc \in {"store", "moderate"}
    /\ Changed(w, "bump")
    /\ UNCHANGED <<redis, read, faults>>
    /\ Silent

BumpVersion(w) ==
    /\ write[w].pc = "bump"
    /\ version' = version + 1
    /\ Step(w, "answer")
    /\ UNCHANGED <<now, cache, limit, read, faults>>
    /\ Silent

\* The push to LiveKit, whose failure is ignored, and 201 or 200.
AnswerWrite(w) ==
    /\ write[w].pc = "answer"
    /\ Finish(w)
    /\ UNCHANGED <<now, redis, read, faults>>
    /\ Silent

\* POST /chat/:messageId/hide and unhide.
BeginModerate(w) == Begin(w, None, "moderate")

-----------------------------------------------------------------------------
(* Redis, and what goes wrong.                                             *)

\* PX 1000.
KeptForEver(v, q) ==
    /\ cache[v][q] # None
    /\ UNCHANGED vars
PageExpires(v, q) ==
    /\ cache[v][q] # None
    /\ cache' = [cache EXCEPT ![v][q] = None]
    /\ UNCHANGED <<now, version, limit, read, write, faults>>
    /\ Silent

LimitExpires(u) ==
    /\ limit[u] = "window"
    /\ limit' = [limit EXCEPT ![u] = "none"]
    /\ UNCHANGED <<now, version, cache, read, write, faults>>
    /\ Silent

\* A call to Postgres or Redis is rejected: 500, at whatever point.
ReadFails(r) ==
    /\ faults < MaxFaults /\ read[r].pc # "idle"
    /\ faults' = faults + 1
    /\ read' = [read EXCEPT ![r] = NoRead]
    /\ UNCHANGED <<now, redis, write>>
    /\ Silent

WriteFails(w) ==
    /\ faults < MaxFaults /\ write[w].pc # "idle"
    /\ faults' = faults + 1
    /\ Finish(w)
    /\ UNCHANGED <<now, redis, read>>
    /\ Silent

Restart ==
    /\ faults < MaxFaults
    /\ faults' = faults + 1
    /\ read' = [r \in Readers |-> NoRead]
    /\ write' = [w \in Writers |-> NoWrite]
    /\ UNCHANGED <<now, redis>>
    /\ Silent

Get(r)  == Hit(r) \/ Miss(r) \/ Store(r) \/ \E p \in Parts : Query(r, p)
Post(w) == CheckBan(w) \/ CountPost(w) \/ StartWindow(w) \/ ChangeRow(w)
           \/ BumpVersion(w) \/ AnswerWrite(w)

Next ==
    \/ \E r \in Readers : Get(r) \/ ReadFails(r) \/ \E q \in Queries : BeginGet(r, q)
    \/ \E w \in Writers : \/ Post(w) \/ WriteFails(w) \/ BeginModerate(w)
                          \/ \E u \in Users : BeginPost(w, u)
    \/ \E u \in Users : LimitExpires(u)
    \/ \E v \in Versions, q \in Queries : PageExpires(v, q)
    \/ Restart

Spec == Init /\ [][Next]_vars

\* Handlers go on and TTLs run out; requests are nobody's duty.
Fairness ==
    /\ \A r \in Readers : WF_vars(Get(r))
    /\ \A w \in Writers : WF_vars(Post(w))
    /\ \A u \in Users : WF_vars(LimitExpires(u))
    /\ \A v \in Versions, q \in Queries : WF_vars(PageExpires(v, q))

FairSpec == Spec /\ Fairness

-----------------------------------------------------------------------------
(* What the chat promises.                                                 *)

\* The cache is invisible but for the freedom FreshReads leaves: an answer never
\* misses a change that was settled when the request came in, and what is settled
\* stays settled, whichever requests fill the cache late.
Floor(r) == IF read[r].pc = "idle" THEN None ELSE read[r].floor
Fresh == INSTANCE FreshReads
    WITH settled <- Settled, floor <- [r \in Readers |-> Floor(r)]
ReadsAreFresh == Fresh!Spec

\* getChatSnapshot's note: a writer who has an answer has every later request see
\* the change, without waiting for the second the cache lasts.
AnsweredIsSeen == \A w \in Writers : write[w].pc = "answer" => Settled >= write[w].index

\* A change whose writer never answered (the version was not raised) is seen too.
ChangesSettle == \A n \in 1 .. MaxChanges : now >= n ~> Settled >= n

\* A counter without TTL, and no request that is about to give it one.
Stuck(u) ==
    limit[u] = "endless" /\ \A w \in Writers : write[w].user = u => write[w].pc # "expire"

\* The rate limit: one message, not silence.  The counter goes, or a fault has come
\* exactly between the two Redis calls that make it: such a counter stays for good.
SilenceEnds ==
    /\ \A u \in Users : limit[u] # "none" ~> limit[u] = "none" \/ Stuck(u)
    /\ []\A u \in Users : Stuck(u) => faults > 0

\* Faults heal, but for that one: a change whose version was not raised is seen when the
\* cached page's TTL is over, and a writer's silence ends with its window.
FaultsHeal == ChangesSettle /\ SilenceEnds
=============================================================================
