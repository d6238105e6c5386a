----------------------------- MODULE RoomStock -----------------------------
(***************************************************************************)
(* What piles up in Postgres and what keeps it small: the cap on active    *)
(* rooms, the broadcast pages whose calls can fail half way or be left     *)
(* alone by a closed tab while the server goes on with them, and the       *)
(* retention half of the demo sweeper, which deletes rooms that ended long *)
(* ago and then the users nobody refers to.                                *)
(*                                                                         *)
(* How a live room comes to its end is RoomLifecycle's subject and one     *)
(* action here.  Audit rows are left out: they refer to the room's host    *)
(* and participants and are deleted with it.                               *)
(***************************************************************************)
EXTENDS Naturals, FiniteSets

CONSTANTS
    MaxRooms,  \* bound: the rooms that can be created, in this order
    Users,     \* of stored sessions
    Pages,     \* broadcast pages open together, several of one user among them
    Cap,       \* MAX_CONCURRENT_ROOMS
    Sweeps,    \* sweeps that can overlap (setInterval does not wait)
    None,      \* no room
    MaxVisits, \* bound: visits of viewers
    MaxFaults  \* bound: calls that fail

ASSUME RoomStockAssumption ==
    /\ IsFiniteSet(Pages) /\ Users # {} /\ None \notin Nat \cup Users
    /\ Cap \in Nat \ {0} /\ {MaxRooms, MaxVisits, MaxFaults} \subseteq Nat

VARIABLES
    status,  \* rooms.status
    host,    \* rooms.host_id
    old,     \* rooms that ended before the cutoff of the retention
    parts,   \* room_participants: pairs of a room and a user
    chats,   \* authors of chat_messages, by room
    user,    \* users, with their age against the cutoff
    page,    \* the broadcast pages, each with its call on the server
    sweep,   \* sweepDemoOnce, its retention half
    peak,    \* history: the most calls between their count and their insertion
    visits, faults

Rooms == 1 .. MaxRooms

rooms  == <<status, host, old, parts, chats>>
bounds == <<visits, faults>>
vars   == <<rooms, user, page, sweep, peak, bounds>>

Active == {r \in Rooms : status[r] \in {"created", "live"}}
Exists == {r \in Rooms : status[r] \notin {"none", "purged"}}

\* The foreign keys to users.
Hosts        == {host[r] : r \in Exists}
Participants == {p[2] : p \in parts}
Authors      == {p[2] : p \in chats}
Referred     == Hosts \cup Participants \cup Authors

Steps == {"count", "insert", "host", "token"}
NoPage == [at |-> "setup", user |-> None, room |-> None, left |-> FALSE]

TypeOK ==
    /\ status \in [Rooms -> {"none", "created", "live", "ended", "purged"}]
    /\ host \in [Rooms -> Users \cup {None}]
    /\ old \subseteq Rooms /\ parts \cup chats \subseteq Exists \X Users
    /\ user \in [Users -> {"none", "new", "old", "gone"}]
    /\ page \in [Pages -> [at : Steps \cup {"setup", "room"}, user : Users \cup {None},
                           room : Rooms \cup {None}, left : BOOLEAN]]
    /\ peak \in 0 .. Cardinality(Pages)
    /\ sweep \in [Sweeps -> [at : {"idle", "parts", "hosts", "users"}, users : SUBSET Users]]
    /\ visits \in 0 .. MaxVisits /\ faults \in 0 .. MaxFaults

Idle == [at |-> "idle", users |-> {}]

Init ==
    /\ status = [r \in Rooms |-> "none"] /\ host = [r \in Rooms |-> None]
    /\ old = {} /\ parts = {} /\ chats = {}
    /\ user = [u \in Users |-> "none"]
    /\ page = [p \in Pages |-> NoPage]
    /\ sweep = [k \in Sweeps |-> Idle] /\ peak = 0
    /\ visits = 0 /\ faults = 0

-----------------------------------------------------------------------------
(* The broadcast page: createAndEnter, end.                                *)

At(p, step)   == page[p].at = step
Goto(p, step) == page' = [page EXCEPT ![p].at = step]
Setup(p)      == page' = [page EXCEPT ![p] = NoPage]

Counted == {p \in Pages : At(p, "insert")}

\* ensureSession: a stored session is used for as long as it is stored.  Bound: as
\* many pages as there are rooms left.
SessionOf(u) == IF user[u] = "none" THEN "new" ELSE user[u]
Start(p, u) ==
    /\ At(p, "setup")
    /\ Cardinality({q \in Pages : page[q].at \in {"count", "insert"}})
          < Cardinality({r \in Rooms : status[r] = "none"})
    /\ user' = [user EXCEPT ![u] = SessionOf(u)]
    /\ page' = [page EXCEPT ![p] = [NoPage EXCEPT !.at = "count", !.user = u]]
    /\ UNCHANGED <<rooms, sweep, peak, bounds>>

\* POST /rooms: the cap (503) and the two inserts of createRoomRecord.
AtMostCap  == Cardinality(Active) <= Cap
RoomIsLeft == Cardinality(Active) < Cap
CountActiveRooms(p) ==
    /\ At(p, "count")
    /\ IF RoomIsLeft
       THEN LET n == Cardinality(Counted) + 1
            IN  Goto(p, "insert") /\ peak' = (IF n > peak THEN n ELSE peak)
       ELSE Setup(p) /\ peak' = peak
    /\ UNCHANGED <<rooms, user, sweep, bounds>>

InsertRoom(p) ==
    /\ At(p, "insert")
    /\ IF user[page[p].user] = "gone" THEN Setup(p) /\ UNCHANGED <<status, host>>
       ELSE \E r \in Rooms :
              /\ status[r] = "none" /\ \A q \in 1 .. r - 1 : status[q] # "none"
              /\ status' = [status EXCEPT ![r] = "created"]
              /\ host' = [host EXCEPT ![r] = page[p].user]
              /\ page' = [page EXCEPT ![p].at = "host", ![p].room = r]
    /\ UNCHANGED <<old, parts, chats, user, sweep, peak, bounds>>

\* createLiveKitRoom comes next; it changes none of this.  Should it fail, or its
\* room_started never come, the room stays "created".
InsertHost(p) ==
    /\ At(p, "host")
    /\ parts' = parts \cup {<<page[p].room, page[p].user>>}
    /\ IF page[p].left THEN Setup(p) ELSE Goto(p, "token")
    /\ UNCHANGED <<status, host, old, chats, user, sweep, peak, bounds>>

\* POST /token of the host, or its refusal: the room has ended.  POST /invite is
\* last and changes none of this either.
Token(p) ==
    /\ At(p, "token")
    /\ IF status[page[p].room] \in {"created", "live"}
       THEN /\ status' = [status EXCEPT ![page[p].room] = "live"]
            /\ parts' = parts \cup {<<page[p].room, page[p].user>>}
            /\ Goto(p, "room")
       ELSE Setup(p) /\ UNCHANGED <<status, parts>>
    /\ UNCHANGED <<host, old, chats, user, sweep, peak, bounds>>

Fault == faults < MaxFaults /\ faults' = faults + 1 /\ UNCHANGED visits

\* A call fails, and the page forgets the room; or its tab is closed between two.
GivesUp(p) ==
    /\ page[p].at \in Steps \cup {"room"} /\ Fault
    /\ Setup(p)
    /\ UNCHANGED <<rooms, user, sweep, peak>>

\* The tab is closed while POST /rooms is under way: the server goes on with it.
Leaves(p) ==
    /\ page[p].at \in {"count", "insert", "host"} /\ ~page[p].left /\ Fault
    /\ page' = [page EXCEPT ![p].left = TRUE]
    /\ UNCHANGED <<rooms, user, sweep, peak>>

\* POST /end, which writes the end of an ended room anew; one that was purged
\* answers 404.  When it fails the page leaves all the same: GivesUp.
End(p) ==
    /\ At(p, "room")
    /\ status' = [status EXCEPT ![page[p].room] = IF @ = "live" THEN "ended" ELSE @]
    /\ old' = old \ {page[p].room}
    /\ Setup(p)
    /\ UNCHANGED <<host, parts, chats, user, sweep, peak, bounds>>

-----------------------------------------------------------------------------
(* The room, its audience, and time.                                       *)

\* room_started, when LiveKit has the room and announces it empty.
RoomStarted(r) ==
    /\ status[r] = "created" /\ <<r, host[r]>> \in parts
    /\ status' = [status EXCEPT ![r] = "live"]
    /\ UNCHANGED <<host, old, parts, chats, user, page, sweep, peak, bounds>>

\* room_finished: the host is gone, the lifetime over (see RoomLifecycle).
RoomFinished(r) ==
    /\ status[r] = "live"
    /\ status' = [status EXCEPT ![r] = "ended"]
    /\ UNCHANGED <<host, old, parts, chats, user, page, sweep, peak, bounds>>

\* A viewer gets a participant's row with its token; one who only follows the
\* playlist and the chat has none, but may write.
Visit(u, r) ==
    /\ visits < MaxVisits /\ r \in Active /\ user[u] # "gone"
    /\ visits' = visits + 1
    /\ user' = [user EXCEPT ![u] = SessionOf(u)]
    /\ \/ parts' = parts \cup {<<r, u>>} /\ chats' = chats
       \/ chats' = chats \cup {<<r, u>>} /\ parts' = parts
    /\ UNCHANGED <<status, host, old, page, sweep, peak, faults>>

\* Hours, so that no call is still under way.
RetentionPasses(r) ==
    /\ status[r] = "ended" /\ r \notin old
    /\ \A p \in Pages : page[p].room = r => At(p, "room")
    /\ old' = old \cup {r}
    /\ UNCHANGED <<status, host, parts, chats, user, page, sweep, peak, bounds>>

UserAges(u) ==
    /\ user[u] = "new"
    /\ user' = [user EXCEPT ![u] = "old"]
    /\ UNCHANGED <<rooms, page, sweep, peak, bounds>>

-----------------------------------------------------------------------------
(* sweepDemoOnce, after the lifetimes.                                     *)

Sweep(k, s) == sweep' = [sweep EXCEPT ![k] = s]

\* The rooms that ended before the cutoff, their deletion in one transaction (what
\* is selected cannot change before it), and on to the users, whether or not there
\* was such a room.  The cutoff is of the start: a user that ages later is for the
\* next sweep.  A sweep that finds nothing does nothing and is left out.
AfterPurge(ids)   == "parts"
OfRooms(rel, ids) == {p \in rel : p[1] \in ids}
OnlySilent        == {r \in old : \A p \in chats : p[1] # r}
OldRooms          == old
OldUsers          == {u \in Users : user[u] = "old"}
PurgeRooms(k) ==
    LET ids == OldRooms IN
    /\ sweep[k].at = "idle" /\ (ids # {} \/ OldUsers # {})
    /\ status' = [r \in Rooms |-> IF r \in ids THEN "purged" ELSE status[r]]
    /\ host' = [r \in Rooms |-> IF r \in ids THEN None ELSE host[r]]
    /\ parts' = parts \ OfRooms(parts, ids)
    /\ chats' = chats \ OfRooms(chats, ids)
    /\ old' = old \ ids
    /\ Sweep(k, [at |-> AfterPurge(ids), users |-> OldUsers])
    /\ UNCHANGED <<user, page, peak, bounds>>

\* The rows are read one table after the other; users found in one are spared.
Spare(k, next, found) == Sweep(k, [sweep[k] EXCEPT !.at = next, !.users = @ \ found])
ReadParticipants(k) ==
    /\ sweep[k].at = "parts"
    /\ Spare(k, "hosts", Participants)
    /\ UNCHANGED <<rooms, user, page, peak, bounds>>

ReadHosts(k) ==
    /\ sweep[k].at = "hosts"
    /\ Spare(k, "users", Hosts)
    /\ UNCHANGED <<rooms, user, page, peak, bounds>>

\* One DELETE for all of them: a row that refers to one of them fails it, and
\* the error is caught.
DeleteOrphans(k) ==
    /\ sweep[k].at = "users"
    /\ user' = IF sweep[k].users \cap Referred # {} THEN user
               ELSE [u \in Users |-> IF u \in sweep[k].users THEN "gone" ELSE user[u]]
    /\ Sweep(k, Idle)
    /\ UNCHANGED <<rooms, page, peak, bounds>>

Create(p) == CountActiveRooms(p) \/ InsertRoom(p) \/ InsertHost(p) \/ Token(p)
SweepStep(k) == PurgeRooms(k) \/ ReadParticipants(k) \/ ReadHosts(k) \/ DeleteOrphans(k)

Next ==
    \/ \E p \in Pages : \/ Create(p) \/ GivesUp(p) \/ Leaves(p) \/ End(p)
                        \/ \E u \in Users : Start(p, u)
    \/ \E u \in Users : UserAges(u) \/ \E r \in Rooms : Visit(u, r)
    \/ \E r \in Rooms : RoomStarted(r) \/ RoomFinished(r) \/ RetentionPasses(r)
    \/ \E k \in Sweeps : SweepStep(k)

Spec == Init /\ [][Next]_vars

\* Calls are answered, time passes, live rooms end, the sweeper is started again.
Fairness ==
    /\ \A p \in Pages : WF_vars(Create(p))
    /\ \A u \in Users : WF_vars(UserAges(u))
    /\ \A r \in Rooms : WF_vars(RoomFinished(r)) /\ WF_vars(RetentionPasses(r))
    /\ \A k \in Sweeps : WF_vars(SweepStep(k))

FairSpec == Spec /\ Fairness

-----------------------------------------------------------------------------

\* POST /rooms counts before it inserts, and nothing limits a host to one call at a
\* time.  What the cap still guarantees: calls one after the other do not exceed it, and
\* those under way together do so by one less than were ever between the two at once.
CapBound == Cardinality(Active) < Cap + peak

\* The data of a room that has ended goes.
EndedDataGoes ==
    \A r \in Rooms : status[r] = "ended" ~> status[r] = "purged"

\* With it every user nobody refers to any more, also when a deletion has failed
\* because of one that somebody did refer to.  A room that stays "created" never
\* ends, and what was written in it stands in the way for good.
OrphansGo ==
    \A u \in Users : \/ []<>(user[u] # "old" \/ u \in Referred)
                     \/ <>[](\E r \in Rooms : status[r] = "created")

\* The retention sweep, also one that overlaps another or fails half way, keeps
\* nothing for ever but what a room without an end refers to.
NothingPilesUp == EndedDataGoes /\ OrphansGo
=============================================================================
