--------------------------- MODULE Participation ---------------------------
(***************************************************************************)
(* Who may publish in one room: the participant row in Postgres, the token *)
(* a client holds, the permission LiveKit gives a connected participant,   *)
(* and the HTTP handlers, webhooks and background loops that move them.    *)
(*                                                                         *)
(* Every await of a handler is a place where others run, so a handler is a *)
(* call in flight with a program counter; one action is the code between   *)
(* two awaits.  The room stays open: its ending is in RoomLifecycle.       *)
(***************************************************************************)
EXTENDS Integers, FiniteSets

CONSTANTS
    Users,        \* the users of the instance, the host among them or not
    Host,         \* rooms.host_id
    Requests,     \* handler slots: how many calls can be in flight at once
    MaxGuests,    \* rooms.max_guests
    MaxSpeakers,  \* rooms.max_speakers
    Clients,      \* bound: the users that connect; they and the host take tokens
    MaxLoops,     \* bound: approvals of a user start below this many loops
    Ops,          \* bound: the routes called about each user
    Faults        \* may calls fail, hooks get lost or doubled, the API restart

AllOps == {"token", "join", "approve", "reject", "role", "kick"}

ASSUME ParticipationAssumption ==
    /\ IsFiniteSet(Users)
    /\ IsFiniteSet(Requests) /\ Requests # {}
    /\ MaxGuests \in Nat /\ MaxSpeakers \in Nat /\ MaxLoops \in Nat
    /\ Clients \subseteq Users /\ Ops \in [Users -> SUBSET AllOps]
    /\ Faults \in BOOLEAN

VARIABLES
    row,      \* room_participants: user -> [role, state]
    token,    \* the access token the client would connect with: its role
    conn,     \* the permission of the user's LiveKit participant, or "off"
    hooks,    \* participant webhooks LiveKit has yet to deliver
    call,     \* the handler in each slot
    loops,    \* running ensurePublishPermission loops, per user and role
    late,     \* LiveKit calls whose handler timed out, still under way
    granted   \* history: the publish roles the row of a user ever had

vars == <<row, token, conn, hooks, call, loops, late, granted>>

PubRoles == {"guest", "speaker"}
Roles    == PubRoles \cup {"host", "viewer"}
States   == {"requested", "approved", "left", "kicked"}
NoRow    == [role |-> "none", state |-> "absent"]
Row(r, s) == [role |-> r, state |-> s]

\* A handler at one of its awaits: the route, its subject, the role it is
\* about to give and where it stands.
Idle == [op |-> "none", user |-> "none", role |-> "none", pc |-> "idle"]

Calls ==
    {Idle}
    \cup [op : {"token"}, user : Users, role : {"host", "viewer"},
          pc : {"ensure", "issue"}]
    \cup [op : {"token"}, user : Users, role : PubRoles, pc : {"issue"}]
    \cup [op : {"join"}, user : Users, role : PubRoles,
          pc : {"count", "write", "queue"}]
    \cup [op : {"approve"}, user : Users, role : PubRoles,
          pc : {"count", "write"}]
    \cup [op : {"role"}, user : Users, role : PubRoles,
          pc : {"count", "write", "perm"}]
    \cup [op : {"reject"}, user : Users, role : {"viewer"},
          pc : {"write", "perm"}]
    \cup [op : {"kick"}, user : Users, role : {"viewer"},
          pc : {"write", "remove"}]

Cap(r) == IF r = "guest" THEN MaxGuests ELSE MaxSpeakers

Approved(r) == {u \in Users : row[u] = Row(r, "approved")}

HasPublishRole(u) == row[u].role \in PubRoles

IsPublisher(u) == HasPublishRole(u) /\ row[u].state = "approved"

\* Was on stage and left: to be tried for re-entry.
Returning(u) == HasPublishRole(u) /\ row[u].state = "left"

\* The slot check of approve, role change and re-entry.
OneTooMany(r) == Cardinality(Approved(r)) <= Cap(r)
HasSlot(r)    == Cardinality(Approved(r)) < Cap(r)

\* The state a participant_left event leaves: "left", except that "kicked" stands.
AlwaysLeft(s)     == "left"
StateAfterLeft(s) == IF s = "kicked" THEN "kicked" ELSE "left"

\* The row a token request leaves: the host is upserted, a viewer is inserted
\* only where there is no row.
Overwritten(old, r) == Row(r, "approved")
EnsuredRow(old, r)  == IF r = "host" \/ old = NoRow THEN Row(r, "approved") ELSE old

-----------------------------------------------------------------------------
TypeOK ==
    /\ row \in [Users -> [role : Roles \cup {"none"},
                          state : States \cup {"absent"}]]
    /\ token \in [Users -> Roles \cup {"none"}]
    /\ conn \in [Users -> Roles \cup {"off"}]
    /\ hooks \in [Users -> SUBSET {"joined", "left"}]
    /\ call \in [Requests -> Calls]
    /\ loops \in [Users -> [PubRoles -> Nat]]
    /\ late \in SUBSET (Users \X (Roles \cup {"off"}))
    /\ granted \in [Users -> SUBSET PubRoles]

\* POST /rooms leaves one row, the host's (createRoomRecord).
Init ==
    /\ row = [u \in Users |-> IF u = Host THEN Row("host", "approved") ELSE NoRow]
    /\ token = [u \in Users |-> "none"]
    /\ conn = [u \in Users |-> "off"]
    /\ hooks = [u \in Users |-> {}]
    /\ call = [k \in Requests |-> Idle]
    /\ loops = [u \in Users |-> [r \in PubRoles |-> 0]]
    /\ late = {}
    /\ granted = [u \in Users |-> {}]

-----------------------------------------------------------------------------
(* Building blocks.                                                        *)

Start(k, o, u, r, p) ==
    /\ o \in Ops[u]
    /\ call[k] = Idle
    /\ call' = [call EXCEPT ![k] = [op |-> o, user |-> u, role |-> r, pc |-> p]]

At(k, o, p)  == call[k].op = o /\ call[k].pc = p
Goto(k, p)   == call' = [call EXCEPT ![k].pc = p]
Return(k)    == call' = [call EXCEPT ![k] = Idle]

\* ensureParticipant: insert or overwrite both columns.
Upsert(u, r, s) == row' = [row EXCEPT ![u] = Row(r, s)]

\* The history of publish roles, kept where a handler writes an approval.
Record(u, r) == granted' = [granted EXCEPT ![u] = @ \cup {r}]

\* LiveKit carries out an update (permission e) or a removal (e = "off").  A
\* removed client drops its token and is routed to the "removed" screen.
Apply(u, e) ==
    /\ conn[u] # "off"
    /\ conn' = [conn EXCEPT ![u] = e]
    /\ IF e = "off"
       THEN /\ token' = [token EXCEPT ![u] = "none"]
            /\ hooks' = [hooks EXCEPT ![u] = @ \cup {"left"}]
       ELSE UNCHANGED <<token, hooks>>

\* The call rejects: there is no such participant, LiveKit failed, or the 10 s
\* timeout fired, in which case the request may still be under way.
Fail(u, e) ==
    /\ conn[u] = "off" \/ Faults
    /\ UNCHANGED <<conn, token, hooks>>
    /\ \/ late' = late
       \/ Faults /\ late' = late \cup {<<u, e>>}

-----------------------------------------------------------------------------
(* POST /rooms/:id/token                                                   *)

\* The role is the server's decision, from the row read here.
BeginToken(k, u, want) ==
    /\ u \in Clients \cup {Host}
    /\ \/ /\ u = Host
          /\ Start(k, "token", u, "host", "ensure")
       \/ /\ u # Host /\ want = "publish"
          /\ IsPublisher(u)
          /\ Start(k, "token", u, row[u].role, "issue")
       \/ /\ u # Host /\ want = "watch"
          /\ row[u].state # "kicked"
          /\ Start(k, "token", u, "viewer", "ensure")
    /\ UNCHANGED <<row, token, conn, hooks, loops, late, granted>>

EnsureTokenRow(k) ==
    /\ At(k, "token", "ensure")
    /\ row' = [row EXCEPT ![call[k].user] = EnsuredRow(@, call[k].role)]
    /\ Goto(k, "issue")
    /\ UNCHANGED <<token, conn, hooks, loops, late, granted>>

IssueToken(k) ==
    /\ At(k, "token", "issue")
    /\ token' = [token EXCEPT ![call[k].user] = call[k].role]
    /\ Return(k)
    /\ UNCHANGED <<row, conn, hooks, loops, late, granted>>

-----------------------------------------------------------------------------
(* POST /rooms/:id/join-requests, with a valid invite code                 *)

\* A publisher's row is answered at once; a row that left with a publish role
\* is tried for re-entry, every other one is queued for the host.
BeginJoin(k, u) ==
    /\ u # Host
    /\ ~IsPublisher(u)
    /\ IF Returning(u)
       THEN Start(k, "join", u, row[u].role, "count")
       ELSE Start(k, "join", u, "guest", "queue")
    /\ UNCHANGED <<row, token, conn, hooks, loops, late, granted>>

CountForReentry(k) ==
    /\ At(k, "join", "count")
    /\ IF HasSlot(call[k].role)
       THEN Goto(k, "write")
       ELSE Goto(k, "queue")
    /\ UNCHANGED <<row, token, conn, hooks, loops, late, granted>>

Reenter(k) ==
    /\ At(k, "join", "write")
    /\ Upsert(call[k].user, call[k].role, "approved")
    /\ Record(call[k].user, call[k].role)
    /\ Return(k)
    /\ UNCHANGED <<token, conn, hooks, loops, late>>

Enqueue(k) ==
    /\ At(k, "join", "queue")
    /\ Upsert(call[k].user, "guest", "requested")
    /\ Return(k)
    /\ UNCHANGED <<token, conn, hooks, loops, late, granted>>

-----------------------------------------------------------------------------
(* POST /rooms/:id/guests/:userId/approve and .../participants/:userId/role *)

BeginApprove(k, u, r) ==
    /\ row[u] # NoRow
    /\ ~IsPublisher(u)
    /\ \A x \in PubRoles : loops[u][x] < MaxLoops
    /\ Start(k, "approve", u, r, "count")
    /\ UNCHANGED <<row, token, conn, hooks, loops, late, granted>>

BeginRoleChange(k, u, r) ==
    /\ IsPublisher(u)
    /\ row[u].role # r
    /\ \A x \in PubRoles : loops[u][x] < MaxLoops
    /\ Start(k, "role", u, r, "count")
    /\ UNCHANGED <<row, token, conn, hooks, loops, late, granted>>

\* A full role answers 409, otherwise the handler goes on to write.
CountSlots(k) ==
    /\ \E o \in {"approve", "role"} : At(k, o, "count")
    /\ IF HasSlot(call[k].role)
       THEN Goto(k, "write")
       ELSE Return(k)
    /\ UNCHANGED <<row, token, conn, hooks, loops, late, granted>>

\* The row first, then the loop that carries the permission to LiveKit.
Approve(k) ==
    /\ At(k, "approve", "write")
    /\ Upsert(call[k].user, call[k].role, "approved")
    /\ Record(call[k].user, call[k].role)
    /\ loops' = [loops EXCEPT ![call[k].user][call[k].role] = @ + 1]
    /\ Return(k)
    /\ UNCHANGED <<token, conn, hooks, late>>

ChangeRole(k) ==
    /\ At(k, "role", "write")
    /\ Upsert(call[k].user, call[k].role, "approved")
    /\ Record(call[k].user, call[k].role)
    /\ Goto(k, "perm")
    /\ UNCHANGED <<token, conn, hooks, loops, late>>

\* The permission of the new role, at once or left to a background loop.
ChangePermission(k) ==
    /\ At(k, "role", "perm")
    /\ LET u == call[k].user
           r == call[k].role
       IN  \/ Apply(u, r) /\ UNCHANGED <<loops, late>>
           \/ Fail(u, r) /\ loops' = [loops EXCEPT ![u][r] = @ + 1]
    /\ Return(k)
    /\ UNCHANGED <<row, granted>>

-----------------------------------------------------------------------------
(* POST /rooms/:id/guests/:userId/reject and .../kick                      *)

BeginReject(k, u) ==
    /\ row[u] # NoRow
    /\ Start(k, "reject", u, "viewer", "write")
    /\ UNCHANGED <<row, token, conn, hooks, loops, late, granted>>

BeginKick(k, u) ==
    /\ u # Host
    /\ Start(k, "kick", u, "viewer", "write")
    /\ UNCHANGED <<row, token, conn, hooks, loops, late, granted>>

\* Both write the row first ...
ShutOut(k) ==
    /\ \E o \in {"reject", "kick"} : At(k, o, "write")
    /\ Upsert(call[k].user, "viewer", "kicked")
    /\ Goto(k, IF call[k].op = "reject" THEN "perm" ELSE "remove")
    /\ UNCHANGED <<token, conn, hooks, loops, late, granted>>

\* ... then revoke the permission or remove the participant, ignoring errors.
Revoke(k) ==
    /\ At(k, "reject", "perm") \/ At(k, "kick", "remove")
    /\ LET u == call[k].user
           e == IF call[k].op = "reject" THEN "viewer" ELSE "off"
       IN  \/ Apply(u, e) /\ late' = late
           \/ Fail(u, e)
    /\ Return(k)
    /\ UNCHANGED <<row, loops, granted>>

-----------------------------------------------------------------------------
(* ensurePublishPermission: eight tries, 800 ms apart, then it gives up.   *)

RetryApplies(u, r) ==
    /\ loops[u][r] > 0
    /\ Apply(u, r)
    /\ loops' = [loops EXCEPT ![u][r] = @ - 1]
    /\ UNCHANGED <<row, call, late, granted>>

\* A failed try leaves the loop for the next one, the last one ends it.
RetryFails(u, r) ==
    /\ loops[u][r] > 0
    /\ Fail(u, r)
    /\ \/ loops' = loops
       \/ loops' = [loops EXCEPT ![u][r] = @ - 1]
    /\ UNCHANGED <<row, call, granted>>

-----------------------------------------------------------------------------
(* The client and LiveKit.                                                 *)

\* A join with a token; it replaces a session of the same identity.
Connect(u) ==
    /\ u \in Clients
    /\ token[u] # "none"
    /\ conn' = [conn EXCEPT ![u] = token[u]]
    /\ hooks' = [hooks EXCEPT ![u] = @ \cup {"joined"} \cup
                    (IF conn[u] = "off" THEN {} ELSE {"left"})]
    /\ UNCHANGED <<row, token, call, loops, late, granted>>

\* The connection breaks; the client keeps its token and may come back.
Drop(u) ==
    /\ conn[u] # "off"
    /\ conn' = [conn EXCEPT ![u] = "off"]
    /\ hooks' = [hooks EXCEPT ![u] = @ \cup {"left"}]
    /\ UNCHANGED <<row, token, call, loops, late, granted>>

\* Ten minutes pass, or the page is closed: the token is of no use any more.
Expire(u) ==
    /\ token[u] # "none"
    /\ token' = [token EXCEPT ![u] = "none"]
    /\ UNCHANGED <<row, conn, hooks, call, loops, late, granted>>

\* A LiveKit call outlives the handler that timed out, and lands or is lost.
LateLands(u, e) ==
    /\ <<u, e>> \in late
    /\ late' = late \ {<<u, e>>}
    /\ Apply(u, e) \/ UNCHANGED <<conn, token, hooks>>
    /\ UNCHANGED <<row, call, loops, granted>>

-----------------------------------------------------------------------------
(* Webhooks, in either order; lost and delivered again under Faults.       *)

Consume(u, h) ==
    /\ h \in hooks[u]
    /\ \/ hooks' = [hooks EXCEPT ![u] = @ \ {h}]
       \/ Faults /\ hooks' = hooks

\* markParticipantJoined: a minimal row if there is none, else role and state
\* stay as they are.
ParticipantJoined(u) ==
    /\ Consume(u, "joined")
    /\ IF row[u] = NoRow THEN Upsert(u, "viewer", "approved") ELSE row' = row
    /\ UNCHANGED <<token, conn, call, loops, late, granted>>

\* markParticipantLeft: one statement, so the state it keeps is the one it sees.
ParticipantLeft(u) ==
    /\ Consume(u, "left")
    /\ IF row[u] = NoRow THEN Upsert(u, "viewer", "left")
       ELSE Upsert(u, row[u].role, StateAfterLeft(row[u].state))
    /\ UNCHANGED <<token, conn, call, loops, late, granted>>

\* The handler failed; it still answers 200 and LiveKit does not resend.
HookLost(u, h) ==
    /\ Faults
    /\ h \in hooks[u]
    /\ hooks' = [hooks EXCEPT ![u] = @ \ {h}]
    /\ UNCHANGED <<row, token, conn, call, loops, late, granted>>

-----------------------------------------------------------------------------
\* A rejected query ends a handler between two awaits.
Abort(k) ==
    /\ Faults
    /\ call[k] # Idle
    /\ Return(k)
    /\ UNCHANGED <<row, token, conn, hooks, loops, late, granted>>

\* The API process goes down: its handlers and loops are gone.
Restart ==
    /\ Faults
    /\ call' = [k \in Requests |-> Idle]
    /\ loops' = [u \in Users |-> [r \in PubRoles |-> 0]]
    /\ UNCHANGED <<row, token, conn, hooks, late, granted>>

Begin(k) ==
    \E u \in Users :
        \/ \E want \in {"publish", "watch"} : BeginToken(k, u, want)
        \/ BeginJoin(k, u)
        \/ \E r \in PubRoles : BeginApprove(k, u, r) \/ BeginRoleChange(k, u, r)
        \/ BeginReject(k, u)
        \/ BeginKick(k, u)

Continue(k) ==
    \/ EnsureTokenRow(k) \/ IssueToken(k)
    \/ CountForReentry(k) \/ Reenter(k) \/ Enqueue(k)
    \/ CountSlots(k) \/ Approve(k)
    \/ ChangeRole(k) \/ ChangePermission(k)
    \/ ShutOut(k) \/ Revoke(k)

Background(u) ==
    \/ \E r \in PubRoles : RetryApplies(u, r) \/ RetryFails(u, r)
    \/ \E e \in Roles \cup {"off"} : LateLands(u, e)

Outside(u) ==
    \/ Connect(u) \/ Drop(u) \/ Expire(u)
    \/ ParticipantJoined(u) \/ ParticipantLeft(u)
    \/ \E h \in {"joined", "left"} : HookLost(u, h)

Next ==
    \/ \E k \in Requests : Begin(k) \/ Continue(k) \/ Abort(k)
    \/ \E u \in Users : Background(u) \/ Outside(u)
    \/ Restart

Spec == Init /\ [][Next]_vars

-----------------------------------------------------------------------------
(* What the rows promise.                                                  *)

\* The slot limit and the check-then-write of its three callers (approve,
\* role change, re-entry): a role is never over-committed by more than the
\* other calls in flight, and one call at a time keeps max_guests exactly.
SlotBound ==
    \A r \in PubRoles :
        Cardinality(Approved(r)) <= Cap(r) + Cardinality(Requests) - 1

\* The server's authority over roles: a publish permission, wherever it is (in
\* LiveKit, in a token, in a handler, a loop or a late call on its way there),
\* is one the user's row was given by an approval, never one a client claimed.
UserGrants(u) ==
    /\ conn[u] \in PubRoles => conn[u] \in granted[u]
    /\ token[u] \in PubRoles => token[u] \in granted[u]
    /\ \A r \in PubRoles : u \in Approved(r) => r \in granted[u]
    /\ \A r \in PubRoles : loops[u][r] > 0 => r \in granted[u]
    /\ \A r \in PubRoles : <<u, r>> \in late => r \in granted[u]

CallGrants(k) ==
    call[k].pc \in {"issue", "perm"} /\ call[k].role \in PubRoles
    => call[k].role \in granted[call[k].user]

GrantsRecorded ==
    /\ \A u \in Users : UserGrants(u)
    /\ \A k \in Requests : CallGrants(k)

\* A call of one of the routes os that is at its write, for u.
Writing(u, os) ==
    \E k \in Requests : /\ call[k].user = u
                        /\ call[k].op \in os
                        /\ call[k].pc \in {"ensure", "write", "queue"}
                        /\ call'[k] # call[k]

\* A rejection or a kick stands until the user asks again or the host decides
\* again: no webhook, however late or repeated, and no viewer token lifts it.
KickStands ==
    [][\A u \in Users \ {Host} :
         row[u].state = "kicked" /\ row'[u].state # "kicked"
         => Writing(u, {"join", "approve", "role"})]_vars

\* While a row says guest or speaker, only a rejection or a kick makes it say neither:
\* waiting in the room with a viewer token, leaving and coming back do not.
DemotionNeedsModeration ==
    [][\A u \in Users \ {Host} :
         HasPublishRole(u) /\ row'[u].role \notin PubRoles
         => Writing(u, {"reject", "kick"})]_vars
=============================================================================
