--------------------------- MODULE RoomLifecycle ---------------------------
(***************************************************************************)
(* The life of one room: its row (created, live, ended), its LiveKit room, *)
(* the host's presence as the webhooks report it, the mark that the host   *)
(* is gone, and the four ways to end: POST /end, the host-grace sweeper,   *)
(* the lifetime sweeper, LiveKit's own empty timeout.                      *)
(*                                                                         *)
(* As in Participation, one action is the code between two awaits.         *)
(***************************************************************************)
EXTENDS Naturals, Sequences, SequencesExt

CONSTANTS
    Sweeps,      \* host-grace sweeps that can overlap (setInterval does not wait)
    Lifetime,    \* is MAX_ROOM_LIFETIME_MIN set
    InOrder,     \* are webhooks handled one at a time, in the order of events
    AutoCreate,  \* does LiveKit create a room on join (its default)
    StartsAtJoin, \* does LiveKit announce a created room at its first join only
    Faults,      \* may LiveKit calls fail and webhook handlers throw
    MaxJoins,    \* bound: connections of the host
    MaxCrashes   \* bound: restarts of the API process

ASSUME RoomLifecycleAssumption ==
    /\ {Lifetime, InOrder, AutoCreate, StartsAtJoin, Faults} \subseteq BOOLEAN
    /\ MaxJoins \in Nat /\ MaxCrashes \in Nat

VARIABLES
    status,   \* rooms.status
    expired,  \* rooms.created_at is past the lifetime
    lk,       \* the LiveKit room: absent, silent (not announced yet), open
    hostOn,   \* is the host connected to it
    guestsOn, \* is anyone else
    token,    \* does the host's client hold a usable token
    remade,   \* did LiveKit create the room on a join, not for createRoom
    hooks,    \* webhooks sent and not handled, in the order of their events
    present,  \* is the host in the Redis set room:*:present
    gone,     \* the Redis key room:*:host_gone, and whether its grace is over
    lock,     \* the Redis key room:*:host_gone:lock
    call,     \* the host's POST /rooms (after the insert), POST /token, POST /end
    sweep,    \* the host-grace sweeps and, as "demo", the lifetime sweep
    joins, crashes,
    lost,     \* history: has LiveKit's webhook been answered and not handled
    cut,      \* history: has a restart come between POST /end's row and its deletion
    late,     \* history: sweeps that read a mark which a newer one has replaced
    erased    \* history: has such a sweep deleted the newer mark

room    == <<status, expired>>
livekit == <<lk, hostOn, guestsOn, token, remade>>
redis   == <<present, gone, lock>>
api     == <<call, sweep>>
history == <<lost, cut, late, erased>>
bounds  == <<joins, crashes, history>>
vars    == <<status, expired, lk, hostOn, guestsOn, token, remade, hooks, present, gone, lock,
             call, sweep, joins, crashes, lost, cut, late, erased>>

Events == {"started", "joined", "left", "finished"}

\* A webhook and how far its handler has come.
Hook(e, p) == [event |-> e, pc |-> p]
New(e)     == Hook(e, "queued")

Active == {"created", "live"}

\* A handler (create, token, end) and a sweep move on.
Call(o, p) == call' = [call EXCEPT ![o] = p]
At(k, p)   == sweep[k] = p
Goto(k, p) == sweep' = [sweep EXCEPT ![k] = p]

TypeOK ==
    /\ status \in Active \cup {"ended"} /\ expired \in BOOLEAN
    /\ lk \in {"absent", "silent", "open"}
    /\ {hostOn, guestsOn, token, remade, present, lock} \subseteq BOOLEAN
    /\ hooks \in Seq([event : Events, pc : {"queued", "half", "mark"}])
    /\ gone \in {"none", "fresh", "due"}
    /\ call \in [create : {"livekit", "done", "failed"}, token : {"idle", "mark", "issue"},
                 end : {"idle", "record", "delete"}]
    /\ sweep \in [Sweeps \cup {"demo"} ->
                    {"idle", "room", "presence", "lock", "signal", "forget"}]
    /\ joins \in 0 .. MaxJoins /\ crashes \in 0 .. MaxCrashes
    /\ {lost, cut, erased} \subseteq BOOLEAN /\ late \subseteq Sweeps

\* createRoomRecord has inserted the row.
Init ==
    /\ status = "created" /\ expired = FALSE
    /\ lk = "absent" /\ hostOn = FALSE /\ guestsOn = FALSE /\ token = FALSE /\ remade = FALSE
    /\ hooks = << >>
    /\ present = FALSE /\ gone = "none" /\ lock = FALSE
    /\ call = [create |-> "livekit", token |-> "idle", end |-> "idle"]
    /\ sweep = [k \in Sweeps \cup {"demo"} |-> "idle"]
    /\ joins = 0 /\ crashes = 0
    /\ lost = FALSE /\ cut = FALSE /\ late = {} /\ erased = FALSE

-----------------------------------------------------------------------------
(* The LiveKit room, seen from the API.                                    *)

\* createRoom.
OpenRoom ==
    IF StartsAtJoin
    THEN lk' = "silent" /\ hooks' = hooks
    ELSE lk' = "open" /\ hooks' = Append(hooks, New("started"))

\* deleteRoom: everyone is disconnected and told so (the clients do not come
\* back by themselves), and the room is gone.
CloseRoom ==
    /\ lk' = "absent" /\ hostOn' = FALSE /\ guestsOn' = FALSE /\ remade' = FALSE
    /\ token' = (token /\ ~hostOn)
    /\ hooks' = hooks \o (IF hostOn THEN <<New("left")>> ELSE << >>)
                      \o <<New("finished")>>

\* deleteLiveKitRoom: an error, such as a room that does not exist, is ignored.
NoDeletion == UNCHANGED <<livekit, hooks>>
DeleteRoom ==
    \/ lk # "absent" /\ CloseRoom
    \/ (lk = "absent" \/ Faults) /\ UNCHANGED <<livekit, hooks>>

\* markRoomLive: only a created room turns live.
AlwaysLive == status' = "live"
MarkLive   == status' = IF status = "created" THEN "live" ELSE status

\* markRoomEnded: only a live room ends.
StatusAtEnd(s) == IF s = "live" THEN "ended" ELSE s

-----------------------------------------------------------------------------
(* POST /rooms, POST /token by the host, POST /end.                        *)

\* createLiveKitRoom.  When it throws the client never learns the room's id;
\* the room may have come to be in LiveKit all the same.
CreateLiveKitRoom ==
    /\ call.create = "livekit"
    /\ \/ Call("create", "done") /\ OpenRoom
       \/ Faults /\ Call("create", "failed") /\ (OpenRoom \/ UNCHANGED <<lk, hooks>>)
    /\ UNCHANGED <<room, hostOn, guestsOn, token, remade, redis, sweep, bounds>>

BeginToken ==
    /\ call.create = "done" /\ call.token = "idle"
    /\ status # "ended"
    /\ Call("token", "mark")
    /\ UNCHANGED <<room, livekit, hooks, redis, sweep, bounds>>

MarkLiveForHost ==
    /\ call.token = "mark"
    /\ MarkLive
    /\ Call("token", "issue")
    /\ UNCHANGED <<expired, livekit, hooks, redis, sweep, bounds>>

IssueToken ==
    /\ call.token = "issue"
    /\ token' = TRUE
    /\ Call("token", "idle")
    /\ UNCHANGED <<room, lk, hostOn, guestsOn, remade, hooks, redis, sweep, bounds>>

BeginEnd ==
    /\ call.create = "done" /\ call.end = "idle"
    /\ Call("end", "record")
    /\ UNCHANGED <<room, livekit, hooks, redis, sweep, bounds>>

\* endRoomRecord, whatever the status was.
EndRecord ==
    /\ call.end = "record"
    /\ status' = "ended"
    /\ Call("end", "delete")
    /\ UNCHANGED <<expired, livekit, hooks, redis, sweep, bounds>>

EndDelete ==
    /\ call.end = "delete"
    /\ DeleteRoom
    /\ Call("end", "idle")
    /\ UNCHANGED <<room, redis, sweep, bounds>>

-----------------------------------------------------------------------------
(* The host's client, the audience, LiveKit.                               *)

\* A token is good for ten minutes, whatever became of the room.
HostConnects ==
    /\ token /\ ~hostOn /\ joins < MaxJoins
    /\ lk # "absent" \/ AutoCreate
    /\ lk' = "open" /\ hostOn' = TRUE
    /\ remade' = (remade \/ lk = "absent")
    /\ hooks' = hooks \o (IF lk = "open" THEN << >> ELSE <<New("started")>>)
                      \o <<New("joined")>>
    /\ joins' = joins + 1
    /\ UNCHANGED <<room, guestsOn, token, redis, api, crashes, history>>

\* The connection breaks, or the host closes the page.
HostLeaves ==
    /\ hostOn
    /\ hostOn' = FALSE
    /\ token' \in {token, FALSE}
    /\ hooks' = Append(hooks, New("left"))
    /\ UNCHANGED <<room, lk, guestsOn, remade, redis, api, bounds>>

\* The audience; that it enters only a room that exists is a bound.
GuestsCome ==
    /\ lk # "absent" /\ ~guestsOn
    /\ lk' = "open" /\ guestsOn' = TRUE
    /\ hooks' = IF lk = "open" THEN hooks ELSE Append(hooks, New("started"))
    /\ UNCHANGED <<room, hostOn, token, remade, redis, api, bounds>>

GuestsGo ==
    /\ guestsOn
    /\ guestsOn' = FALSE
    /\ UNCHANGED <<room, lk, hostOn, token, remade, hooks, redis, api, bounds>>

\* LiveKit closes a room that has been empty for 300 s.
EmptyTimeout ==
    /\ lk # "absent" /\ ~hostOn /\ ~guestsOn
    /\ CloseRoom
    /\ UNCHANGED <<room, redis, api, bounds>>

-----------------------------------------------------------------------------
(* Webhooks.                                                               *)

\* The i-th pending webhook can be taken up, or its handler goes on, with
\* event e at step p.
Turn(i, e, p) ==
    /\ i \in DOMAIN hooks
    /\ InOrder => i = 1
    /\ hooks[i] = Hook(e, p)

StepTo(i, p) == hooks' = [hooks EXCEPT ![i].pc = p]
Done(i)      == hooks' = RemoveAt(hooks, i)

RoomStarted(i) ==
    /\ Turn(i, "started", "queued")
    /\ MarkLive
    /\ Done(i)
    /\ UNCHANGED <<expired, livekit, redis, api, bounds>>

\* markParticipantJoined, then clearHostGone.
HostJoined(i) ==
    /\ Turn(i, "joined", "queued")
    /\ present' = TRUE
    /\ StepTo(i, "half")
    /\ UNCHANGED <<room, livekit, gone, lock, api, bounds>>

ClearHostGone(i) ==
    /\ Turn(i, "joined", "half")
    /\ gone' = "none" /\ erased' = FALSE
    /\ Done(i)
    /\ UNCHANGED <<room, livekit, present, lock, api, joins, crashes, lost, cut, late>>

\* markParticipantLeft, then the status is read, then markHostGone.
PresentStays(i) ==
    /\ Turn(i, "left", "queued")
    /\ StepTo(i, "half")
    /\ UNCHANGED <<room, livekit, redis, api, bounds>>

HostLeft(i) ==
    /\ Turn(i, "left", "queued")
    /\ present' = FALSE
    /\ StepTo(i, "half")
    /\ UNCHANGED <<room, livekit, gone, lock, api, bounds>>

ReadStatus(i) ==
    /\ Turn(i, "left", "half")
    /\ IF status = "ended" THEN Done(i) ELSE StepTo(i, "mark")
    /\ UNCHANGED <<room, livekit, redis, api, bounds>>

MarkHostGone(i) ==
    /\ Turn(i, "left", "mark")
    /\ gone' = "fresh"
    /\ late' = {k \in Sweeps : ~At(k, "idle")} /\ erased' = FALSE
    /\ Done(i)
    /\ UNCHANGED <<room, livekit, present, lock, api, joins, crashes, lost, cut>>

\* markRoomEnded, the update first; then the Redis sets go.
RoomFinished(i) ==
    /\ Turn(i, "finished", "queued")
    /\ status' = StatusAtEnd(status)
    /\ StepTo(i, "half")
    /\ UNCHANGED <<expired, livekit, redis, api, bounds>>

ClearPresence(i) ==
    /\ Turn(i, "finished", "half")
    /\ present' = FALSE
    /\ Done(i)
    /\ UNCHANGED <<room, livekit, gone, lock, api, bounds>>

\* The handler throws and the answer is 200 nevertheless.
HookLost(i) ==
    /\ Faults
    /\ i \in DOMAIN hooks /\ (InOrder => i = 1)
    /\ Done(i)
    /\ lost' = TRUE
    /\ UNCHANGED <<room, livekit, redis, api, joins, crashes, cut, late, erased>>

-----------------------------------------------------------------------------
(* sweepHostGraceOnce and endRoomGracefully.                               *)

\* HOST_GRACE_SEC have gone by since the departure.
GracePasses ==
    /\ gone = "fresh"
    /\ gone' = "due"
    /\ UNCHANGED <<room, livekit, hooks, present, lock, api, bounds>>

Ends(k) == Goto(k, "idle") /\ late' = late \ {k}

SweepReadsMark(k) ==
    /\ At(k, "idle") /\ gone = "due"
    /\ Goto(k, "room")
    /\ UNCHANGED <<room, livekit, hooks, redis, call, bounds>>

SweepReadsRoom(k) ==
    /\ At(k, "room")
    /\ IF status = "ended" THEN Goto(k, "forget") ELSE Goto(k, "presence")
    /\ UNCHANGED <<room, livekit, hooks, redis, call, bounds>>

SweepReadsPresence(k) ==
    /\ At(k, "presence")
    /\ IF present THEN Goto(k, "forget") ELSE Goto(k, "lock")
    /\ UNCHANGED <<room, livekit, hooks, redis, call, bounds>>

\* SET NX PX 30000; the lock is never released, it expires.
SweepLocks(k) ==
    /\ At(k, "lock")
    /\ IF lock THEN Ends(k) ELSE Goto(k, "signal") /\ late' = late
    /\ lock' = TRUE
    /\ UNCHANGED <<room, livekit, hooks, present, gone, call, joins, crashes, lost, cut, erased>>

\* ROOM_ENDING went out 2.5 s ago.
SweepDeletes(k) ==
    /\ At(k, "signal")
    /\ DeleteRoom
    /\ Goto(k, "forget")
    /\ UNCHANGED <<room, redis, call, bounds>>

\* The del is of the key, whatever mark it holds by then.
SweepForgets(k) ==
    /\ At(k, "forget")
    /\ gone' = "none"
    /\ erased' = (erased \/ (gone # "none" /\ k \in late))
    /\ Ends(k)
    /\ UNCHANGED <<room, livekit, hooks, present, lock, call, joins, crashes, lost, cut>>

\* 30 s are longer than signal, grace and deletion take with their timeouts.
LockForEver == FALSE
LockExpires ==
    /\ lock /\ \A k \in Sweeps : ~At(k, "signal")
    /\ lock' = FALSE
    /\ UNCHANGED <<room, livekit, hooks, present, gone, api, bounds>>

-----------------------------------------------------------------------------
(* sweepDemoOnce, its first half; its lock always is free: the sweep comes  *)
(* every 60 s and the lock lasts 30 s.                                      *)

LifetimePasses ==
    /\ Lifetime /\ ~expired
    /\ expired' = TRUE
    /\ UNCHANGED <<status, livekit, hooks, redis, api, bounds>>

DemoSelects ==
    /\ At("demo", "idle")
    /\ expired /\ status \in Active
    /\ Goto("demo", "signal")
    /\ UNCHANGED <<room, livekit, hooks, redis, call, bounds>>

DemoDeletes ==
    /\ At("demo", "signal")
    /\ DeleteRoom
    /\ Goto("demo", "idle")
    /\ UNCHANGED <<room, redis, call, bounds>>

-----------------------------------------------------------------------------
\* The API restarts: what its handlers and sweeps were doing is gone, and a
\* webhook that got no answer is sent again.
Restart ==
    /\ crashes < MaxCrashes
    /\ crashes' = crashes + 1
    /\ call' = [create |-> IF call.create = "livekit" THEN "failed" ELSE call.create,
                token |-> "idle", end |-> "idle"]
    /\ sweep' = [k \in DOMAIN sweep |-> "idle"]
    /\ hooks' = [i \in DOMAIN hooks |-> New(hooks[i].event)]
    /\ cut' = (cut \/ call.end = "delete") /\ late' = {}
    /\ UNCHANGED <<room, livekit, redis, joins, lost, erased>>

Handlers == CreateLiveKitRoom \/ MarkLiveForHost \/ IssueToken \/ EndRecord \/ EndDelete

Webhook(i) ==
    \/ RoomStarted(i)
    \/ HostJoined(i) \/ ClearHostGone(i)
    \/ HostLeft(i) \/ ReadStatus(i) \/ MarkHostGone(i)
    \/ RoomFinished(i) \/ ClearPresence(i)

Sweep(k) ==
    \/ SweepReadsMark(k) \/ SweepReadsRoom(k) \/ SweepReadsPresence(k)
    \/ SweepLocks(k) \/ SweepDeletes(k) \/ SweepForgets(k)

DemoSweep == DemoSelects \/ DemoDeletes

Clock == GracePasses \/ LockExpires \/ LifetimePasses

People == BeginToken \/ BeginEnd \/ HostConnects \/ HostLeaves \/ GuestsCome \/ GuestsGo

Next ==
    \/ People \/ Handlers \/ EmptyTimeout \/ Clock \/ DemoSweep \/ Restart
    \/ \E i \in DOMAIN hooks : Webhook(i) \/ HookLost(i)
    \/ \E k \in Sweeps : Sweep(k)

Spec == Init /\ [][Next]_vars

\* Timers fire, a handler that started goes on, a webhook is delivered.  What
\* people do, restarts, and the end of the lifetime, which nothing else may wait
\* for, are not fair.
Fairness ==
    /\ WF_vars(CreateLiveKitRoom) /\ WF_vars(EndRecord) /\ WF_vars(EndDelete)
    /\ WF_vars(MarkLiveForHost) /\ WF_vars(IssueToken)
    /\ WF_vars(\E i \in DOMAIN hooks : Webhook(i))
    /\ \A k \in Sweeps : WF_vars(Sweep(k))
    /\ WF_vars(DemoSweep)
    /\ WF_vars(GracePasses) /\ WF_vars(LockExpires)
    /\ WF_vars(EmptyTimeout)

FairSpec == Spec /\ Fairness

-----------------------------------------------------------------------------
(* What the lifecycle promises.                                            *)

\* An ended room stays ended: a late room_started, or a token request that read
\* the row before the end, does not revive it.
EndedIsFinal == [][status = "ended" => status' = "ended"]_vars

Settled == hooks = << >> /\ ~lost

\* roomState's presence: once every webhook is handled, in order and without an
\* error, the Redis set has the host exactly while the host is connected, over
\* reconnects, restarts in the middle of a handler, and the end of the room.
PresenceTracks == Settled => (present <=> hostOn)

\* hostGrace: then no departure is held against a host who is back, so that no
\* sweep that starts now ends the room.
MarkMeansAway == Settled /\ hostOn => gone = "none"

\* hostGrace: a live room whose host left, and was seen to have been there, ends
\* unless the host comes back, over returns and further departures and whatever sweep a
\* restart cuts short.  One way out is known: a sweep that looked at the mark of an
\* earlier departure deletes that of the last one.
HostlessRoomEnds ==
    status = "live" /\ present /\ ~hostOn ~> hostOn \/ status = "ended" \/ erased

\* demoSweeper: a live room with a LiveKit room past its lifetime ends.
LifetimeEnforced ==
    expired /\ status = "live" /\ lk # "absent" ~> status = "ended"

\* roomState and hostGrace together: what Redis holds about the host, once every
\* webhook is handled, is what the room shows, over reconnects and restarts.
HostPresence == PresenceTracks /\ MarkMeansAway

\* The two sweepers: no live room goes on without its host, as long as the mark of the
\* host's last departure is not erased, or past its lifetime.
RoomsEnd == HostlessRoomEnds /\ LifetimeEnforced

\* POST /end, the sweepers: the end leaves nothing.  The mark of an absent host, which
\* has no TTL, goes, and so does the LiveKit room, unless a restart cut /end short
\* between its two steps, or LiveKit made the room again for a host whose token is
\* still good.
EndLeavesNothing ==
    status = "ended" ~> gone = "none" /\ (lk = "absent" \/ remade \/ cut)
=============================================================================
